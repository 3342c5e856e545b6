--------------------------- MODULE ProcessMemory ---------------------------
(***************************************************************************)
(* The memory of the processes: loading (process/process.c), the mmap      *)
(* system call (process/process_mmap.c), shared memory                     *)
(* (process/shared_memory.c) and the page tables (vmap.c,                  *)
(* process/address_space.c), on top of the page allocator.                 *)
(*                                                                         *)
(* Addresses are page numbers.  Kernel code is not interrupted: a call     *)
(* that takes several pages is a job, with one step per page taken, and    *)
(* nothing else runs until it ends.  Every error on the way ends in a      *)
(* failed assertion, which stops the machine.  kmalloc is BlockAllocator's *)
(* subject and does not fail here.  Shared memory objects are files, kept  *)
(* in the tables of Files; opening the path of a file of another kind,     *)
(* which is an error without effect, and page flags are left out, as are   *)
(* reference counts, which nothing reads.                                  *)
(***************************************************************************)
EXTENDS PageAlloc, SequencesExt, Files

CONSTANTS
  Modules,            \* the boot modules, a sequence of processes
  Programs,           \* the pages a module is loaded to: its stack's, its segments'
  Levels, Fanout,     \* of a page table: 4 and 512
  HeapBase, HeapSize, \* HEAP_VIRTUAL_BASE and HEAP_SIZE, in pages
  PageSize,
  Lengths,            \* lengths of mappings and sizes of objects, in bytes
  Paths,              \* names of shared memory objects
  Framebuffer,        \* [path, pages]: what gfx_init registers
  Addresses,          \* bound: the addresses callers of mmap choose
  MaxEntries,         \* bound: mappings of one process
  MaxFds,             \* bound: descriptors of one process
  MaxKernelBlocks,    \* bound: blocks the kernel takes for itself
  NoJob, NoFrame, NoFile

Processes == Range(Modules)
VirtualPage == 0..(Fanout ^ Levels - 1)
HeapPages == HeapBase..(HeapBase + HeapSize - 1)

ASSUME MemoryAssumption ==
  /\ {Levels, Fanout, PageSize} \subseteq Nat \ {0}
  /\ HeapBase \in Nat /\ HeapSize \in Nat /\ HeapPages \subseteq VirtualPage
  /\ {MaxEntries, MaxFds, MaxKernelBlocks} \cup Lengths \cup Addresses \subseteq Nat
  \* Programs are linked below the heap.
  /\ \A program \in Programs : Range(program) \subseteq VirtualPage \ HeapPages
  \* Physical address 0 is no usable memory, nor is the framebuffer.
  /\ \A map \in MemoryMaps : Usable(map) \cap ({0} \cup Range(Framebuffer.pages)) = {}

VARIABLES
  loaded,             \* how many modules have been loaded
  tables,             \* the page of each table of a process, by level and place
  leaves,             \* the page mapped at each virtual page
  mmap_entries,       \* in order; the file is recorded for the property Isolation
  file_table,         \* all files, and the paths that lead to them
  fd_table,           \* of each process: its files, by descriptor
  kernelHeap,         \* the blocks the kernel took for itself
  job,                \* the call in progress
  remapped            \* history: a mapping was replaced

memVars == <<loaded, tables, leaves, mmap_entries, file_table, fd_table, kernelHeap, job, remapped>>
vars == <<memoryMap, freeLists, bitmap, held, kernel, loaded, tables, leaves, mmap_entries,
          file_table, fd_table, kernelHeap, job, remapped>>

Empty == [x \in {} |-> NoFrame]

\* The files of this module: shared memory objects and processes.
SharedMemory(path, pages) == [kind |-> "shared_memory", path |-> path, pages |-> pages]
ProcessFile(p) == [kind |-> "process", path |-> NoPath, process |-> p]

\* shared_memory_create_from_contiguous_pages, for gfx_init.
FramebufferFile ==
  SharedMemory(Framebuffer.path,
               FoldLeft(vector_push_back, vector_init(Capacity), Framebuffer.pages))

Init ==
  /\ page_alloc_init
  /\ loaded = 0
  /\ tables = [p \in Processes |-> Empty]
  /\ leaves = [p \in Processes |-> Empty]
  /\ mmap_entries = [p \in Processes |-> <<>>]
  /\ file_table = file_table_open(file_table_init, Framebuffer.path, FramebufferFile)
  /\ fd_table = [p \in Processes |-> fd_table_init]
  /\ kernelHeap = {}
  /\ job = NoJob
  /\ remapped = FALSE

-----------------------------------------------------------------------------
\* f with x mapped to y.
Put(f, x, y) == [z \in DOMAIN f \cup {x} |-> IF z = x THEN y ELSE f[z]]

num_pages(length) == (length + PageSize - 1) \div PageSize

\* The tables a page-table walk meets on the way to page v, by level and
\* place, root first, and those of them that process p has not.
Walk(v) == {<<l, v \div Fanout ^ (Levels - l)>> : l \in 0..(Levels - 1)}
Missing(p, v) == Walk(v) \ DOMAIN tables[p]

\* A failed assertion.
Panic == kernel' = "panic" /\ UNCHANGED <<memoryMap, freeLists, bitmap, held, memVars>>

Take == OrdersWithRoom(0) # {} /\ TakeAndSplit(0)
OutOfMemory == OrdersWithRoom(0) = {}

Idle == kernel = "up" /\ job = NoJob
Busy(ops) == kernel = "up" /\ job # NoJob /\ job.op \in ops

\* The job for a call of process p about a file or a path that works its way
\* through the pages of todo; fixed if the caller gave the address.
Begin(op, p, file, path, fixed, at, todo) ==
  job' = [op |-> op, process |-> p, file |-> file, path |-> path, fixed |-> fixed, at |-> at,
          pages |-> Len(todo), todo |-> todo, frame |-> NoFrame, taken |-> vector_init(Capacity)]

-----------------------------------------------------------------------------
\* kernel_main loads the next module, with process_init and process_load_elf.
process_init(program) ==
  /\ Idle /\ loaded < Len(Modules)
  /\ Begin("load", Modules[loaded + 1], NoFile, NoPath, FALSE, 0, program)
  /\ UNCHANGED <<pageVars, loaded, tables, leaves, mmap_entries, file_table, fd_table, kernelHeap, remapped>>

\* Programs run once all modules have been loaded.
UserCall == Idle /\ loaded = Len(Modules)

\* A mutant of find_free_address_space: a mapping counts as one page.
find_free_address_space_OnePage(p) ==
  LET ends == {HeapBase} \cup {e.at + 1 : e \in Range(mmap_entries[p])}
  IN  CHOOSE a \in ends : \A b \in ends : b <= a

\* The end of the last mapping, or the heap's base.
find_free_address_space(p) ==
  LET ends == {HeapBase} \cup {e.at + e.pages : e \in Range(mmap_entries[p])}
  IN  CHOOSE a \in ends : \A b \in ends : b <= a

\* A mutant of DescribedFile: the descriptor is taken for a global handle.
DescribedFile_Global(p, fd) == fd

\* The file behind a descriptor.
DescribedFile(p, fd) == fd_table_get(fd_table[p], fd)

\* The descriptor is one of the process's, and of a shared memory object.
IsSharedMemory(p, fd) ==
  /\ fd \in Indices(fd_table[p])
  /\ file_table_get(file_table, DescribedFile(p, fd)).kind = "shared_memory"

\* A private mapping of length bytes, or one of the object the descriptor fd
\* is of, at an address the caller gives or, if at is 0, the kernel chooses.
process_mmap(p, op, fd, at, length) ==
  LET a == IF at = 0 THEN find_free_address_space(p) ELSE at
      n == num_pages(length)
      assertions ==
        /\ at = 0 => ~(a = HeapBase /\ mmap_entries[p] # <<>>)
        /\ a >= HeapBase
        /\ a * PageSize + length <= (HeapBase + HeapSize) * PageSize
        /\ op = "shared" => IsSharedMemory(p, fd)
  IN  /\ UserCall
      /\ Len(mmap_entries[p]) < MaxEntries
      /\ \/ /\ ~assertions /\ Panic
         \/ /\ assertions
            /\ Begin(op, p, IF op = "shared" THEN DescribedFile(p, fd) ELSE NoFile, NoPath,
                     at # 0, a, [i \in 1..n |-> a + i - 1])
            /\ remapped' = (remapped \/ (a..(a + n - 1)) \cap DOMAIN leaves[p] # {})
            /\ UNCHANGED <<pageVars, loaded, tables, leaves, mmap_entries, file_table, fd_table,
                           kernelHeap>>

\* An object that exists is opened as it is; otherwise it is created first.
shared_memory_open(p, path, size) ==
  /\ UserCall /\ fd_table[p].size < MaxFds
  /\ \/ /\ hash_table_contains(file_table.paths, path)
        /\ fd_table' = [fd_table EXCEPT ![p] =
                          fd_table_open(@, file_table_get_by_path(file_table, path))]
        /\ UNCHANGED <<pageVars, loaded, tables, leaves, mmap_entries, file_table, kernelHeap, job,
                       remapped>>
     \/ /\ ~hash_table_contains(file_table.paths, path)
        /\ Begin("create", p, NoFile, path, FALSE, 0, [i \in 1..num_pages(size) |-> i])
        /\ UNCHANGED <<pageVars, loaded, tables, leaves, mmap_entries, file_table, fd_table,
                       kernelHeap, remapped>>

\* A process gets the descriptor of another over a channel (channel_recv_fd).
ReceiveDescriptor(p, file) ==
  /\ UserCall /\ fd_table[p].size < MaxFds
  /\ \E q \in Processes : file \in Elements(fd_table[q])
  /\ fd_table' = [fd_table EXCEPT ![p] = fd_table_open(@, file)]
  /\ UNCHANGED <<pageVars, loaded, tables, leaves, mmap_entries, file_table, kernelHeap, job, remapped>>

\* The kernel takes a block for its heap or a driver, also within a call.
KernelTakes(order) ==
  /\ kernel = "up"
  /\ Cardinality(kernelHeap) < MaxKernelBlocks
  /\ page_alloc_block(order)
  /\ kernelHeap' = kernelHeap \cup (held' \ held)
  /\ UNCHANGED <<loaded, tables, leaves, mmap_entries, file_table, fd_table, job, remapped>>

-----------------------------------------------------------------------------
\* The loop of allocate_memory_pages meets a page that is already mapped.
KeepPage ==
  /\ Busy({"load"}) /\ job.frame = NoFrame /\ job.todo # <<>>
  /\ Head(job.todo) \in DOMAIN leaves[job.process]
  /\ job' = [job EXCEPT !.todo = Tail(@)]
  /\ UNCHANGED <<pageVars, loaded, tables, leaves, mmap_entries, file_table, fd_table, kernelHeap, remapped>>

\* The loops of allocate_memory_pages and process_mmap need a page.
NeedsPage ==
  /\ Busy({"load", "private"}) /\ job.frame = NoFrame /\ job.todo # <<>>
  /\ job.op = "load" => Head(job.todo) \notin DOMAIN leaves[job.process]

TakePage ==
  /\ NeedsPage
  /\ \/ /\ Take
        /\ job' = [job EXCEPT !.frame = TakenPage(0)]
        /\ UNCHANGED <<loaded, tables, leaves, mmap_entries, file_table, fd_table, kernelHeap, remapped>>
     \/ OutOfMemory /\ Panic

\* The pages of a shared memory object.
ObjectPages(file) == file_table_get(file_table, file).pages

\* Which of the object's pages the loop of a shared mapping is at.
NextIndex == job.pages - Len(job.todo)

SharedPage ==
  /\ Busy({"shared"}) /\ job.frame = NoFrame /\ job.todo # <<>>
  /\ \/ /\ NextIndex \in Indices(ObjectPages(job.file))
        /\ job' = [job EXCEPT !.frame = vector_get(ObjectPages(job.file), NextIndex)]
        /\ UNCHANGED <<pageVars, loaded, tables, leaves, mmap_entries, file_table, fd_table, kernelHeap,
                       remapped>>
     \/ NextIndex \notin Indices(ObjectPages(job.file)) /\ Panic

\* The loop of shared_memory_create.
CreatePage ==
  /\ Busy({"create"}) /\ job.todo # <<>>
  /\ \/ /\ Take
        /\ job' = [job EXCEPT !.todo = Tail(@), !.taken = vector_push_back(@, TakenPage(0))]
        /\ UNCHANGED <<loaded, tables, leaves, mmap_entries, file_table, fd_table, kernelHeap, remapped>>
     \/ OutOfMemory /\ Panic

\* A mutant of GiveBack: the page is forgotten.
GiveBack_Lost == UNCHANGED pageVars

\* allocate_memory_pages gives back the page it could not map.
GiveBack == page_alloc_free([pfn |-> job.frame, order |-> 0])

\* vmap_map_page finds a table missing, the uppermost first, and takes a page
\* for it.  When there is none, allocate_memory_pages returns an error, and
\* the assertion of the other callers fails.
AddTable ==
  /\ Busy({"load", "private", "shared"}) /\ job.frame # NoFrame
  /\ LET missing == Missing(job.process, Head(job.todo)) IN
     /\ missing # {}
     /\ \/ /\ Take
           /\ \E t \in missing :
                /\ \A u \in missing : t[1] <= u[1]
                /\ tables' = [tables EXCEPT ![job.process] = Put(@, t, TakenPage(0))]
           /\ UNCHANGED <<loaded, leaves, mmap_entries, file_table, fd_table, kernelHeap, job, remapped>>
        \/ /\ OutOfMemory /\ job.op = "load"
           /\ GiveBack
           /\ job' = [job EXCEPT !.op = "failed", !.frame = NoFrame]
           /\ UNCHANGED <<loaded, tables, leaves, mmap_entries, file_table, fd_table, kernelHeap, remapped>>
        \/ OutOfMemory /\ job.op # "load" /\ Panic

\* kernel_main asserts that a module could be loaded.
LoadFails == Busy({"failed"}) /\ Panic

\* Its entry is written, over the one that may be there.
MapPage ==
  /\ Busy({"load", "private", "shared"}) /\ job.frame # NoFrame
  /\ Missing(job.process, Head(job.todo)) = {}
  /\ leaves' = [leaves EXCEPT ![job.process] = Put(@, Head(job.todo), job.frame)]
  /\ job' = [job EXCEPT !.todo = Tail(@), !.frame = NoFrame]
  /\ UNCHANGED <<pageVars, loaded, tables, mmap_entries, file_table, fd_table, kernelHeap, remapped>>

\* The call returns, and what it made is recorded.  The process's own file
\* (which process_init opens, after the stack) has no path.
LoadReturns ==
  /\ Busy({"load"}) /\ job.todo = <<>>
  /\ loaded' = loaded + 1
  /\ file_table' = file_table_open(file_table, NoPath, ProcessFile(job.process))
  /\ job' = NoJob
  /\ UNCHANGED <<pageVars, tables, leaves, mmap_entries, fd_table, kernelHeap, remapped>>

MmapReturns ==
  /\ Busy({"private", "shared"}) /\ job.todo = <<>>
  /\ mmap_entries' = [mmap_entries EXCEPT ![job.process] =
                        Append(@, [at |-> job.at, pages |-> job.pages, file |-> job.file])]
  /\ job' = NoJob
  /\ UNCHANGED <<pageVars, loaded, tables, leaves, file_table, fd_table, kernelHeap, remapped>>

CreateReturns ==
  /\ Busy({"create"}) /\ job.todo = <<>>
  /\ file_table' = file_table_open(file_table, job.path, SharedMemory(job.path, job.taken))
  /\ fd_table' = [fd_table EXCEPT ![job.process] = fd_table_open(@, LastHandle(file_table'.files))]
  /\ job' = NoJob
  /\ UNCHANGED <<pageVars, loaded, tables, leaves, mmap_entries, kernelHeap, remapped>>

JobStep ==
  \/ KeepPage \/ TakePage \/ SharedPage \/ CreatePage \/ AddTable \/ LoadFails \/ MapPage
  \/ LoadReturns \/ MmapReturns \/ CreateReturns

SystemCall(p) ==
  \/ \E at \in {0} \cup Addresses, length \in Lengths :
       \/ process_mmap(p, "private", NoFile, at, length)
       \/ \E fd \in 0..(MaxFds - 1) : process_mmap(p, "shared", fd, at, length)
  \/ \E path \in Paths, size \in Lengths : shared_memory_open(p, path, size)
  \/ \E file \in Indices(file_table.files) : ReceiveDescriptor(p, file)

Next ==
  \/ \E program \in Programs : process_init(program)
  \/ \E p \in Processes : SystemCall(p)
  \/ \E order \in Order : KernelTakes(order)
  \/ JobStep

Spec == Init /\ [][Next]_vars

-----------------------------------------------------------------------------
Frame == Page \cup {NoFrame}
Handle == Indices(file_table.files)
Objects == {h \in Handle : file_table_get(file_table, h).kind = "shared_memory"}
Mapping == [at : VirtualPage, pages : Nat, file : Objects \cup {NoFile}]

JobOK ==
  /\ job.op \in {"load", "failed", "private", "shared", "create"} /\ job.process \in Processes
  /\ job.file \in Objects \cup {NoFile} /\ job.path \in Paths \cup {NoPath}
  /\ job.fixed \in BOOLEAN /\ job.at \in VirtualPage /\ job.pages \in Nat
  /\ job.todo \in Seq(VirtualPage) /\ job.frame \in Frame
  /\ VectorOK(job.taken, Page)

TypeOK ==
  /\ PageTypeOK
  /\ loaded \in 0..Len(Modules)
  /\ \A p \in Processes :
       /\ Range(tables[p]) \cup Range(leaves[p]) \subseteq Page
       /\ DOMAIN leaves[p] \subseteq VirtualPage
       /\ \A v \in DOMAIN leaves[p] : Missing(p, v) = {}
       /\ mmap_entries[p] \in Seq(Mapping)
       /\ VectorOK(fd_table[p], Objects)
  /\ VectorOK(file_table.files, UNION {{file_table_get(file_table, h)} : h \in Handle})
  /\ \A h \in Objects : VectorOK(ObjectPages(h), Page)
  /\ kernelHeap \subseteq Block
  /\ job = NoJob \/ JobOK
  /\ remapped \in BOOLEAN

\* Processes that map one object see the same pages in the same order: page
\* i of a mapping is the object's page i, unless something was mapped over it.
SharedViews ==
  ~remapped =>
    \A p \in Processes : \A e \in Range(mmap_entries[p]) :
      e.file # NoFile =>
        \A i \in 0..(e.pages - 1) : leaves[p][e.at + i] = vector_get(ObjectPages(e.file), i)

\* A path leads to the object that was created under it, for as long as the
\* kernel runs: no two files have one path, and none is out of reach.
PathsLead ==
  \A path \in Paths :
    {h \in Handle : file_table_get(file_table, h).path = path} =
      IF hash_table_contains(file_table.paths, path)
      THEN {file_table_get_by_path(file_table, path)} ELSE {}

(***************************************************************************)
(* Processes share what they are meant to, and nothing else: no process    *)
(* maps a page table, no page is two tables, a page that is mapped twice,  *)
(* or is part of a shared memory object, is mapped only by processes with  *)
(* a descriptor of that object, and all of them see the object's pages in  *)
(* its order; who opens a path gets the object created under it.           *)
(***************************************************************************)
Isolation ==
  LET Leaf == UNION {{<<p, v>> : v \in DOMAIN leaves[p]} : p \in Processes}
      Table == UNION {{<<p, t>> : t \in DOMAIN tables[p]} : p \in Processes}
  IN  /\ \A x, y \in Table : tables[x[1]][x[2]] = tables[y[1]][y[2]] => x = y
      /\ \A x \in Table, y \in Leaf : tables[x[1]][x[2]] # leaves[y[1]][y[2]]
      /\ \A x \in Leaf :
           LET f == leaves[x[1]][x[2]]
               objects == {h \in Objects : f \in Elements(ObjectPages(h))}
           IN  /\ objects \subseteq Elements(fd_table[x[1]])
               /\ objects = {} => \A y \in Leaf \ {x} : leaves[y[1]][y[2]] # f
      /\ SharedViews
      /\ PathsLead

\* The pages that were taken for something and are still in use for it.
PagesInUse ==
  UNION {Range(tables[p]) \cup Range(leaves[p]) : p \in Processes}
    \cup UNION {Elements(ObjectPages(h)) : h \in Objects}
    \cup (IF job = NoJob THEN {} ELSE Elements(job.taken) \cup ({job.frame} \ {NoFrame}))

BlocksInUse ==
  kernelHeap \cup {[pfn |-> f, order |-> 0] : f \in PagesInUse \ Range(Framebuffer.pages)}

(***************************************************************************)
(* No page in use is free, and none is lost: what the allocator has handed *)
(* out is in use, through every call and every failure on the way, unless  *)
(* a mapping was replaced by another.  The allocator itself stays sound:   *)
(* it divides the usable pages into aligned blocks, and its free lists and *)
(* its bitmap agree (PagesConsistent).                                     *)
(***************************************************************************)
PagesAccounted ==
  /\ TypeOK
  /\ PagesConsistent
  /\ BlocksInUse \subseteq held
  /\ ~remapped => BlocksInUse = held

(***************************************************************************)
(* A mapping stays: a page is mapped anew only by a call of mmap with an   *)
(* address that covers it.  The kernel never chooses an address in use,    *)
(* and loading a segment keeps the pages of those before it.               *)
(***************************************************************************)
MappingsKeptStep ==
  \A p \in Processes : \A v \in DOMAIN leaves[p] :
    /\ v \in DOMAIN leaves'[p]
    /\ leaves'[p][v] # leaves[p][v] => job.process = p /\ job.fixed /\ v = Head(job.todo)

MappingsKept == [][MappingsKeptStep]_vars
=============================================================================
