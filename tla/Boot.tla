-------------------------------- MODULE Boot --------------------------------
(***************************************************************************)
(* From the firmware to a kernel with its own address space: the loader    *)
(* (loader/bootloader.c, kernel_loader.c, virtual_addr.c, kernel_elf.c),   *)
(* the firmware's memory services as it uses them, mmap_init, and the      *)
(* mappings kernel_main's drivers ask for.                                 *)
(*                                                                         *)
(* Memory is counted in pages; a pool allocation takes whole pages, from   *)
(* the top of memory, as page allocations do.  While the loader runs, the  *)
(* firmware's own events allocate and free memory.  The choice of a video  *)
(* mode, file contents and page flags are left out.                        *)
(***************************************************************************)
EXTENDS Mmap

CONSTANTS
  Machines,       \* to boot: [base, ram, elf, headers, modules, calls]
  ImageBase,      \* where the kernel is linked
  StackBase, StackPages,              \* KERNEL_STACK_VIRTUAL_BASE, KERNEL_STACK_REGION_PAGES
  MmioBase, AcpiBase, XhciBase, HeapBase,
  MaxSegments,    \* KERNEL_ELF_MAX_SEGMENTS
  Slack,          \* descriptors the memory map's buffer has room for in addition: 2
  MaxEvents,      \* bound: events of the firmware
  HeapPages,      \* of the kernel heap at first: BLOCK_ALLOCATOR_DEFAULT_SIZE
  MaxHeap         \* bound: pages of the kernel heap

ASSUME BootAssumption ==
  \* Memory does not start at address 0, there is some, and every type of memory is known.
  /\ \A m \in Machines :
       /\ m.base \in Nat \ {0} /\ m.ram # <<>>
       /\ m.ram \in Seq([type : {"conventional", "loaderCode", "bootServices", "reserved"}, pages : Nat \ {0}])
       /\ m.headers \in Seq([load : BOOLEAN, at : Nat, memory : Nat, file : Nat, align : Nat])
  /\ StackPages \in Nat /\ Slack \in Nat /\ Slack >= 2
  \* The linker gives every segment of the kernel pages of its own.
  /\ \A m \in Machines : \A i, j \in DOMAIN m.headers :
       i < j /\ m.headers[i].load /\ m.headers[j].load => m.headers[i].at + m.headers[i].memory <= m.headers[j].at

VARIABLES
  machine,        \* the machine; its calls are those still to come
  efi,            \* the type of every page of memory, as the firmware has it
  events,         \* how many events the firmware has had
  fresh,          \* whether map_key is the firmware's current one
  stage,          \* of the boot
  loaded,         \* history: what the loader has put where
  info,           \* [map, size]: the loader's copy of the memory map and its buffer
  tables,         \* the translation tables
  ttbr1,          \* TTBR1's root
  pool,           \* pages left to the page table allocator
  regions,        \* what mmap_reserve_memory found
  kmap,           \* the kernel's memory map
  taken,          \* usable pages handed out
  asked,          \* history: the page each virtual page was mapped to
  wild,           \* history: a page was written as a table that is none
  cause           \* why the boot failed: "file", "memory", "map" or "none"

vars == <<machine, efi, events, fresh, stage, loaded, info, tables, ttbr1, pool, regions, kmap,
          taken, asked, wild, cause>>
kernelVars == <<pool, regions, kmap, taken, wild>>

\* Where a sequence of regions lies that starts at page n.
Layout(ram, n) ==
  LET from[k \in 1..(Len(ram) + 1)] == IF k = 1 THEN n ELSE from[k - 1] + ram[k - 1].pages
      region(p) == CHOOSE k \in DOMAIN ram : p \in from[k]..(from[k + 1] - 1)
  IN  [p \in n..(from[Len(ram) + 1] - 1) |-> ram[region(p)].type]

Init ==
  /\ machine \in Machines
  /\ efi = Layout(machine.ram, machine.base)
  /\ events = 0 /\ fresh = FALSE
  /\ stage = "kernel_file"
  /\ loaded = [elf |-> {}, segments |-> 0, modules |-> <<>>, kept |-> {}]
  /\ info = [map |-> <<>>, size |-> 0, quiet |-> TRUE]
  /\ tables = [p \in {} |-> EmptyTable] /\ ttbr1 = 0
  /\ pool = <<>> /\ regions = [kmap |-> 0, tables |-> 0] /\ kmap = <<>>
  /\ taken = {} /\ asked = [v \in {} |-> 0] /\ wild = FALSE
  /\ cause = "none"

-----------------------------------------------------------------------------
(* The firmware.                                                           *)

Free(mem) == {p \in DOMAIN mem : mem[p] = "conventional"}
Fits(mem, n) ==
  {p \in DOMAIN mem : \A q \in p..(p + n - 1) : q \in DOMAIN mem /\ mem[q] = "conventional"}
Give(mem, pages, type) == [p \in DOMAIN mem |-> IF p \in pages THEN type ELSE mem[p]]

\* AllocatePages and AllocatePool, from the top of memory.
Allocated(mem, n) ==
  LET fits == Fits(mem, n)
      start == CHOOSE p \in fits : \A q \in fits : q <= p
  IN  start..(start + n - 1)

\* GetMemoryMap: one descriptor for each stretch of memory of one type.
Descriptors(mem) ==
  LET starts == {p \in DOMAIN mem : p - 1 \notin DOMAIN mem \/ mem[p - 1] # mem[p]}
      ends == {p \in DOMAIN mem : p + 1 \notin DOMAIN mem \/ mem[p + 1] # mem[p]}
      from[p \in starts] == [start |-> p, pages |-> Min({q \in ends : q >= p}) + 1 - p, type |-> mem[p]]
  IN  [k \in 1..Cardinality(starts) |-> from[Sorted(starts, <)[k]]]

LoaderStages == {"kernel_file", "root", "segments", "stack", "modules", "boot_info", "size", "buffer", "get", "exit"}

\* The firmware's timers and drivers allocate a page or free one of theirs.
FirmwareEvent ==
  /\ stage \in LoaderStages /\ events < MaxEvents
  /\ events' = events + 1
  /\ \/ Free(efi) # {} /\ efi' = Give(efi, Allocated(efi, 1), "bootServices")
     \/ \E p \in DOMAIN efi : efi[p] = "bootServices" /\ efi' = Give(efi, {p}, "conventional")
  /\ fresh' = FALSE
  /\ info' = [info EXCEPT !.quiet = FALSE]
  /\ UNCHANGED <<machine, stage, loaded, tables, ttbr1, kernelVars, asked, cause>>

-----------------------------------------------------------------------------
(* The loader.  An error ends it: UefiMain returns to the firmware.        *)

Abort(why) ==
  /\ stage' = "aborted" /\ cause' = why
  /\ UNCHANGED <<machine, efi, events, fresh, loaded, info, tables, ttbr1, kernelVars, asked>>

\* load_file's buffers: the file's information, n pages for the file, and the
\* information freed again.
FileInfo == Allocated(efi, 1)
FileFits(n) == Free(efi) # {} /\ Fits(Give(efi, FileInfo, "loaderData"), n) # {}
FileBuffer(n) == Allocated(Give(efi, FileInfo, "loaderData"), n)

load_file(n) ==
  /\ FileFits(n)
  /\ efi' = Give(efi, FileBuffer(n), "loaderData")
  /\ fresh' = FALSE

\* No such file, or one that cannot be read; no memory for it.
load_file_fails(n) == \/ Abort("file")
                      \/ ~FileFits(n) /\ Abort("memory")

\* The loadable segments of the kernel, from its program headers.
Segments ==
  LET loads == Sorted({i \in DOMAIN machine.headers : machine.headers[i].load}, <)
  IN  [k \in DOMAIN loads |-> machine.headers[loads[k]]]

kernel_elf_parse_loadable_segments_fails ==
  \/ Len(Segments) = 0
  \/ Len(Segments) > MaxSegments
  \/ \E i \in DOMAIN Segments : Segments[i].file > Segments[i].memory \/ Segments[i].align = 0

\* kernel.elf is read and parsed.
LoadKernelFile ==
  /\ stage = "kernel_file"
  /\ \/ /\ load_file(machine.elf)
        /\ ~kernel_elf_parse_loadable_segments_fails
        /\ stage' = "root"
        /\ loaded' = [loaded EXCEPT !.elf = FileBuffer(machine.elf)]
        /\ UNCHANGED <<machine, events, info, tables, ttbr1, kernelVars, asked, cause>>
     \/ load_file_fails(machine.elf)
     \/ kernel_elf_parse_loadable_segments_fails /\ Abort("file")

virtual_addr_allocate_table ==
  /\ stage = "root"
  /\ \/ /\ Free(efi) # {}
        /\ LET page == Max(Free(efi))
           IN  /\ efi' = Give(efi, {page}, "loaderData")
               /\ tables' = Put(tables, page, EmptyTable)
               /\ ttbr1' = page
        /\ fresh' = FALSE
        /\ stage' = "segments"
        /\ UNCHANGED <<machine, events, loaded, info, kernelVars, asked, cause>>
     \/ Free(efi) = {} /\ Abort("memory")

\* Memory of type is allocated for n pages and mapped at v, the tables it needs
\* being taken from the firmware one by one.
Map(n, v, type) ==
  LET frames == Allocated(efi, n)
      rest == Give(efi, frames, type)
      pt == [tables |-> tables, pool |-> Sorted(Free(rest), >), status |-> "ok", at |-> ttbr1]
      mapped == vmap_map_range(pt, ttbr1, Min(frames), v, n)
  IN  [pt |-> mapped, frames |-> frames,
       efi |-> Give(rest, Free(rest) \ Range(mapped.pool), "loaderData")]

Place(n, v, type) ==
  LET m == Map(n, v, type)
  IN  /\ Fits(efi, n) # {} /\ m.pt.status = "ok"
      /\ efi' = m.efi
      /\ tables' = m.pt.tables
      /\ asked' = [x \in v..(v + n - 1) |-> Min(m.frames) + x - v] @@ asked
      /\ loaded' = [loaded EXCEPT !.segments = @ + 1, !.kept = @ \cup m.frames]
      /\ fresh' = FALSE

CannotPlace(n, v, type) ==
  IF Fits(efi, n) = {} THEN TRUE ELSE Map(n, v, type).pt.status # "ok"

\* One segment of kernel_loader_load.
kernel_loader_load ==
  LET segment == Segments[loaded.segments + 1]
  IN  /\ stage = "segments"
      /\ \/ /\ Place(segment.memory, ImageBase + segment.at, "loaderData")
            /\ stage' = IF loaded.segments + 1 = Len(Segments) THEN "stack" ELSE "segments"
            /\ UNCHANGED <<machine, events, info, ttbr1, kernelVars, cause>>
         \/ CannotPlace(segment.memory, ImageBase + segment.at, "loaderData") /\ Abort("memory")

\* A mutant of MapStack: memory of the wrong type.
MapStack_BootServices ==
  /\ stage = "stack"
  /\ \/ /\ Place(StackPages, StackBase, "bootServices")
        /\ stage' = "modules"
        /\ UNCHANGED <<machine, events, info, ttbr1, kernelVars, cause>>
     \/ CannotPlace(StackPages, StackBase, "bootServices") /\ Abort("memory")

MapStack ==
  /\ stage = "stack"
  /\ \/ /\ Place(StackPages, StackBase, "loaderData")
        /\ stage' = "modules"
        /\ UNCHANGED <<machine, events, info, ttbr1, kernelVars, cause>>
     \/ CannotPlace(StackPages, StackBase, "loaderData") /\ Abort("memory")

\* One module of load_boot_modules.
load_boot_module ==
  LET n == machine.modules[Len(loaded.modules) + 1]
  IN  /\ stage = "modules"
      /\ \/ /\ load_file(n)
            /\ loaded' = [loaded EXCEPT !.modules = Append(@, FileBuffer(n)),
                                        !.kept = @ \cup FileBuffer(n)]
            /\ stage' = IF Len(loaded'.modules) = Len(machine.modules) THEN "boot_info" ELSE "modules"
            /\ UNCHANGED <<machine, events, info, tables, ttbr1, kernelVars, asked, cause>>
         \/ load_file_fails(n)

\* The boot information is copied to memory, and the kernel's file freed.
CopyBootInfo ==
  /\ stage = "boot_info"
  /\ \/ /\ Free(efi) # {}
        /\ efi' = Give(Give(efi, Allocated(efi, 1), "loaderData"), loaded.elf, "conventional")
        /\ loaded' = [loaded EXCEPT !.elf = {}, !.kept = @ \cup Allocated(efi, 1)]
        /\ fresh' = FALSE
        /\ stage' = "size"
        /\ UNCHANGED <<machine, events, info, tables, ttbr1, kernelVars, asked, cause>>
     \/ Free(efi) = {} /\ Abort("memory")

-----------------------------------------------------------------------------
(* exit_boot_services.                                                     *)

\* Mutants of QuerySize: no room beyond the size the firmware asks for.
QuerySize_Exact ==
  /\ stage = "size"
  /\ info' = [info EXCEPT !.size = Len(Descriptors(efi)), !.quiet = TRUE]
  /\ stage' = "buffer"
  /\ UNCHANGED <<machine, efi, events, fresh, loaded, tables, ttbr1, kernelVars, asked, cause>>

QuerySize ==
  /\ stage = "size"
  /\ info' = [info EXCEPT !.size = Len(Descriptors(efi)) + Slack, !.quiet = TRUE]
  /\ stage' = "buffer"
  /\ UNCHANGED <<machine, efi, events, fresh, loaded, tables, ttbr1, kernelVars, asked, cause>>

AllocateBuffer ==
  /\ stage = "buffer"
  /\ \/ /\ Free(efi) # {}
        /\ efi' = Give(efi, Allocated(efi, 1), "loaderData")
        /\ loaded' = [loaded EXCEPT !.kept = @ \cup Allocated(efi, 1)]
        /\ fresh' = FALSE
        /\ stage' = "get"
        /\ UNCHANGED <<machine, events, info, tables, ttbr1, kernelVars, asked, cause>>
     \/ Free(efi) = {} /\ Abort("memory")

\* A mutant of GetMemoryMap: a retry asks for the key alone.
GetMemoryMap_KeyOnly ==
  LET map == Descriptors(efi)
  IN  /\ stage = "get"
      /\ \/ /\ info' = IF info.map = <<>> THEN [info EXCEPT !.map = map, !.size = Len(map)] ELSE info
            /\ fresh' = TRUE
            /\ stage' = "exit"
            /\ UNCHANGED <<machine, efi, events, loaded, tables, ttbr1, kernelVars, asked, cause>>
         \/ Len(map) > info.size /\ Abort("map")

\* The size that was asked for is replaced by the size of the map: a retry has
\* no more room than the map it starts from.
GetMemoryMap ==
  LET map == Descriptors(efi)
  IN  /\ stage = "get"
      /\ \/ /\ Len(map) <= info.size
            /\ info' = [info EXCEPT !.map = map, !.size = Len(map)]
            /\ fresh' = TRUE
            /\ stage' = "exit"
            /\ UNCHANGED <<machine, efi, events, loaded, tables, ttbr1, kernelVars, asked, cause>>
         \/ Len(map) > info.size /\ Abort("map")

\* A mutant of ExitBootServices: a retry does not read the map again.
ExitBootServices_SameKey ==
  /\ stage = "exit"
  /\ stage' = IF fresh THEN "reserve" ELSE "exit"
  /\ UNCHANGED <<machine, efi, events, fresh, loaded, info, tables, ttbr1, kernelVars, asked, cause>>

\* The firmware refuses a key that is not its current one, and the loader tries
\* again.  After it has agreed, virtual_addr_apply_to_ttbr1 and the jump.
ExitBootServices ==
  /\ stage = "exit"
  /\ stage' = IF fresh THEN "reserve" ELSE "get"
  /\ UNCHANGED <<machine, efi, events, fresh, loaded, info, tables, ttbr1, kernelVars, asked, cause>>

Loader ==
  \/ LoadKernelFile \/ virtual_addr_allocate_table \/ kernel_loader_load \/ MapStack
  \/ load_boot_module \/ CopyBootInfo
  \/ QuerySize \/ AllocateBuffer \/ GetMemoryMap \/ ExitBootServices

-----------------------------------------------------------------------------
(* mmap_init.  Its errors fail an assertion of kernel_main.                *)

Panic == stage' = "panic" /\ UNCHANGED <<machine, efi, events, fresh, loaded, info, tables, ttbr1,
                                         kernelVars, asked, cause>>

ReserveMemory ==
  LET r == mmap_reserve_memory(info.map)
  IN  /\ stage = "reserve"
      /\ \/ /\ r.kmap # 0 /\ r.tables # 0
            /\ regions' = r
            /\ pool' = [k \in 1..TablePages |-> r.tables + k - 1]
            /\ stage' = "memory_map"
            /\ UNCHANGED <<machine, efi, events, fresh, loaded, info, tables, ttbr1, kmap, taken, asked, wild, cause>>
         \/ (r.kmap = 0 \/ r.tables = 0) /\ Panic

BuildMemoryMap ==
  LET map == mmap_build_memory_map(regions, info.map)
  IN  /\ stage = "memory_map"
      /\ \/ /\ Len(map) <= KmapCapacity
            /\ kmap' = map
            /\ stage' = "tables"
            /\ UNCHANGED <<machine, efi, events, fresh, loaded, info, tables, ttbr1, pool, regions, taken, asked,
                           wild, cause>>
         \/ Len(map) > KmapCapacity /\ Panic

\* mmap_build_ttbr0_table's empty root, mmap_build_ttbr1_table and
\* mmap_apply_mappings.  The loader's tables are not used any more.
BuildTables ==
  LET root0 == alloc_page([tables |-> tables, pool |-> pool, status |-> "ok", at |-> 0])
      built == mmap_build_ttbr1_table(root0, ttbr1)
  IN  /\ stage = "tables"
      /\ \/ /\ built.status = "ok"
            /\ tables' = [p \in DOMAIN built.tables \ DOMAIN tables |-> built.tables[p]]
            /\ pool' = built.pool
            /\ ttbr1' = built.at
            /\ asked' = [v \in WindowBase..(WindowBase + WindowPages - 1) |-> v - WindowBase] @@ asked
            /\ stage' = "kernel"
            /\ UNCHANGED <<machine, efi, events, fresh, loaded, info, regions, kmap, taken, wild, cause>>
         \/ built.status # "ok" /\ Panic

-----------------------------------------------------------------------------
(* The kernel's mappings, in the order kernel_main's calls make them.      *)

KernelTables == [tables |-> tables, pool |-> pool, status |-> "ok", at |-> ttbr1]

\* The mapping mapped of n pages from p at v has been made; used pages are
\* handed out for it.
Mapped(mapped, p, v, n, used) ==
  /\ tables' = mapped.tables
  /\ pool' = mapped.pool
  /\ taken' = taken \cup used
  /\ asked' = [x \in v..(v + n - 1) |-> p + x - v] @@ asked
  /\ wild' = (wild \/ mapped.status = "wild")
  /\ UNCHANGED <<efi, events, fresh, info, ttbr1, regions, kmap, cause>>

\* The next call of kernel_main.
Return ==
  /\ machine' = [machine EXCEPT !.calls = Tail(@)]
  /\ UNCHANGED <<stage, loaded>>

\* The kernel reaches the tables on the way to n pages from v through the
\* window.  One beyond it stops the kernel: a new one by the assertion of
\* alloc_new_table, another by an access to address 0.
ThroughWindow(mapped, v, n) ==
  \A t \in TablesUnder(mapped.tables, ttbr1) :
    t.first < v + n /\ v < t.first + Fanout * EntryPages(t.level) => t.page < WindowPages

\* mmio_map_page and mmio_map_region for the serial port, the configuration
\* space and the controller; acpi_map_page for a firmware table.  One that is
\* mapped already is mapped again.
map_device(d, base) ==
  LET v == base + d.page
      mapped == vmap_map_range(KernelTables, ttbr1, d.page, v, d.pages)
      can == mapped.status # "full" /\ ThroughWindow(mapped, v, d.pages)
  IN  \/ can /\ Mapped(mapped, d.page, v, d.pages, {}) /\ Return
      \/ ~can /\ Panic

\* page_alloc_init reaches the start of every usable entry, and every block in
\* it, through the window.  The region of the tables lies before such an entry:
\* for the mappings that follow, the tables are in the window.
page_alloc_init ==
  LET reached == UsablePages(kmap) \cup {e.start : e \in {x \in Range(kmap) : x.usable}}
  IN  \/ /\ \A p \in reached : p < WindowPages
         /\ Return
         /\ UNCHANGED <<efi, events, fresh, info, tables, ttbr1, kernelVars, asked, cause>>
      \/ (\E p \in reached : p >= WindowPages) /\ Panic

\* A block of n pages that page_alloc_block can return.  Which of them it is
\* makes no difference here: the first stands for all.
FreeBlock(n) ==
  LET free == UsablePages(kmap) \ taken
      blocks == {p \in free : p % n = 0 /\ p..(p + n - 1) \subseteq free}
  IN  IF blocks = {} THEN {} ELSE {Min(blocks)}

\* The heap's first pages, mapped one by one.
MapHeap(p) == vmap_map_range(KernelTables, ttbr1, p, HeapBase, HeapPages)

kernel_heap_init ==
  \/ \E p \in FreeBlock(HeapPages) :
       /\ MapHeap(p).status # "full"
       /\ Mapped(MapHeap(p), p, HeapBase, HeapPages, p..(p + HeapPages - 1))
       /\ Return
  \/ (\A p \in FreeBlock(HeapPages) : MapHeap(p).status = "full") /\ Panic

\* The controller's heap on the block at p, mapped at v.
MapBlock(p, v) == vmap_map_range_block(KernelTables, ttbr1, p, v, 2, 1)

xhci_allocate_heap ==
  \/ \E p \in FreeBlock(EntryPages(2)) :
       /\ MapBlock(p, XhciBase).status = "ok"
       /\ Mapped(MapBlock(p, XhciBase), p, XhciBase, EntryPages(2), p..(p + EntryPages(2) - 1))
       /\ Return
  \/ (\A p \in FreeBlock(EntryPages(2)) : MapBlock(p, XhciBase).status # "ok") /\ Panic

kernel_main ==
  /\ stage = "kernel" /\ machine.calls # <<>>
  /\ LET call == Head(machine.calls)
     IN  \/ /\ call.kind \in {"mmio", "acpi"}
            /\ map_device(call, IF call.kind = "mmio" THEN MmioBase ELSE AcpiBase)
         \/ call.kind = "pages" /\ page_alloc_init
         \/ call.kind = "heap" /\ kernel_heap_init
         \/ call.kind = "xhci" /\ xhci_allocate_heap

\* Any later call of kmalloc may take a page and map it behind the last one.
\* Without room for a table the page is lost.
heapPages == Cardinality({n \in 1..MaxHeap : HeapBase + n - 1 \in DOMAIN asked})

GrowHeap ==
  /\ stage = "kernel" /\ heapPages \in HeapPages..(MaxHeap - 1)
  /\ \E p \in FreeBlock(1) :
       LET mapped == vmap_map_page(KernelTables, ttbr1, p, HeapBase + heapPages)
       IN  Mapped(mapped, p, HeapBase + heapPages, IF mapped.status = "full" THEN 0 ELSE 1, {p})
  /\ UNCHANGED <<machine, stage, loaded>>

\* A boot module is read where mmap_physical_to_virtual says it is.
LoadModules ==
  /\ stage = "kernel" /\ machine.calls = <<>>
  /\ \/ /\ \A k \in DOMAIN loaded.modules : Min(loaded.modules[k]) < WindowPages
        /\ stage' = "up"
        /\ UNCHANGED <<machine, efi, events, fresh, loaded, info, tables, ttbr1, kernelVars, asked, cause>>
     \/ /\ \E k \in DOMAIN loaded.modules : Min(loaded.modules[k]) >= WindowPages
        /\ Panic

Kernel == ReserveMemory \/ BuildMemoryMap \/ BuildTables \/ kernel_main \/ LoadModules

Next == FirmwareEvent \/ Loader \/ Kernel \/ GrowHeap

\* The loader runs on; nothing forces an event or an allocation.  Only the loop
\* that leaves the firmware could go on for ever.
Spec == Init /\ [][Next]_vars /\ WF_vars(GetMemoryMap \/ ExitBootServices)

-----------------------------------------------------------------------------
InKernel == stage \in {"reserve", "memory_map", "tables", "kernel", "up"}
MapBuilt == stage \in {"tables", "kernel", "up"}

\* The memory map the loader hands to the kernel is the one the firmware had
\* when it gave up its memory, although the firmware's events change it behind
\* the loader's back (exit_boot_services).
HandedMapCurrent == InKernel => info.map = Descriptors(efi)

\* The kernel's memory map says of every page of memory exactly once whether it
\* can be used, and page allocator and mmap never share one: usable is what the
\* firmware left, without the two regions mmap keeps (mmap_build_memory_map).
MemoryMapPartitions ==
  MapBuilt =>
    /\ \A p \in DOMAIN efi : \E i \in DOMAIN kmap :
         p \in PagesOf(kmap[i]) /\ \A j \in DOMAIN kmap : p \in PagesOf(kmap[j]) => j = i
    /\ UsablePages(kmap) = {p \in DOMAIN efi : efi[p] \in {"conventional", "loaderCode", "bootServices"}}
                           \ (KmapRegion(regions) \cup TableRegion(regions))

\* What the loader left in memory for the kernel - its image, its stack, the
\* boot modules, the boot information and the memory map, and its translation
\* tables while they are in use - is neither used by mmap nor handed out by the
\* page allocator.
LoaderDataKept ==
  LET needed == loaded.kept \cup (IF stage \in {"reserve", "memory_map", "tables"} THEN DOMAIN tables ELSE {})
  IN  InKernel => needed \cap (KmapRegion(regions) \cup TableRegion(regions) \cup UsablePages(kmap)) = {}

\* From the jump into the kernel on, every page that was ever mapped translates
\* to the page it was last mapped to: the image and the stack through the
\* change from the loader's tables to the kernel's, the window on physical
\* memory, and each mapping through all the later ones.  The kernel's tables lie
\* in the region kept for them, each used once, and no other memory is taken for
\* a table.
TranslationsKept ==
  /\ InKernel => \A v \in DOMAIN asked : vmap_virtual_to_physical(tables, ttbr1, v) = {asked[v]}
  /\ stage \in {"kernel", "up"} =>
       LET under == TablesUnder(tables, ttbr1)
       IN  /\ {t.page : t \in under} \subseteq TableRegion(regions) \ Range(pool)
           /\ Cardinality({t.page : t \in under}) = Cardinality(under)
  /\ ~wild

\* The room left in the buffer for the memory map is enough for what
\* allocating it does to the map: only an event of the firmware makes
\* GetMemoryMap fail.
OnlyEventsOutgrowMap == cause = "map" => ~info.quiet

\* The loop that leaves the firmware comes to an end: a map that changed between
\* GetMemoryMap and ExitBootServices does not keep the loader trying for ever.
RetryEnds == stage = "get" ~> stage \in {"reserve", "aborted"}
=============================================================================
