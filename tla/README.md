# A formal model of z-os

z-os is a small AArch64 operating system: a UEFI loader, a kernel that runs a fixed set of programs
cooperatively on one CPU, and a compositor that draws the windows of client programs. This directory
models its core in TLA+, checks the models on small instances with TLC, and proves the most
important facts for every instance with TLAPS. `PROJECT.json` maps every definition to the lines it
models, and lists runs, mutants, hazards and theorems. Paths below are relative to `src/`.

## 1. Inventory

**What makes the system hard.** There is one CPU and no preemption: interrupt handlers return at
once, and a thread keeps the CPU until it yields, blocks or exits. So the C code has no data races;
its interleavings are at the points where a thread gives up the CPU, and what is hard is the state
that is kept across those points: run queue, waiter lists, message and event queues, saved
registers, page tables. What does run beside the kernel are the firmware, while the loader runs, and
the USB controller. There are no timeouts and nothing is persisted; messages are neither lost nor
duplicated by a medium, but events are dropped when a ring is full. An assertion that fails stops
the machine, which makes "no assertion fails" a property of its own.

| Component | State | Operations | What makes it correct |
|---|---|---|---|
| Scheduler (`kernel/scheduler`) | run queue, thread states, current thread, TTBR0 | add, run, yield, block, wake up, terminate | queue and states agree; the CPU runs on the table of the current thread; nobody is overtaken or starved; no assertion fails |
| Exceptions, context switch (`exception_vector_table.S`, `scheduler.S`) | registers, kernel stacks, saved contexts | exception entry and return, switch, save and block | a thread finds its registers and frames again |
| Channels (`kernel/process/channel.c`) | endpoints, message and descriptor queues, waiters | open, send, receive, send and receive descriptor | no lost wake-up; a queued message is alive; a descriptor names the file that was sent |
| Input (`kernel/input`, `kernel/process/input_file.c`) | files of a device, a ring and waiters for each | open, emit, read | no lost wake-up; each file a bounded FIFO; a slow reader harms itself only |
| Ring buffer (`kernel/utils/ring_buffer.c`, and its copy in `libcommon`) | pointers, count, slots | enqueue, dequeue, peek | a bounded FIFO queue |
| Kernel heap (`kernel/block_allocator.c`, `kmalloc.c`), process heap (`libz/block_allocator.c`, `malloc.c`) | headers on two linked lists | allocate, split, grow, free, merge | lists in order, no overlap, free neighbours merged |
| Page allocator (`kernel/page_alloc.c`) | free lists by order, bitmap | init, allocate with split, free with merge | the usable pages are divided into aligned blocks |
| Process memory (`process.c`, `process_mmap.c`, `shared_memory.c`, `vmap.c`) | page tables, mappings | load, mmap, open, receive a descriptor | isolation, no page lost or used twice, mappings stay |
| Files and containers (`files/file_table.c`, `process/fd_table.c`, `utils/vector.c`, `handle_table.c`, `hash_table.c`) | all files by handle and by path, the files of a process by descriptor | open, look up | a descriptor and a path lead to the file they were made for, through growth and collisions |
| Boot (`loader/`, `kernel/mmap.c`, `vmap.c`, `efi_memory_map.c`, `bump_allocator.c`, `mmio.c`) | the firmware's memory, the copy of its map, translation tables, the kernel's memory map | load, map, leave the firmware, reserve, build the map, copy the tables, map devices | the map handed over is current; nothing the loader left is overwritten; every page is in one entry of the kernel's map; translations survive |
| USB (`drivers/pci/xhci.c`, `drivers/usb/usb_core.c`) | rings with cycle bits, jobs, the controller's page heap, devices, drivers | commands, transfers, polling, enumeration, binding | a completion reaches its transfer; no page has two uses; boot ends; input keeps flowing |
| USB mouse, cursor, window drag | last report, queue, cursor, window | report, update | the cursor follows the mouse, the window follows the cursor |
| USB keyboard, text input | last report, queue, buffer | report, key down, key up | events are what has changed; the buffer is a line editor |
| Compositor and clients (`programs/compositor`, `libcompositor`, `hello_world`) | windows, buffers, requests | create, attach, draw, commit, poll | calls mean what they say; responses reach who asked |
| Not modelled | | | graphics, system call dispatch, wrappers in libz, register access: see section 8 |

**How the parts interact.** Programs call the kernel by system calls, which run to their end or to
the point where they block. `channel.c` and `input_file.c` register the current thread as a waiter
and call `scheduler_wait_for_event`; senders and the input thread call `scheduler_wake_up`. The input
thread polls the HID drivers, whose completion callbacks emit events to every open file of a device.
Loading, `mmap`, shared memory and the kernel heap draw on one page allocator, which starts from the
memory map that `mmap_init` builds of the firmware's, as the loader fetched it when it left the
firmware. The HID drivers' transfers and the commands of enumeration share one event ring of the USB
controller, and all USB code is one thread of control: first `kernel_main`, then the input thread.
Shared memory, channels, devices and processes are files in one table. The compositor polls
its channel and its two input files in one loop and yields; its clients block on the channel.

## 2. Modules

| Module | Models | Built on |
|---|---|---|
| `Scheduler` | the scheduler's functions as operators on its state | |
| `SchedulerSpec` | any program that uses them: start, boot, yield, block, exit, wake any list of waiters | `Scheduler` |
| `Context` | what the same steps do to registers and kernel stacks | `SchedulerSpec` |
| `KernelLemmas` | lemmas about the operators of the scheduler and of the ring | `Scheduler`, `RingBuffer` |
| `SchedulerProofs` | proofs about `SchedulerSpec` and `Context` | `Context`, `KernelLemmas` |
| `Channel`, `ChannelProofs` | channel system calls of user threads; proofs | `Scheduler`, `KernelLemmas` |
| `RingBuffer`, `RingBufferSpec` | the ring; a client of it | |
| `BoundedFifo` | abstract: a bounded FIFO queue | |
| `InputFile`, `InputFileProofs` | devices, files, blocking reads; proofs about them and about `RingBufferSpec` | `Scheduler`, `RingBuffer`, `KernelLemmas` |
| `BlockAllocator`, `HeapProofs` | the kernel heap and the heap of a process; proofs | |
| `Heap` | abstract: memory handed out overlaps nothing still held | |
| `PageAlloc` | the page allocator's functions | |
| `Files` | vectors, handle tables, hash tables; the file table and the descriptor tables, as operators | |
| `ProcessMemory` | loading, mmap, shared memory and its files, page tables | `PageAlloc`, `Files` |
| `Vmap` | translation tables in memory: walk, allocation of tables, pages, blocks, ranges, the copy of a tree | |
| `Mmap` | reservation of memory, the kernel's memory map, the kernel's address space | `Vmap` |
| `Boot`, `BootProofs` | the loader, the firmware's memory services, the way through `mmap_init` and the drivers' mappings; proofs | `Mmap` |
| `TrbRing` | command, transfer and event rings: cycle bits, link block, wrap | |
| `Xhci` | the controller's driver, and the controller (external) | `TrbRing` |
| `Usb` | enumeration, binding, the polling of the HID drivers | `Xhci` |
| `HidMouse` | mouse driver, queue, cursor, dragging | |
| `HidKeyboard`, `TextInput`, `Typing`, `TypingProofs` | keyboard driver; text input; both with the queue between them; proofs | |
| `LineEditor` | abstract: text before and after a cursor | |
| `Compositor`, `CompositorProofs` | the windows protocol; proofs about it and about `HidMouse` | |

`MC*` modules give values to constants that a `.cfg` cannot write, and symmetry sets.

**State and steps.** Variables keep the names of the fields and globals they stand for. A C function
that changes state is an action or an operator of the same name. Since kernel code is not
interrupted, a system call is one step up to its end or to the point where it blocks; what is left of
it is another step, when the scheduler has given the thread the CPU back (`Resume*`). Some models cut
finer, where one call does several things that can fail or something else runs beside it:
`ProcessMemory` takes a step per page, `Typing` a step per event, `Boot` a step per service of the
firmware and per stage of `mmap_init`, and `Usb` a step per command, transfer and event, with `pc` for
where its one thread of control is. Definitions that end in an underscore and a name (`channel_file_read_If`)
are mutants: what the code might have been with a plausible slip. Each property is shown to fail for
one of them, so that no property holds by the shape of its model.

**What is abstracted.**
- A message is its kernel object and a size; a descriptor is a position in the process's table.
- `SchedulerSpec` treats anything that blocks as one set of registered threads; `Channel` and
  `InputFile` are shown to use the scheduler in the way it allows (`UsesScheduler`, refinement).
- `Context` groups registers that are always saved together, and counts stacks in words.
- `HidMouse` and `Typing` have a FIFO queue for the input file, which `FilesAreFifos` justifies.
- `Compositor` has a queue per endpoint for the channel, with its fan-out and with the message object
  freed by its first receiver.
- `BlockAllocator` and `PageAlloc` keep every link, flag and order of the code; only addresses are small.
- `Files` keeps size, capacity and contents of a vector and the chains of a hash table; a file is named by
  its handle, which is its own for ever, since nothing that closes a file has a caller. Of the files,
  `ProcessMemory` has shared memory objects and processes.
- `Boot` counts in pages: the firmware allocates from the top, a pool allocation takes whole pages. Video
  mode, page flags and the contents of files are left out.
- `Usb`: a device has one configuration, interface and endpoint. A block of a ring that was taken keeps
  only its cycle bit. `lost` and `mishaps` record what went wrong, for the properties' hypotheses only.
- The list nodes that `kmalloc` provides to the scheduler, the channels and the input files do not fail.

## 3. Runs

| Run | Bounds | States | Shows |
|---|---|---|---|
| `scheduler` | 4 processes, the input thread | 842 | `IInv`, `AddressSpaceOfCurrent`, `NeverStops`, `NoOvertaking`, `EveryoneRuns` |
| `channel` | 2 processes, 2 endpoints, 3 messages, 2 sizes | 288041 | `NoLostWakeup`, `MessagesLive`, `FdTransfer`, `UsesScheduler`, `Delivered` |
| `channel_fan_out` | 3 processes, 3 endpoints, 1 message | | violation of `MessagesLive`, see section 7 |
| `input_file` | 2 processes (one polls), 2 files, rings of 2, 2 values | 296282 | `NoLostWakeup`, `UsesScheduler`, `FilesAreFifos`, `ReaderWoken` |
| `kernel_heap` | 2 to 3 pages of 8 bytes, 3 live blocks; of the kernel and of a process | 63755 | `ListsConsistent`, `ImplementsHeap` |
| `process_memory` | 2 processes with 2 descriptors each, 15 pages, 7 memory maps, 2 paths in one bucket | 517271 | `Isolation`, `PagesAccounted`, `MappingsKept` |
| `context` | 2 processes, the input thread, real frame sizes | 885080 | `RegistersRestored` |
| `mouse` | 2 motions, 2 buttons, queue of 2, 3 by 2 screen | 1.5 million | `CursorFollowsMouse`, `DragKeepsGrip` |
| `typing` | 3 keys and shift, 2 slots, queue of 2, buffer of 1 to 2 | 291506 | `DrawsText`, `ShiftFollowsKey`, `EventsAreChanges`, `ImplementsEditor` |
| `compositor` | 2 clients, 2 windows each, 9 messages | 41694 | `CallsDoWhatTheySay`, `WindowsAreOwn`, `EveryRequestAnswered` |
| `usb` | 7 machines with up to 3 devices on 3 ports, rings of 4 blocks and a link, event ring of 4, 5 reports | 75578 | `JobsMatchTransfers`, `HeapAccounted`, `FaultsOnlyUnbound`, `BootCompletes`, `InputFlows` |
| `boot` | 31 machines of up to 59 pages, 4 levels of 8 entries, 2 firmware events | 21563 | `HandedMapCurrent`, `MemoryMapPartitions`, `LoaderDataKept`, `TranslationsKept`, `OnlyEventsOutgrowMap`, `RetryEnds` |

What the less obvious ones say:
- `IInv` is the inductive invariant of section 5. `ListsConsistent` includes that free neighbours are
  merged; `PagesAccounted` that the allocator's lists and bitmap agree; `Isolation` that all who map an
  object see its pages in its order, and that a path leads to the object created under it;
  `RegistersRestored` that a call that blocks finds its frame again; `CursorFollowsMouse` that clicks
  follow the buttons; `CallsDoWhatTheySay` that an attach or a commit with a response has taken place;
  `WindowsAreOwn` that a response is of the kind its reader waits for.
- `JobsMatchTransfers`: the jobs of an endpoint are, in order, the transfers that have ended and those
  under way. `xhci_poll_events` relies on it: it compares nothing. `InputFlows` and `BootCompletes` hold
  as long as nothing in `mishaps` happened, and the mishaps are the code's own (section 7).
- `TranslationsKept`: whatever was mapped stays mapped where it was, through the change from the
  loader's tables to the kernel's and through every later mapping. `OnlyEventsOutgrowMap`: the slack of
  two descriptors is enough for what the allocation of the map's own buffer does to the map.

The `MC` modules give the constants of a run their values: `MCSchedulerSpec` and `MCChannel` (the
processes), `MCProcessMemory` (programs, memory maps, hashes), `MCContext` (symmetry of the processes),
`MCHidMouse` (the motions), `MCBoot` and `MCUsb` (the machines). No run that checks liveness uses symmetry.

Where a property's first conjunct is `TypeOK` it carries the module's type invariant along.

**Why the bounds are enough.** Each is chosen so that the case a property is about occurs, and the
mutants confirm that it does.
- Scheduler: four processes give queues of five, with heads that are terminated, threads that are
  woken in groups, and a thread that runs alone with the input thread.
- Channels: two sizes make a message that does not fit; three messages make queues at both ends, and a
  reader that is woken for a message another took. Two readers blocked at one endpoint at once need
  three processes and a transfer, and do not fit from boot; the loop that wakes all of them is the same
  in `input_file.c`, where two readers of one file do fit, and the mutant that wakes only one fails.
- Rings: a ring of two fills, empties and wraps; of the two readers one blocks and one polls, and
  either may read the other's file through a descriptor it was given.
- Heap: header, page and sizes are such that a block fits exactly, leaves less than a header, leaves
  just a header, or needs a page more. A process's heap stops the kernel when it grows, so deadlock is
  not checked.
- Pages: one memory map in which both programs fit and a few pages remain, so that every call meets
  the end of memory at every point, and six, aligned in different ways, that are too small for the
  second program, so that loading fails half-way. Two page-table levels of four entries make
  mappings that share a table and mappings that do not. Vectors start with room for one, so that the
  file table grows twice and every other vector once; both paths are in one bucket. It stops when an
  assertion fails, by design: deadlock is not checked there.
- Typing: two slots and three keys make a roll-over report; a buffer of one is full at once and grows
  once; the chords have keys that type, erase and move.
- Compositor: with nine messages each client creates, attaches and commits with responses, and
  requests of both are in the channel together. Deadlock is not checked because clients stop sending
  at the bound, and may stop anyway.
- USB: with four blocks every ring wraps, the event ring in the middle of an enumeration. Keyboard and
  mouse as in the repository's scripts; the same with a page heap that ends in the last transfer, in the
  set-up of an endpoint, of a device, and in the first request; a second mouse, for which no driver is
  left; a device that no driver takes. Port changes come at any time. A failed assertion or a fault
  stops the kernel: deadlock is not checked.
- Boot: memory of 1 to 17 pages ends each of the loader's steps; kernels that cannot be loaded; and ten
  machines whose firmware cuts the memory differently, among them one each that runs out of a
  descriptor with room for the tables, of tables, of entries of the kernel's memory map, of a block for
  the controller, two with memory beyond the window on physical memory, and one with tables
  beyond it, which stop the kernel at its first mapping. With two events the map
  changes before and after it was fetched. Boot ends: deadlock is not checked.

## 4. Fairness

Weak fairness only, except for the devices, and only where liveness is checked.
- *Boot* (`StartThread`, `Boot`) is straight-line kernel code.
- *A running thread gives up the CPU* (`Yield`, `Block`, `Exit`): the input thread's and the
  compositor's loops yield in every iteration, and clients block for their answer or yield. Kernel
  code that was resumed goes on to its end. A program that computes for ever would starve the others,
  since nothing preempts it; none in the repository does.
- *The compositor and its clients run again and again* (`Compositor`): justified by `EveryoneRuns`.
- *The loader goes on* (`Boot`: `GetMemoryMap \/ ExitBootServices`): straight-line code in a loop. The
  firmware's events are bounded and not fair.
- *USB*: the kernel's one thread of control (`Kernel`), and a controller that executes commands and
  answers on the control endpoint, with success or an error. No fairness for interrupt transfers: a
  device may have nothing to report.
- *Devices go on producing events* (`DevicesActive`, strong fairness): not a promise of the code but
  the condition under which `ReaderWoken` says something; a mouse that lies still wakes nobody.

`Delivered`, `ReaderWoken`, `EveryoneRuns`, `EveryRequestAnswered`, `BootCompletes`, `InputFlows` and
`RetryEnds` depend on it; all other properties are safety properties.

## 5. Proofs

Twenty-eight theorems, in seven modules of proofs and one of lemmas. They hold for every value of the constants that satisfies the
assumptions below, so the bounds of section 3 play no part in them.

| Theorem | States | Assumes besides the module's assumptions |
|---|---|---|
| `SchedulerSafe` | `IInv`: queue, thread states, waiters and current thread agree, no assertion fails | |
| `AddressSpaceSafe` | the current thread runs on its own table | a kernel thread |
| `SchedulerNeverStops` | no assertion fails and the idle thread is never entered | a kernel thread |
| `FirstComeFirstServed` | no step moves a queued thread back (`NoOvertaking`) | |
| `ContextSafe` | `RegistersRestored` | a kernel thread |
| `ChannelWakeupsKept`, `InputWakeupsKept` | `NoLostWakeup` of `Channel` and of `InputFile` | |
| `DescriptorsArrive` | `FdTransfer` | |
| `PairMessagesLive` | `MessagesLive` | `MaxPerPath <= 2` |
| `ChannelsUseScheduler`, `InputFilesUseScheduler` | `UsesScheduler`: both implement `SchedulerSpec` | for channels `MaxPerPath <= 2` |
| `RingStaysOK`, `RingImplementsFifo` | a ring is well-formed and implements `BoundedFifo` | |
| `InputFilesAreFifos` | `FilesAreFifos`: so does each input file, with readers and input thread around it | |
| `HeapListsConsistent`, `HeapImplemented` | `ListsConsistent`; `ImplementsHeap`: the allocator implements `Heap` | |
| `HandedMapIsCurrent`, `MapPartitionsMemory` | `HandedMapCurrent`, `MemoryMapPartitions` | |
| `LoaderDataIsKept`, `OnlyEventsOutgrowTheMap` | `LoaderDataKept`, `OnlyEventsOutgrowMap` | |
| `MouseFollowed`, `GripKept` | `CursorFollowsMouse`, `DragKeepsGrip` | |
| `EventsExact` | `EventsAreChanges`: the driver's events are what has changed between two reports | |
| `TextDrawn`, `TypingImplementsEditor` | `DrawsText`, `ImplementsEditor` | |
| `ShiftNeverSticks` | `ShiftFollowsKey` | |
| `CallsHonest`, `ResponsesOwn` | `CallsDoWhatTheySay`, `WindowsAreOwn` | |

**Assumptions.** Sets of threads are disjoint and apart from the idle thread; sets of user threads are
finite where a module counts waiters; sizes and bounds are naturals; model values that stand for
"none" (`NoFile`, `NoCall`, `NoRequest`, `NoHandle`) are not among the values they are told from. None
is stronger than the code: a `NULL` pointer or a handle of 0 is no object. A keyboard may have no key
held (`{} \in Chords`), as the cleared `g_latest_report` says at first. A machine has memory, which does
not begin at address 0 (the code takes that for "not found") and has no holes, and the loader asks for room
for two descriptors more than the firmware names. Two hypotheses are particular:
- *A kernel thread exists*: the input thread, which every build but that of the tests starts. Without
  it the scheduler may yield to the same thread and skip the switch, or enter the idle thread and
  never leave it (section 7).
- *At most two endpoints on a path*, as when one client talks to the compositor. With a third the claims
  are false, and the run `channel_fan_out` shows how: a message is freed that is still queued.

**Arguments.** Each safety theorem has an inductive invariant, since none of the properties is inductive as
it stands. TLC checked it on the module's instance before it was proved, but for the heap's, which
quantifies over functions on the integers.
- *Scheduler.* `scheduler_wake_up` needs to know that the threads on a list of waiters are blocked, hence
  not queued (`BlockedIsWaiting`); `thread_start` that a thread is not queued before it is started, and
  `scheduler_run` that a READY thread is queued once boot is over (`BootState`). `KernelLemmas` has
  what the queue operations do to elements and duplicates, and treats `scheduler_run` and waking once
  for all modules. For the page table, the queue is shown never to be empty when a user thread gives up
  the CPU, so that another thread is chosen and its table installed.
- *Context.* What a thread finds when it runs must be kept while it does not: `ThreadsKept` describes
  `ctx`, frame and stack pointers of a thread that yielded, that blocked inside a call, and that has
  not started. The scheduler's part is not proved a second time: `Context` conjoins the scheduler's actions, so its
  behaviours are `SchedulerSpec`'s (the lemma `ContextUsesScheduler`).
- *Channels.* A thread blocked in a call is registered once, with the endpoint it reads, whose queue is
  empty; that nobody else is registered anywhere is what keeps a wake-up from hitting a thread that does
  something else. A descriptor message stays meaningful because descriptor tables only grow
  (`FdsKept`). For two endpoints, every queued message is queued once and its object is not freed
  (`PairInv`).
- *Input files.* As for channels; in addition each ring's contents change as `BoundedFifo` says, by the
  lemmas on the ring.
- *Ring buffer.* The queue is the used slots from `dequeuePtr` on (`EnqueueAppends`, `DequeueTakesHead`).
- *Heap.* The invariant (`HeapInv`) describes the headers by one function per field (`Alloc`): each
  assignment of the code changes one function at one address. `Tiled` says that a block ends where the
  next begins, up to the end of the heap; `FreeChain` that the free list is a list, by a rank that grows
  along it, which is what keeps a list that is changed at its head and in its middle from becoming a
  cycle. Every operation is shown to lead from functions with these properties to others: `HeapTake`,
  `HeapPut`, `HeapSplit`, `HeapAppend`, and the three merges (`HeapMergePrev`, `HeapMergeNext`,
  `HeapMergeBoth`). What `Walk` meets on such a list is all of it, each block once (`ListsVisited`), by
  induction over its length. `Held` says that each region a caller holds lies in a used block of its own;
  since blocks do not overlap, nor do the regions, which is what `Heap` asks for. That a freed block's
  neighbours are used or merged needs `MergedBut`: between split and removal, or after an append, the
  block about to be taken is free next to a free one.
- *Boot.* First what the operators compute, for memory of any length: `Descriptors` describes every page
  once, with its type (`DescriptorsAre`), since each page lies in the stretch of the last start before it;
  one page of another type makes at most two starts more (`TwoMoreDescriptors`). `mmap_reserve_memory`
  finds both regions at the start of usable descriptors (`ReserveFinds`), which is what
  `mmap_build_memory_map` takes for granted and what makes the entries of a descriptor divide it
  (`EntriesDivide`, `BuildDivides`). Then the invariant (`BootInv`): everything the loader keeps, and each
  of its tables, is memory of the type `loaderData`, of which no descriptor is usable (`KeptInv`); that
  nothing of it is freed with the kernel's file needs that the file's buffer was free when it was
  allocated. Mapping takes tables only from the pages that were free (`Drawn`, by induction over levels
  and pages). A current key belongs to the copy of the map (`HandedInv`), and without an event the map
  fits at every stage of the loop (`QuietInv`).
- *Mouse.* The invariant says what the events still queued will do: `CursorAfter`, over the queue, leads
  to the aim, which an appended event extends and the head of the queue shortens; buttons that the
  compositor has not seen go up are held.
- *Typing.* What the two loops of the transfer callback emit is described turn by turn (`ModifierTurnIs`,
  `KeyTurnIs`), then for the whole report: an event occurs iff a turn emits it, and once if one turn does;
  a key is in one slot (`SlotsDiffer`), so no key goes down twice. `DrawsText` is inductive with the types
  (`TextInv`): each insertion has room for the character and the terminator (`RoomForInsert`), in the
  old buffer or in one of twice the size. The same lemmas say what a key does to the text before and
  after the cursor, which is a step of `LineEditor`. For shift, the last event for a shift key in the
  queue decides, and otherwise `shift_down`; before the file is open there is neither
  (`NothingBeforeOpen`).
- *Compositor.* Messages are fanned out to everybody, so the invariant is about what is live in a queue:
  as long as a client's request has not been received there is no response to it, and afterwards one at
  most (`OnePending`), whose contents are so, and stay so (`Answers`), while other clients create, commit
  and draw. Handles are unique over all buffers, which is what lets `Own` find the one window
  (`HandlesOwn`). Attach requests carry no handle; `Alone` is the same for a client that has the channel
  for itself, and is lost when a second one joins.

Refinements are proved by mapping the initial states and every step. `WakeOrder`, `CursorAfter`, the
loops of `Events`, the walk through tables and the two passes of `mmap_init` are recursive functions on the naturals: that a function meets the equations is derived
by induction with the formula as a set (`SetInduction`), and facts about it are proved the same way.

**Only model-checked.** Liveness, which is out of the prover's reach, with the fairness of section 4:
`EveryoneRuns`, `Delivered`, `ReaderWoken`, `EveryRequestAnswered`, `BootCompletes`, `InputFlows`,
`RetryEnds`. Not proved: the properties of process memory and of USB, and
`TranslationsKept`. They are about trees of tables, free lists and rings as wholes: what a translation gives
after a change elsewhere in the tree needs an invariant on the shape of the tree, which
`recursive_copy_table` and every kind of mapping would have to keep.

## 6. Plan

Modelled, in this order: scheduler; channels; ring buffer; input files; kernel heap; page allocator and
process memory; context switch; mouse; keyboard and text input; compositor; USB; boot and the kernel's
address space; the process heap; files and their containers. Proved: scheduler, context switch, channels,
ring buffer, input files, mouse, keyboard and text input, compositor, heap, boot. Next:
1. `TranslationsKept`, from the tables' being a tree each page of which is used once.
2. `JobsMatchTransfers`, on one ring and for any ring size, from the relation of cycle bits and pointers.

## 7. Where code and comments disagree

`channel_fan_out` shows one disagreement: `channel_file_write` queues one message object at every other
endpoint ("Fan out the message to all endpoints (except ourselves).", `kernel/process/channel.c:410`),
and the first receiver frees it. With two endpoints, as the system is started, `MessagesLive` holds (run
`channel`). Others, met while modelling, are in the models as the code has them, and the properties are
stated so as to hold beside them:
- `scheduler_run` skips `context_switch` when the yielding thread is chosen again, after its table was
  replaced (`scheduler.c:116`); it needs a system without the input thread, as the `RUN_TESTS` build
  is. `AddressSpaceSafe` assumes a kernel thread for this reason.
- `scheduler_switch_to_thread` uses x0 to x3 after it has loaded them (`scheduler.S:49`):
  `RegistersRestored` is about x4 to x30.
- libz's heap grows at the offset of the new block's payload (`libz/block_allocator.c:138`), which
  `process_mmap`'s assertion on the alignment (`process_mmap.c:51`) refuses: every growth stops the
  kernel (`AllocateMmaps`), and a process's heap has its first 4 MB and no more.
- `page_alloc_free`'s loop that removes a buddy does not advance (`page_alloc.c:207`). The kernel frees a
  page only when no page is left, so no buddy is free and the loop is not entered.
- The text's terminator may lie one byte behind a full buffer (`text_input.c:57` and `:87`), on the next
  heap block's header; `TextInput` models that byte. `KEY_0` types a colon (`text_input.c:151`).
- A mouse motion equal to the one before is not reported (`usb_hid_mouse.c:66`): `CursorFollowsMouse`
  excludes it. A roll-over report lists no key, so held keys go up (`usb_hid_keyboard.c:108`):
  `EventsAreChanges` is about what reports list.
- Attach requests carry no process handle (`comms.c:53`), so with several clients one may take another's
  response: the part of `CallsDoWhatTheySay` about attaching is for a client alone with the compositor. 
- `compositor_init` returns 1 for some failures, and `main` tests for less than 0 (`compositor.c:53`): the
  compositor polls descriptor 0 as its channel, and the assertion at `channel.c:177` or `:179` stops the
  kernel ("faulted"). For others it returns -1 and the compositor exits, so that its clients wait for
  ever: `EveryRequestAnswered` asks for a compositor on the channel.

- A command of the USB controller waits for the next event, whatever it is (`xhci.c:1044`). A port change,
  or a report of a device that is already bound, makes it fail; the report is lost with its job, so that
  the driver falls silent, and the command's own completion is taken for the answer to the next one.
  `InputFlows` excludes the first, `JobsMatchTransfers` states how far the jobs fall behind.
- A request for a descriptor polls until its callback has run (`usb_core.c:345`): with a stopped endpoint,
  or with no page for the transfer, it polls for ever. `BootCompletes` excludes these.
- The input thread polls both HID drivers whether or not they have a device (`usb_hid_mouse.c:142`):
  without a mouse or a keyboard it follows a null pointer. `FaultsOnlyUnbound` says that nothing else
  leads there. The number of devices is not compared with `USB_MAX_NUM_DEVICES`.
- The loader's retry (`bootloader.c:62`) keeps the buffer, and the size it passes is the one the last call
  wrote: the slack is gone, and a firmware event that adds a descriptor ends the boot. Hence
  `OnlyEventsOutgrowMap`.

## 8. Not modelled

- *Graphics*: pixels and glyphs, data only. The two fonts are generated headers of 20588 lines, more than
  half of the repository, and `stb_truetype.h` is third-party code of 5079 lines.
- *System call dispatch and libz wrappers*: a switch and one call each; the operations are actions.
- *Platform drivers* but for their mappings: register reads and writes and table lookups, without state
  that later steps depend on. The same goes for register wrappers and the sizing of BARs in `xhci.c`.
- *The parsing of descriptors* (`usb_core.c:166` to `:203`): devices with several interfaces or endpoints.
- *The choice of a video mode* (`bootloader.c:312` to `:374`), the contents of files, page flags.
- *Removal from containers* (`hash_table_remove`, `handle_table_remove`, `vector_pop_back`,
  `linked_list_destroy`) and `file_table_close`: only `input_device_destroy` leads to them, and it has no
  caller. `hash_table_remove` would follow a null pointer for a node that is alone in its bucket
  (`hash_table.c:174`). Linked lists are sequences, and libcommon's copies of the containers are the code
  of `kernel/utils`.
- *Files of channels and devices in the file table*: `Channel` and `InputFile` have their own descriptors,
  and `file.c` hands a call on to the file's operations.
- *Stubs* that stop the machine when called: `munmap`, destruction of processes, closing and unlinking
  of shared memory. `channel_close` and the close of input files are not implemented in the kernel.
- *Failures of `kmalloc`* outside the heap's own model, and *contents of pages, pixels, message payloads.*
- *Proofs of liveness* are out of the prover's reach: TLC checks it on the instances of section 3.
