--------------------------- MODULE BlockAllocator ---------------------------
(***************************************************************************)
(* The kernel heap, kernel/block_allocator.c behind kmalloc and kfree: a   *)
(* list of blocks in address order, each with a header in front of it, and *)
(* a list of the free ones, both doubly linked through the headers.        *)
(* libz/block_allocator.c, behind malloc and free of a process, is the     *)
(* same code but for how it gets memory.                                   *)
(*                                                                         *)
(* A header pointer is its offset from virtual_base.  headers keeps the    *)
(* headers of the blocks that exist: one that has been merged away is      *)
(* memory nobody looks at.  Every operator from an allocator state to an   *)
(* allocator state is one C function, its assignments in the same order.   *)
(***************************************************************************)
EXTENDS Integers, FiniteSets, Sequences

CONSTANTS
  HeaderSize,     \* sizeof(block_header_t)
  PageSize,       \* PAGE_SIZE
  InitialPages,   \* BLOCK_ALLOCATOR_DEFAULT_SIZE in pages
  MaxPages,       \* bound: how far the heap may grow
  Sizes,          \* the sizes callers ask for
  MaxLive         \* bound: allocations a caller holds at a time

ASSUME HeapAssumption ==
  /\ {HeaderSize, PageSize, InitialPages} \subseteq Nat \ {0}
  /\ HeaderSize < PageSize
  /\ InitialPages <= MaxPages /\ MaxPages \in Nat
  /\ Sizes \subseteq Nat

VARIABLES
  allocator,      \* block_allocator_t and the headers in its memory
  mapped,         \* how many pages are mapped at virtual_base
  live,           \* what callers hold: pointers and the sizes asked for
  owner,          \* whose heap it is: "kernel" or "process"
  stopped         \* an assertion of the kernel failed

vars == <<allocator, mapped, live, owner, stopped>>

NULL == -1
Address == 0..(MaxPages * PageSize - 1)
Pointer == Address \cup {NULL}

Header == [isFree : BOOLEAN, size : Nat, prev : Pointer, next : Pointer,
           freePrev : Pointer, freeNext : Pointer]

TypeOK ==
  /\ DOMAIN allocator = {"headers", "blockHead", "freeHead"}
  /\ {allocator.blockHead, allocator.freeHead} \subseteq Pointer
  /\ DOMAIN allocator.headers \subseteq Address
  /\ \A b \in DOMAIN allocator.headers : allocator.headers[b] \in Header
  /\ mapped \in InitialPages..MaxPages
  /\ live \subseteq [at : Address, size : Sizes]
  /\ owner \in {"kernel", "process"} /\ stopped \in BOOLEAN

-----------------------------------------------------------------------------
\* a with one field of one header assigned; nothing happens through NULL, as
\* the code tests each such pointer first.
SetSize(a, b, n) == [a EXCEPT !.headers[b].size = n]
SetFree(a, b, f) == [a EXCEPT !.headers[b].isFree = f]
SetNext(a, b, p) == IF b = NULL THEN a ELSE [a EXCEPT !.headers[b].next = p]
SetPrev(a, b, p) == IF b = NULL THEN a ELSE [a EXCEPT !.headers[b].prev = p]
SetFreeNext(a, b, p) == IF b = NULL THEN a ELSE [a EXCEPT !.headers[b].freeNext = p]
SetFreePrev(a, b, p) == IF b = NULL THEN a ELSE [a EXCEPT !.headers[b].freePrev = p]

\* The header memory of block b becomes a new header, or part of a free block.
WriteHeader(a, b, h) == [a EXCEPT !.headers = [x \in DOMAIN @ \cup {b} |-> IF x = b THEN h ELSE @[x]]]
DropHeader(a, b) == [a EXCEPT !.headers = [x \in DOMAIN @ \ {b} |-> @[x]]]

add_block_to_free_list(a, b) ==
  LET a1 == SetFreeNext(SetFreePrev(a, b, NULL), b, a.freeHead)
  IN  SetFreePrev([a1 EXCEPT !.freeHead = b], a.freeHead, b)

remove_block_from_free_list(a, b) ==
  LET p == a.headers[b].freePrev
      n == a.headers[b].freeNext
      a1 == IF p # NULL THEN SetFreeNext(a, p, n) ELSE [a EXCEPT !.freeHead = n]
      a2 == SetFreePrev(a1, n, p)
  IN  SetFreePrev(SetFreeNext(a2, b, NULL), b, NULL)

\* A mutant of remove_block_from_block_list: the next block keeps pointing
\* back at the removed one.
remove_block_from_block_list_NoBackLink(a, b) ==
  LET p == a.headers[b].prev
      n == a.headers[b].next
  IN  IF p # NULL THEN SetNext(a, p, n) ELSE [a EXCEPT !.blockHead = n]

remove_block_from_block_list(a, b) ==
  LET p == a.headers[b].prev
      n == a.headers[b].next
      a1 == IF p # NULL THEN SetNext(a, p, n) ELSE [a EXCEPT !.blockHead = n]
      a2 == SetPrev(a1, n, p)
  IN  SetPrev(SetNext(a2, b, NULL), b, NULL)

-----------------------------------------------------------------------------
\* The blocks met from pointer p on, following the given links; a list that
\* is longer than there are blocks is cut off there.
Walk(a, p, link) ==
  LET upTo[n \in 0..(Cardinality(DOMAIN a.headers) + 1)] ==
        IF n = 0 THEN <<>>
        ELSE LET s == upTo[n - 1]
                 q == IF s = <<>> THEN p
                      ELSE IF s[Len(s)] \in DOMAIN a.headers THEN a.headers[s[Len(s)]][link] ELSE NULL
             IN  IF q = NULL THEN s ELSE Append(s, q)
  IN  upTo[Cardinality(DOMAIN a.headers) + 1]

FreeList(a) == Walk(a, a.freeHead, "freeNext")
BlockList(a) == Walk(a, a.blockHead, "next")

\* A mutant of find_free_block: the header is counted as usable.
find_free_block_CountsHeader(a, size) ==
  LET fl == FreeList(a)
      fits == {i \in DOMAIN fl : a.headers[fl[i]].size + HeaderSize >= size}
  IN  IF fits = {} THEN NULL ELSE fl[CHOOSE i \in fits : \A j \in fits : i <= j]

\* First fit, in the order of the free list.
find_free_block(a, size) ==
  LET fl == FreeList(a)
      fits == {i \in DOMAIN fl : a.headers[fl[i]].size >= size}
  IN  IF fits = {} THEN NULL ELSE fl[CHOOSE i \in fits : \A j \in fits : i <= j]

get_last_block_header(a) ==
  LET bl == BlockList(a) IN IF bl = <<>> THEN NULL ELSE bl[Len(bl)]

\* The end of the last block, where the heap grows.
HeapEnd(a) ==
  LET last == get_last_block_header(a)
  IN  IF last = NULL THEN 0 ELSE last + HeaderSize + a.headers[last].size

\* Pages a new block of the given size takes, its header included.
num_pages(size) == (size + HeaderSize + PageSize - 1) \div PageSize

\* The new block at the end of the heap, once its pages are mapped.
AppendBlock(a, size) ==
  LET b == HeapEnd(a)
      last == get_last_block_header(a)
      a1 == WriteHeader(a, b, [isFree |-> TRUE, size |-> num_pages(size) * PageSize - HeaderSize,
                               prev |-> last, next |-> NULL, freePrev |-> NULL, freeNext |-> NULL])
      a2 == IF last # NULL THEN SetNext(a1, last, b) ELSE [a1 EXCEPT !.blockHead = b]
  IN  add_block_to_free_list(a2, b)

\* Cut block b down to the size asked for, when what remains can hold a header
\* and at least one byte.
split_block(a, b, size) ==
  LET delta == a.headers[b].size - size
      rest == b + size + HeaderSize
      after == a.headers[b].next
      a1 == SetNext(SetSize(a, b, size), b, rest)
      a2 == WriteHeader(a1, rest, [isFree |-> TRUE, size |-> delta - HeaderSize, prev |-> b,
                                   next |-> after, freePrev |-> NULL, freeNext |-> NULL])
  IN  IF delta <= HeaderSize THEN a ELSE add_block_to_free_list(SetPrev(a2, after, rest), rest)

\* block_allocator_allocate from the point where it has its block.
TakeBlock(a, b, size) ==
  remove_block_from_free_list(SetFree(split_block(a, b, size), b, FALSE), b)

-----------------------------------------------------------------------------
Init ==
  /\ allocator = [headers |-> [b \in {0} |->
                    [isFree |-> TRUE, size |-> InitialPages * PageSize - HeaderSize, prev |-> NULL,
                     next |-> NULL, freePrev |-> NULL, freeNext |-> NULL]],
                  blockHead |-> 0, freeHead |-> 0]
  /\ mapped = InitialPages
  /\ live = {}
  /\ owner \in {"kernel", "process"} /\ stopped = FALSE

\* kmalloc or malloc finds a block ...
AllocateFound(size) ==
  LET b == find_free_block(allocator, size)
  IN  /\ b # NULL
      /\ Cardinality(live) < MaxLive
      /\ allocator' = TakeBlock(allocator, b, size)
      /\ live' = live \cup {[at |-> b + HeaderSize, size |-> size]}
      /\ UNCHANGED <<mapped, owner, stopped>>

\* ... or maps the pages for a new one ...
AllocateGrows(size) ==
  LET b == HeapEnd(allocator)
      pages == b \div PageSize + num_pages(size)
  IN  /\ owner = "kernel"
      /\ find_free_block(allocator, size) = NULL
      /\ Cardinality(live) < MaxLive
      /\ pages <= MaxPages
      /\ allocator' = TakeBlock(AppendBlock(allocator, size), b, size)
      /\ live' = live \cup {[at |-> b + HeaderSize, size |-> size]}
      /\ mapped' = IF pages > mapped THEN pages ELSE mapped
      /\ UNCHANGED <<owner, stopped>>

\* ... or returns NULL because the pages ran out after k of them were mapped:
\* those stay mapped, behind the end of the heap.
AllocateFails(size, k) ==
  LET pages == HeapEnd(allocator) \div PageSize + k
  IN  /\ owner = "kernel"
      /\ find_free_block(allocator, size) = NULL
      /\ k < num_pages(size)
      /\ pages <= MaxPages
      /\ mapped' = IF pages > mapped THEN pages ELSE mapped
      /\ UNCHANGED <<allocator, live, owner, stopped>>

\* A process asks mmap for the pages at the new block's payload instead of its
\* header.  That is never a page boundary, and process_mmap asserts that it is.
AllocateMmaps(size) ==
  /\ owner = "process"
  /\ find_free_block(allocator, size) = NULL
  /\ (HeapEnd(allocator) + HeaderSize) % PageSize # 0
  /\ stopped' = TRUE
  /\ UNCHANGED <<allocator, mapped, live, owner>>

\* block_allocator_free of a block whose previous and next block are as given.
Merge(a, b, p, n) ==
  LET prevFree == p # NULL /\ a.headers[p].isFree
      nextFree == n # NULL /\ a.headers[n].isFree
  IN  CASE prevFree /\ nextFree ->
             LET a1 == SetNext(a, p, a.headers[n].next)
                 a2 == SetSize(a1, p, a.headers[p].size + 2 * HeaderSize
                                        + a.headers[b].size + a.headers[n].size)
                 a3 == remove_block_from_block_list(remove_block_from_free_list(a2, n), n)
             IN  DropHeader(DropHeader(remove_block_from_block_list(a3, b), n), b)
        [] prevFree /\ ~nextFree ->
             LET a1 == SetNext(a, p, a.headers[b].next)
                 a2 == SetSize(a1, p, a.headers[p].size + HeaderSize + a.headers[b].size)
             IN  DropHeader(remove_block_from_block_list(a2, b), b)
        [] ~prevFree /\ nextFree ->
             LET a1 == SetNext(a, b, a.headers[n].next)
                 a2 == SetSize(a1, b, a.headers[b].size + HeaderSize + a.headers[n].size)
                 a3 == remove_block_from_free_list(remove_block_from_block_list(a2, n), n)
             IN  DropHeader(add_block_to_free_list(SetFree(a3, b, TRUE), b), n)
        [] OTHER -> add_block_to_free_list(SetFree(a, b, TRUE), b)

\* kfree or free of a pointer the caller holds (so its header is that of a used block).
block_allocator_free(r) ==
  LET b == r.at - HeaderSize
  IN  /\ allocator' = Merge(allocator, b, allocator.headers[b].prev, allocator.headers[b].next)
      /\ live' = live \ {r}
      /\ UNCHANGED <<mapped, owner, stopped>>

Next ==
  /\ ~stopped
  /\ \/ \E size \in Sizes :
          \/ AllocateFound(size)
          \/ AllocateGrows(size)
          \/ \E k \in 0..(num_pages(size) - 1) : AllocateFails(size, k)
          \/ AllocateMmaps(size)
     \/ \E r \in live : block_allocator_free(r)

Spec == Init /\ [][Next]_vars

-----------------------------------------------------------------------------
(***************************************************************************)
(* The block list covers the heap: it visits every block once, in address  *)
(* order, each block begins where the one before it ends, the last one     *)
(* ends on a page boundary inside the mapped pages (where the heap will    *)
(* grow), and the back links mirror the forward links.                     *)
(***************************************************************************)
BlocksTile ==
  LET bl == BlockList(allocator)
      h == allocator.headers
  IN  /\ {bl[i] : i \in DOMAIN bl} = DOMAIN h /\ Len(bl) = Cardinality(DOMAIN h)
      /\ bl[1] = 0 /\ h[bl[1]].prev = NULL
      /\ \A i \in 2..Len(bl) :
           bl[i] = bl[i - 1] + HeaderSize + h[bl[i - 1]].size /\ h[bl[i]].prev = bl[i - 1]
      /\ HeapEnd(allocator) % PageSize = 0
      /\ HeapEnd(allocator) <= mapped * PageSize

(***************************************************************************)
(* The free list holds exactly the blocks marked free, each once, and its  *)
(* back links mirror its forward links (remove_block_from_free_list works  *)
(* from the middle of the list).                                           *)
(***************************************************************************)
FreeListExact ==
  LET fl == FreeList(allocator)
      h == allocator.headers
  IN  /\ {fl[i] : i \in DOMAIN fl} = {b \in DOMAIN h : h[b].isFree}
      /\ Len(fl) = Cardinality({b \in DOMAIN h : h[b].isFree})
      /\ \A i \in DOMAIN fl : h[fl[i]].freePrev = IF i = 1 THEN NULL ELSE fl[i - 1]

\* Free memory never lies in pieces side by side.
FullyMerged ==
  \A b \in DOMAIN allocator.headers :
    LET n == allocator.headers[b].next
    IN  allocator.headers[b].isFree /\ n # NULL => ~allocator.headers[n].isFree

(***************************************************************************)
(* Both lists of the heap are in order, after every allocation, split,     *)
(* merge and growth, also one that failed half-way; and no two neighbours  *)
(* are free: kfree merges in both directions, and a block that is split or *)
(* appended never leaves two free neighbours, so once everything is freed  *)
(* the heap is one free block.                                             *)
(***************************************************************************)
ListsConsistent == TypeOK /\ BlocksTile /\ FreeListExact /\ FullyMerged

(***************************************************************************)
(* What kmalloc and kfree promise their callers (module Heap): the memory  *)
(* handed out overlaps nothing that is still held, and is mapped.          *)
(***************************************************************************)
Promise == INSTANCE Heap WITH memory <- 0..(mapped * PageSize - 1)
ImplementsHeap == Promise!Spec
=============================================================================
