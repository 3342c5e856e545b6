------------------------------ MODULE PageAlloc ------------------------------
(***************************************************************************)
(* The physical page allocator, kernel/page_alloc.c: a buddy allocator     *)
(* with one free list per order and a "bitmap" with an entry per page.     *)
(* Blocks are [pfn, order]; the free lists are sequences of page frame     *)
(* numbers, head first.                                                    *)
(***************************************************************************)
EXTENDS Integers, Sequences, FiniteSets, Functions

CONSTANTS
  MAX_ORDER,      \* 10 in the code
  TotalPages,     \* MAX_TOTAL_PAGES
  MemoryMaps      \* the memory maps to start from: sequences of descriptors

ASSUME PageAssumption ==
  /\ MAX_ORDER \in Nat /\ TotalPages \in Nat
  /\ \A map \in MemoryMaps : \A i \in DOMAIN map :
       /\ map[i].start \in Nat /\ map[i].pages \in Nat /\ map[i].usable \in BOOLEAN
       /\ map[i].start + map[i].pages <= TotalPages

VARIABLES
  memoryMap,      \* the memory map the kernel was booted with
  freeLists,      \* free_lists
  bitmap,         \* page_bitmap
  held,           \* the blocks callers hold
  kernel          \* "up", "panic" (a failed assertion) or "hang" (a loop that never ends)

pageVars == <<memoryMap, freeLists, bitmap, held, kernel>>

Order == 0..MAX_ORDER
Page == 0..(TotalPages - 1)
Block == [pfn : Page, order : Order]
Entry == [valid : BOOLEAN, isFree : BOOLEAN, isHead : BOOLEAN, order : Order]

PageTypeOK ==
  /\ memoryMap \in MemoryMaps
  /\ freeLists \in [Order -> Seq(Page)]
  /\ bitmap \in [Page -> Entry]
  /\ held \subseteq Block
  /\ kernel \in {"up", "panic", "hang"}

page_alloc_block_size(order) == 2 ^ order

\* page_frame_number ^ (1 << order)
calculate_buddy_page_frame_number(pfn, order) ==
  LET size == page_alloc_block_size(order)
  IN  IF (pfn \div size) % 2 = 0 THEN pfn + size ELSE pfn - size

\* The entries free_list_push and free_list_pop write.
FreeEntry(order) == [valid |-> TRUE, isFree |-> TRUE, isHead |-> TRUE, order |-> order]

HeldEntry(order) == [valid |-> TRUE, isFree |-> FALSE, isHead |-> TRUE, order |-> order]

-----------------------------------------------------------------------------
\* The largest order that fits in the remaining pages and is aligned at pfn.
LargestOrder(pfn, remaining) ==
  LET fits(o) == page_alloc_block_size(o) <= remaining /\ pfn % page_alloc_block_size(o) = 0
  IN  CHOOSE o \in Order : (o = 0 \/ fits(o)) /\ \A n \in Order : n > o => ~fits(n)

\* The blocks one descriptor is cut into, in the order they are pushed.
Carve(d) ==
  LET rest[r \in 0..d.pages] ==
        IF r = 0 THEN <<>>
        ELSE LET pfn == d.start + d.pages - r
                 o == LargestOrder(pfn, r)
             IN  <<[pfn |-> pfn, order |-> o]>> \o rest[r - page_alloc_block_size(o)]
  IN  IF d.usable THEN rest[d.pages] ELSE <<>>

\* All blocks of the memory map, in the order they are pushed.
CarveAll(map) ==
  LET upTo[n \in 0..Len(map)] == IF n = 0 THEN <<>> ELSE upTo[n - 1] \o Carve(map[n])
  IN  upTo[Len(map)]

\* The list of one order after those blocks were pushed: the last one first.
ListOf(blocks, order) ==
  LET upTo[n \in 0..Len(blocks)] ==
        IF n = 0 THEN <<>>
        ELSE IF blocks[n].order = order THEN <<blocks[n].pfn>> \o upTo[n - 1] ELSE upTo[n - 1]
  IN  upTo[Len(blocks)]

\* For each of the memory maps.
page_alloc_init ==
  /\ memoryMap \in MemoryMaps
  /\ LET blocks == CarveAll(memoryMap)
     IN  /\ freeLists = [o \in Order |-> ListOf(blocks, o)]
         /\ bitmap = [p \in Page |->
                        IF \E i \in DOMAIN blocks : blocks[i].pfn = p
                        THEN FreeEntry(blocks[CHOOSE i \in DOMAIN blocks : blocks[i].pfn = p].order)
                        ELSE [valid |-> FALSE, isFree |-> FALSE, isHead |-> FALSE, order |-> 0]]
  /\ held = {}
  /\ kernel = "up"

-----------------------------------------------------------------------------
\* The order page_alloc_block takes a block from, the smallest that has one,
\* and the block's first page.
OrdersWithRoom(order) == {o \in order..MAX_ORDER : freeLists[o] # <<>>}
SourceOrder(order) ==
  CHOOSE o \in OrdersWithRoom(order) : \A n \in OrdersWithRoom(order) : o <= n
TakenPage(order) == Head(freeLists[SourceOrder(order)])

\* The half that goes to the free list of the given order in a split.
SplitHalf(pfn, order) == pfn + page_alloc_block_size(order)

\* Pop the block, then push the upper half of each split: every order between
\* the requested one and the source gets one block.
TakeAndSplit(order) ==
  LET from == SourceOrder(order)
      pfn == TakenPage(order)
      split == order..(from - 1)
  IN  /\ freeLists' = [o \in Order |->
                         IF o = from THEN Tail(freeLists[o])
                         ELSE IF o \in split THEN <<SplitHalf(pfn, o)>> \o freeLists[o]
                         ELSE freeLists[o]]
      /\ bitmap' = [p \in Page |->
                      IF p = pfn THEN HeldEntry(order)
                      ELSE IF \E o \in split : p = SplitHalf(pfn, o)
                      THEN FreeEntry(CHOOSE o \in split : p = SplitHalf(pfn, o))
                      ELSE bitmap[p]]
      /\ held' = held \cup {[pfn |-> pfn, order |-> order]}
      /\ UNCHANGED <<memoryMap, kernel>>

\* Out of memory changes nothing.
page_alloc_block(order) ==
  /\ kernel = "up"
  /\ IF OrdersWithRoom(order) # {} THEN TakeAndSplit(order) ELSE UNCHANGED pageVars

-----------------------------------------------------------------------------
\* Whether page_alloc_free merges a block with its buddy.
merge_possible(bits, pfn, order) ==
  LET buddy == calculate_buddy_page_frame_number(pfn, order)
  IN  order < MAX_ORDER /\ buddy < TotalPages /\ bits[buddy] = FreeEntry(order)

\* The loop that takes the buddy off its free list.  It looks only at the page
\* after the head, and never goes on to the next one: it ends when that page
\* is the buddy, fails an assertion when there is no such page, and otherwise
\* runs for ever.
RemoveBuddy(list, buddy) ==
  CASE list = <<>> -> [outcome |-> "up", list |-> list]
    [] Len(list) = 1 -> [outcome |-> "panic", list |-> list]
    [] Len(list) > 1 /\ list[2] = buddy ->
         [outcome |-> "up", list |-> <<list[1]>> \o SubSeq(list, 3, Len(list))]
    [] OTHER -> [outcome |-> "hang", list |-> list]

\* The state of page_alloc_free at the top of its merge loop, and its next one.
MergeStep(s) ==
  LET buddy == calculate_buddy_page_frame_number(s.pfn, s.order)
      removed == RemoveBuddy(s.lists[s.order], buddy)
  IN  IF s.outcome # "up" \/ ~merge_possible(s.bits, s.pfn, s.order) THEN s
      ELSE IF removed.outcome # "up" THEN [s EXCEPT !.outcome = removed.outcome]
      ELSE [lists |-> [s.lists EXCEPT ![s.order] = removed.list],
            bits |-> [s.bits EXCEPT ![buddy].isFree = FALSE],
            order |-> s.order + 1, pfn |-> IF s.pfn > buddy THEN buddy ELSE s.pfn, outcome |-> "up"]

\* Merge as often as possible (at most once per order), then push the result.
page_alloc_free(b) ==
  LET merged[n \in 0..MAX_ORDER] ==
        IF n = 0
        THEN [lists |-> freeLists, bits |-> bitmap, order |-> b.order, pfn |-> b.pfn, outcome |-> "up"]
        ELSE MergeStep(merged[n - 1])
      s == merged[MAX_ORDER]
  IN  /\ kernel = "up"
      /\ held' = held \ {b}
      /\ IF s.outcome = "up"
         THEN /\ freeLists' = [s.lists EXCEPT ![s.order] = <<s.pfn>> \o @]
              /\ bitmap' = [s.bits EXCEPT ![s.pfn] = FreeEntry(s.order)]
              /\ UNCHANGED kernel
         ELSE kernel' = s.outcome /\ UNCHANGED <<freeLists, bitmap>>
      /\ UNCHANGED memoryMap

-----------------------------------------------------------------------------
Pages(b) == b.pfn..(b.pfn + page_alloc_block_size(b.order) - 1)
FreeBlocks == UNION {{[pfn |-> p, order |-> o] : p \in Range(freeLists[o])} : o \in Order}
Usable(map) == UNION {map[i].start..(map[i].start + map[i].pages - 1) :
                        i \in {j \in DOMAIN map : map[j].usable}}

(***************************************************************************)
(* Every usable page is in exactly one block, free or held, no page the    *)
(* firmware keeps is in any, and no block is listed twice: what is handed  *)
(* out is never handed out again, and nothing is lost in a split.          *)
(***************************************************************************)
PagesPartitioned ==
  LET blocks == FreeBlocks \cup held
      covering(p) == {b \in blocks : p \in Pages(b)}
  IN  /\ \A p \in Page : Cardinality(covering(p)) = IF p \in Usable(memoryMap) THEN 1 ELSE 0
      /\ FreeBlocks \cap held = {}
      /\ \A o \in Order : IsInjective(freeLists[o])

(***************************************************************************)
(* The bitmap and the free lists say the same: merging relies on the       *)
(* bitmap to find a free buddy, and on the lists to remove it.             *)
(***************************************************************************)
BitmapAgrees ==
  FreeBlocks = {b \in Block : LET e == bitmap[b.pfn]
                             IN  e.valid /\ e.isFree /\ e.isHead /\ e.order = b.order}

(***************************************************************************)
(* Every block is aligned to its size, so that its buddy is the other half *)
(* of a block twice as large.                                              *)
(***************************************************************************)
BlocksAligned ==
  \A b \in FreeBlocks \cup held : b.pfn % page_alloc_block_size(b.order) = 0

(***************************************************************************)
(* The page allocator's state is sound: the usable pages are divided into  *)
(* aligned blocks, and its two records of the free ones agree.             *)
(***************************************************************************)
PagesConsistent == PageTypeOK /\ PagesPartitioned /\ BitmapAgrees /\ BlocksAligned
=============================================================================
