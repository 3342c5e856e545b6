----------------------------- MODULE RingBuffer -----------------------------
(***************************************************************************)
(* kernel/utils/ring_buffer.c (libraries/libcommon/ring_buffer.c is the    *)
(* same code): a ring of RingSize elements with an enqueue pointer, a      *)
(* dequeue pointer and a count of used elements.  A pointer is written as  *)
(* the index of the element it points to, (ptr - base_address) /           *)
(* data_size; an element is one Data value.                                *)
(***************************************************************************)
EXTENDS Naturals, Sequences

CONSTANTS
  RingSize,   \* ring_size: 200 for an input file
  Data,       \* the elements
  NoData      \* an element of the buffer that was never written

ASSUME RingAssumption == RingSize \in Nat \ {0} /\ NoData \notin Data

Slot == 0..(RingSize - 1)

Ring == [enqueuePtr : Slot, dequeuePtr : Slot, usedCount : 0..RingSize,
         slots : [Slot -> Data \cup {NoData}]]

ring_buffer_init ==
  [enqueuePtr |-> 0, dequeuePtr |-> 0, usedCount |-> 0, slots |-> [i \in Slot |-> NoData]]

ring_buffer_is_empty(r) == r.usedCount = 0

ring_buffer_is_full(r) == r.usedCount = RingSize

ring_buffer_advance_ptr(p) == IF p + 1 >= RingSize THEN 0 ELSE p + 1

\* The ring after a successful ring_buffer_enqueue (it fails when full).
ring_buffer_enqueue(r, data) ==
  [enqueuePtr |-> ring_buffer_advance_ptr(r.enqueuePtr), dequeuePtr |-> r.dequeuePtr,
   usedCount |-> r.usedCount + 1, slots |-> [r.slots EXCEPT ![r.enqueuePtr] = data]]

\* A mutant of ring_buffer_peek: it reads after the pointer has moved on.
ring_buffer_peek_Advanced(r) == r.slots[ring_buffer_advance_ptr(r.dequeuePtr)]

\* What ring_buffer_dequeue and ring_buffer_peek copy out ...
ring_buffer_peek(r) == r.slots[r.dequeuePtr]

\* ... and the ring after a successful ring_buffer_dequeue (it fails when
\* empty).
ring_buffer_dequeue(r) ==
  [enqueuePtr |-> r.enqueuePtr, dequeuePtr |-> ring_buffer_advance_ptr(r.dequeuePtr),
   usedCount |-> r.usedCount - 1, slots |-> r.slots]

-----------------------------------------------------------------------------
\* The index i elements after p, for i <= RingSize.
Ahead(p, i) == IF p + i >= RingSize THEN p + i - RingSize ELSE p + i

\* The elements in the ring, oldest first.
Contents(r) == [i \in 1..r.usedCount |-> r.slots[Ahead(r.dequeuePtr, i - 1)]]

\* The pointers and the count agree, and the used elements were written.
RingConsistent(r) ==
  /\ r.enqueuePtr = Ahead(r.dequeuePtr, r.usedCount)
  /\ \A i \in 1..r.usedCount : r.slots[Ahead(r.dequeuePtr, i - 1)] \in Data
=============================================================================
