--------------------------- MODULE RingBufferSpec ---------------------------
(***************************************************************************)
(* One ring buffer and its callers: enqueues and dequeues in any order,    *)
(* each of which fails (and changes nothing) on a full or an empty ring.   *)
(***************************************************************************)
EXTENDS RingBuffer

VARIABLES
  ring,       \* the ring_buffer_t and the memory it manages
  out         \* what the last successful dequeue copied out

ringVars == <<ring, out>>

RingInit == ring = ring_buffer_init /\ out = NoData

Enqueue(d) ==
  /\ ~ring_buffer_is_full(ring)
  /\ ring' = ring_buffer_enqueue(ring, d)
  /\ UNCHANGED out

Dequeue ==
  /\ ~ring_buffer_is_empty(ring)
  /\ out' = ring_buffer_peek(ring)
  /\ ring' = ring_buffer_dequeue(ring)

RingNext == (\E d \in Data : Enqueue(d)) \/ Dequeue

RingSpec == RingInit /\ [][RingNext]_ringVars

-----------------------------------------------------------------------------
(***************************************************************************)
(* The ring is well-formed whatever its callers do: the pointers stay in   *)
(* the buffer, they are usedCount apart (the only thing that tells a full  *)
(* ring from an empty one), and what lies between them was written.  It is *)
(* inductive.                                                              *)
(***************************************************************************)
RingOK == ring \in Ring /\ out \in Data \cup {NoData} /\ RingConsistent(ring)

Queue == INSTANCE BoundedFifo
           WITH Capacity <- RingSize, Element <- Data, Nothing <- NoData,
                queue <- Contents(ring)

(***************************************************************************)
(* The ring buffer is a bounded FIFO queue: nothing is lost, duplicated,   *)
(* reordered or overwritten, also where the pointers wrap around.          *)
(***************************************************************************)
ImplementsFifo == Queue!Spec
=============================================================================
