---------------------------- MODULE BoundedFifo ----------------------------
(***************************************************************************)
(* What a ring buffer promises: a first-in first-out queue of at most      *)
(* Capacity elements.  out is the element its last dequeue delivered.      *)
(***************************************************************************)
EXTENDS Naturals, Sequences

CONSTANTS Capacity, Element, Nothing

VARIABLES queue, out

Init == queue = <<>> /\ out = Nothing

Put(x) == Len(queue) < Capacity /\ queue' = Append(queue, x) /\ UNCHANGED out

Get == queue # <<>> /\ out' = Head(queue) /\ queue' = Tail(queue)

Next == (\E x \in Element : Put(x)) \/ Get

Spec == Init /\ [][Next]_<<queue, out>>
=============================================================================
