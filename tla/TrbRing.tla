------------------------------ MODULE TrbRing -------------------------------
(***************************************************************************)
(* The rings through which kernel/drivers/pci/xhci.c and the controller    *)
(* exchange transfer request blocks (TRBs).  Nobody writes an index into a *)
(* ring: each side knows whether a block is new by its cycle bit, and both *)
(* flip the bit they expect when they pass the end.                        *)
(*                                                                         *)
(* A transfer or command ring has ring_size - 1 blocks written by the      *)
(* driver and a link block that sends the controller back to the start.    *)
(* The driver writes the link block's cycle bit only when it needs the     *)
(* first block again.  The event ring is written by the controller and has *)
(* no link block.  A pointer is written as the index of its block, which   *)
(* is also entry_count.                                                    *)
(*                                                                         *)
(* A block that was taken keeps only its cycle bit: its contents are       *)
(* overwritten before anybody looks at them again.                         *)
(***************************************************************************)
EXTENDS Naturals, Sequences, FiniteSetsExt, Functions

CONSTANTS
  RingSize,        \* ring_size of transfer and command rings: 256
  EventRingSize,   \* ring_size of the event ring: 256
  NoPage           \* no page of the controller's heap

\* A control transfer is three blocks.
ASSUME TrbRingAssumption == RingSize \in Nat /\ RingSize > 3 /\ EventRingSize \in Nat \ {0, 1}

Blocks == 0..(RingSize - 2)
EventBlocks == 0..(EventRingSize - 1)

\* What a block of zeroed memory, or one that was taken, says.
Blank == [type |-> "none", slot |-> 0, endpoint |-> 0, success |-> FALSE, page |-> NoPage]
Zeroed == [cycle |-> 0, body |-> Blank]

-----------------------------------------------------------------------------
(* The driver's side of a transfer ring.                                   *)

xhci_transfer_ring_init ==
  [trbs |-> [i \in Blocks |-> Zeroed], link |-> 1, enqueue |-> 0, cycle |-> 1]

\* A mutant: the link block keeps its cycle bit.
xhci_transfer_ring_enqueue_StaleLink(r, trb) ==
  LET full == r.enqueue >= RingSize - 1
      at == IF full THEN 0 ELSE r.enqueue
      cycle == IF full THEN 1 - r.cycle ELSE r.cycle
  IN  [trbs |-> [r.trbs EXCEPT ![at] = [cycle |-> cycle, body |-> trb]],
       link |-> r.link, enqueue |-> at + 1, cycle |-> cycle]

xhci_transfer_ring_enqueue(r, trb) ==
  LET full == r.enqueue >= RingSize - 1
      at == IF full THEN 0 ELSE r.enqueue
      cycle == IF full THEN 1 - r.cycle ELSE r.cycle
  IN  [trbs |-> [r.trbs EXCEPT ![at] = [cycle |-> cycle, body |-> trb]],
       link |-> IF full THEN r.cycle ELSE r.link, enqueue |-> at + 1, cycle |-> cycle]

-----------------------------------------------------------------------------
(* The controller's side: where it reads next, and the cycle bit it expects*)
(* there.                                                                  *)

ControllerStart == [dequeue |-> 0, cycle |-> 1]

\* The controller follows a link block whose cycle bit it expects.
FollowLink(r, c) ==
  IF c.dequeue = RingSize - 1 /\ r.link = c.cycle THEN [dequeue |-> 0, cycle |-> 1 - c.cycle] ELSE c

ControllerHasTrb(r, c) ==
  LET n == FollowLink(r, c) IN n.dequeue \in Blocks /\ r.trbs[n.dequeue].cycle = n.cycle

ControllerTrb(r, c) == r.trbs[FollowLink(r, c).dequeue].body

ControllerAdvance(r, c) == [FollowLink(r, c) EXCEPT !.dequeue = @ + 1]

\* The ring when the controller has taken its next block.
Taken(r, c) == [r EXCEPT !.trbs[FollowLink(r, c).dequeue].body = Blank]

\* The block the controller reaches after k more, and whether it takes it.
BlockAhead(r, c, k) == r.trbs[(FollowLink(r, c).dequeue + k) % (RingSize - 1)]
TakesBlockAhead(r, c, k) ==
  LET n == FollowLink(r, c)
      lap == (n.dequeue + k) \div (RingSize - 1)
  IN  /\ lap = 0 \/ (lap = 1 /\ r.link = n.cycle)
      /\ BlockAhead(r, c, k).cycle = IF lap = 0 THEN n.cycle ELSE 1 - n.cycle

\* The blocks that the controller would take if the driver wrote no more.
Pending(r, c) ==
  LET n == Max({ k \in 0..RingSize : \A i \in 0..(k - 1) : TakesBlockAhead(r, c, i) })
  IN  [k \in 1..n |-> BlockAhead(r, c, k - 1).body]

-----------------------------------------------------------------------------
(* The event ring: enqueue and produce are the controller's index and      *)
(* cycle bit.  It learns of the driver's dequeue pointer from ERDP, which  *)
(* xhci_event_ring_dequeue writes.                                         *)

xhci_event_ring_init ==
  [trbs |-> [i \in EventBlocks |-> Zeroed], dequeue |-> 0, cycle |-> 1, enqueue |-> 0, produce |-> 1]

xhci_event_ring_has_valid_trb(r) == r.trbs[r.dequeue].cycle = r.cycle

\* A mutant: the expected cycle bit is not flipped at the end of the ring.
xhci_event_ring_dequeue_SameCycle(r) ==
  [r EXCEPT !.dequeue = (@ + 1) % EventRingSize, !.trbs[r.dequeue].body = Blank]

\* The ring after an event was taken.
xhci_event_ring_dequeue(r) ==
  LET last == r.dequeue + 1 >= EventRingSize
  IN  [r EXCEPT !.dequeue = IF last THEN 0 ELSE @ + 1,
                !.cycle = IF last THEN 1 - @ ELSE @,
                !.trbs[r.dequeue].body = Blank]

EventAt(r) == r.trbs[r.dequeue].body

EventRingHasRoom(r) == (r.enqueue + 1) % EventRingSize # r.dequeue

ControllerPost(r, event) ==
  LET wrap == r.enqueue + 1 >= EventRingSize
  IN  [r EXCEPT !.trbs[r.enqueue] = [cycle |-> r.produce, body |-> event],
                !.enqueue = IF wrap THEN 0 ELSE @ + 1,
                !.produce = IF wrap THEN 1 - @ ELSE @]

\* The events the driver has not taken, oldest first.
Events(r) ==
  LET n == (r.enqueue + EventRingSize - r.dequeue) % EventRingSize
  IN  [k \in 1..n |-> r.trbs[(r.dequeue + k - 1) % EventRingSize].body]
=============================================================================
