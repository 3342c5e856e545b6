-------------------------------- MODULE Heap --------------------------------
(***************************************************************************)
(* What malloc and free promise: memory that is handed out does not        *)
(* overlap other memory that is still held, and does not go away.          *)
(***************************************************************************)
EXTENDS Integers

VARIABLES
  memory,   \* the addresses that are mapped
  live      \* the regions callers hold: [at, size]

Region(r) == r.at..(r.at + r.size - 1)

Init == live = {}

\* A region of mapped memory that no caller holds.
Malloc ==
  \E r \in live' :
    /\ r \notin live
    /\ live' = live \cup {r}
    /\ Region(r) \subseteq memory'
    /\ \A s \in live : s.at # r.at /\ Region(s) \cap Region(r) = {}

Free == \E r \in live : live' = live \ {r}

Next == memory \subseteq memory' /\ (Malloc \/ Free \/ UNCHANGED live)

Spec == Init /\ [][Next]_<<memory, live>>
=============================================================================
