----------------------------- MODULE LineEditor -----------------------------
(***************************************************************************)
(* What a text input promises: the text before and after a cursor, edited  *)
(* by inserting a character, deleting backwards and moving the cursor.     *)
(***************************************************************************)
EXTENDS Naturals, Sequences, SequencesExt

CONSTANT Character

VARIABLES before, after

Init == before = <<>> /\ after = <<>>

Insert(c) == before' = Append(before, c) /\ UNCHANGED after

Backspace == before # <<>> /\ before' = Front(before) /\ UNCHANGED after

Left == before # <<>> /\ before' = Front(before) /\ after' = <<Last(before)>> \o after

Right == after # <<>> /\ before' = Append(before, Head(after)) /\ after' = Tail(after)

Next == (\E c \in Character : Insert(c)) \/ Backspace \/ Left \/ Right

Spec == Init /\ [][Next]_<<before, after>>
=============================================================================
