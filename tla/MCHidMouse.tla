----------------------------- MODULE MCHidMouse -----------------------------
(***************************************************************************)
(* The motions of the mouse runs: right, and left and down.               *)
(***************************************************************************)
EXTENDS HidMouse

MCDeltas == {<<1, 0>>, <<-1, 1>>}
=============================================================================
