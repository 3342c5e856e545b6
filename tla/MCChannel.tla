------------------------------ MODULE MCChannel ------------------------------
(***************************************************************************)
(* The processes and the path of the channel runs.                         *)
(***************************************************************************)
EXTENDS Channel

CONSTANTS p1, u1, u2, u3
=============================================================================
