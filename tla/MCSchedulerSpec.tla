--------------------------- MODULE MCSchedulerSpec ---------------------------
(***************************************************************************)
(* The constants of the scheduler's runs: four processes.                  *)
(***************************************************************************)
EXTENDS SchedulerSpec

CONSTANTS u1, u2, u3, u4

MCUserThreads == {u1, u2, u3, u4}
=============================================================================
