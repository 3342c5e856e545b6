------------------------------- MODULE MCUsb --------------------------------
(***************************************************************************)
(* An instance of Usb: the machine of the repository's scripts (keyboard,  *)
(* then mouse), with enough pages, and with pages that run out in its last *)
(* transfer, endpoint, device and first request; two mice and a keyboard;  *)
(* a mouse beside a device that no driver takes.                           *)
(***************************************************************************)
EXTENDS Usb

Machine(k, n, ports, r) == [kinds |-> k, pages |-> n, portEvents |-> ports, reports |-> r]

MCMachines ==
  { Machine(<<"keyboard", "none", "mouse">>, 16, 1, 5),
    Machine(<<"keyboard", "none", "mouse">>, 14, 0, 2),
    Machine(<<"keyboard", "none", "mouse">>, 13, 0, 1),
    Machine(<<"keyboard", "none", "mouse">>, 9, 0, 0),
    Machine(<<"keyboard", "none", "mouse">>, 7, 0, 0),
    Machine(<<"mouse", "mouse", "keyboard">>, 22, 0, 3),
    Machine(<<"other", "mouse", "none">>, 16, 1, 1) }
=============================================================================
