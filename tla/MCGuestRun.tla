----------------------------- MODULE MCGuestRun -----------------------------
(* The two background flows of the topology of the thesis.                 *)
EXTENDS GuestRun

TwoPorts == <<5201, 5202>>
=============================================================================
