----------------------------- MODULE MCHostRun -----------------------------
(* The launcher as it is: HostRun has no constant that needs a definition. *)
EXTENDS HostRun
=============================================================================
