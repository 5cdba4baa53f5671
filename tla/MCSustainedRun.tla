--------------------------- MODULE MCSustainedRun ---------------------------
(* The launcher as it is: no constant that needs a definition.             *)
EXTENDS SustainedRun
=============================================================================
