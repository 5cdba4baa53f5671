-------------------------- MODULE MCSidecarOutput --------------------------
(***************************************************************************)
(* Model-checking instance of SidecarOutput.                               *)
(***************************************************************************)
EXTENDS SidecarOutput
=============================================================================
