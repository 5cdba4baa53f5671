-------------------------- MODULE MCSidecarFetches --------------------------
(***************************************************************************)
(* Model-checking instance of SidecarFetches.                              *)
(***************************************************************************)
EXTENDS SidecarFetches
=============================================================================
