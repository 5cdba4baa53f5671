------------------------------ MODULE MCBridge ------------------------------
(***************************************************************************)
(* Model-checking instance of Bridge.                                      *)
(***************************************************************************)
EXTENDS Bridge
=============================================================================
