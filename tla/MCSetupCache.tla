---------------------------- MODULE MCSetupCache ----------------------------
(* Model-checking instance of SetupCache.                                  *)
EXTENDS SetupCache
=============================================================================
