----------------------------- MODULE MCAnalyses -----------------------------
(***************************************************************************)
(* Small inputs: two cells along one axis, tiles of four Gaussians in four *)
(* layers, of which the last takes most, in objects of two, and parts of   *)
(* two read three at a time.                                               *)
(***************************************************************************)
EXTENDS Analyses

MCGrid == <<1, 1, 2>>
MCFractions == <<1, 1, 1, 9>>
Minus == -9
=============================================================================
