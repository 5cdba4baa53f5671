----------------------------- MODULE MCPublisher -----------------------------
(* A manifest of two published tracks, one of two objects and one of one,  *)
(* next to a refinement without objects and one that names another scene.  *)
EXTENDS Publisher

MCRefinements ==
    << [named |-> TRUE, objects |-> 2], [named |-> TRUE, objects |-> 0],
       [named |-> FALSE, objects |-> 1], [named |-> TRUE, objects |-> 1] >>
=============================================================================
