---------------------------- MODULE MCThreadStore ----------------------------
(* The checked instances of ThreadStore: which callers are interchangeable. *)
EXTENDS StoreRefinement, TLC

Symmetry == Permutations(Callers)

=============================================================================
