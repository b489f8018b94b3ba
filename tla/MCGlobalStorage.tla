--------------------------- MODULE MCGlobalStorage ---------------------------
(* Model-checking instance of GlobalStorage: the calls of a kind are model  *)
(* values and interchangeable.                                              *)
EXTENDS GlobalStorage, TLC

Symmetry == Permutations(Setters) \cup Permutations(Getters)
=============================================================================
