-------------------------- MODULE MCSemanticMemory --------------------------
(* Model-checking instance of SemanticMemory: calls of a kind, and the two *)
(* workspaces, are interchangeable.                                        *)
EXTENDS SemanticMemory, TLC

Symmetry == Permutations(Stores) \cup Permutations(Removes) \cup Permutations(Workspaces)
=============================================================================
