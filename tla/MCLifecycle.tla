----------------------------- MODULE MCLifecycle -----------------------------
(* Model-checking instance of Lifecycle: runs and wait calls are model      *)
(* values and interchangeable.                                              *)
EXTENDS Lifecycle, TLC

Symmetry == Permutations(Runs) \cup Permutations(Waits)
=============================================================================
