----------------------------- MODULE MCTaskStore -----------------------------
(* Model-checking instance of TaskStoreHistory: tasks and calls are model   *)
(* values and interchangeable.                                              *)
EXTENDS TaskStoreHistory, TLC

Symmetry == Permutations(Tasks) \cup Permutations(Calls)
=============================================================================
