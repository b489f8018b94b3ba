----------------------------- MODULE MCRealRuns -----------------------------
(* Model-checking instance of RealRuns: runs and calls are model values and *)
(* interchangeable.                                                         *)
EXTENDS RealRuns, TLC

Symmetry == Permutations(Runs) \cup Permutations(Calls)
=============================================================================
