-------------------------- MODULE MCProactiveDaemon --------------------------
(* Model-checking instance of ProactiveDaemonHistory: ticks and subjects    *)
(* are model values and interchangeable.                                    *)
EXTENDS ProactiveDaemonHistory, TLC

Symmetry == Permutations(Ticks) \cup Permutations(Subjects)
=============================================================================
