------------------------ MODULE MCLifecycleExecutor ------------------------
(* The instances of LifecycleExecutor for TLC.                              *)
EXTENDS LifecycleExecutor, TLC

Symmetric == Permutations(Producers) \cup Permutations(Workers)
               \cup Permutations(Tasks)
=============================================================================
