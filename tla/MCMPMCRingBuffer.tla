-------------------------- MODULE MCMPMCRingBuffer --------------------------
(* The instance of MPMCRingBuffer for TLC.                                  *)
EXTENDS MPMCRingBuffer, TLC

Symmetric == Permutations(Producers) \cup Permutations(Consumers)
=============================================================================
