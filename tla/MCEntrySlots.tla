---------------------------- MODULE MCEntrySlots ----------------------------
(* Instances of EntrySlots for TLC.                                        *)
EXTENDS EntrySlots, TLC

Symmetric ==
  Permutations(Io) \cup Permutations(Workers) \cup Permutations(Symbols)
=============================================================================
