---------------------------- MODULE MCMemoryStore ----------------------------
(* A small instance of MemoryStore: two writers, three rows (one seeded     *)
(* without a hash) and three contents.                                      *)
EXTENDS MemoryStore, TLC

Symmetry == Permutations(Writers) \cup Permutations(Hashes)
=============================================================================
