---------------------------- MODULE MCDictService ----------------------------
(* The dictionary endpoints on small instances.                            *)
EXTENDS DictService, TLC

\* Threads differ in name only, and so do words.
DictSymmetry == Permutations(Threads) \cup Permutations(Words)

=============================================================================
