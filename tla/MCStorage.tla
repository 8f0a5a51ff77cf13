------------------------------ MODULE MCStorage ------------------------------
(* The storage layer on small instances.                                   *)
EXTENDS Storage, TLC

\* INSERTs that bring the id 1 or something that is no number.
AnyUserIds == {1, Garbled}

\* Tables differ in name only.
TableSymmetry == Permutations(Tables)

=============================================================================
