------------------------------ MODULE MCBPTree ------------------------------
(* The B+ tree with enough ids for inner nodes to split: five leaves of an *)
(* order of 4 take ten.  Each id has its row number, and one comes again.  *)
EXTENDS BPTree

Upto(n) == {<<i, i>> : i \in 1 .. n} \cup {<<3, 0>>}

SmallCalls == 3 :> Upto(7) @@ 4 :> Upto(10)

=============================================================================
