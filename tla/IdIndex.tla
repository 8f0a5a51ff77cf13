------------------------------ MODULE IdIndex ------------------------------
(***************************************************************************)
(* What the B+ tree of src/include/bptree.h promises its callers: a map    *)
(* from ids to row numbers in which the later insert of an id wins.        *)
(***************************************************************************)

CONSTANTS Ids, Rows

VARIABLE index

Init == index = [i \in {} |-> 0]

Put(id, row) ==
    index' = [i \in DOMAIN index \cup {id} |-> IF i = id THEN row ELSE index[i]]

\* bptree_destroy and bptree_create
Clear == index' = [i \in {} |-> 0]

Next == (\E id \in Ids, row \in Rows : Put(id, row)) \/ Clear

Spec == Init /\ [][Next]_index

=============================================================================
