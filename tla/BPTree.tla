------------------------------- MODULE BPTree -------------------------------
(***************************************************************************)
(* The B+ tree of src/src/bptree.c, the id index of a table.  Nodes are    *)
(* numbered in the order of their allocation; 0 is NULL.  An insert goes   *)
(* one node down or up per step, as insert_rec calls itself and returns.   *)
(* Allocations succeed: bptree.c gives up the data where they do not.      *)
(* The callers exclude each other as module Engine says.                   *)
(***************************************************************************)
EXTENDS Integers, Sequences, FiniteSets, SequencesExt

CONSTANT
    Calls           \* Calls[o]: the inserts, pairs of an id and a row number,
                    \* that a tree of order o may get

ASSUME BPTreeAssumption ==
    /\ DOMAIN Calls \subseteq Nat \ 0 .. 2
    /\ \A o \in DOMAIN Calls :
           IsFiniteSet(Calls[o]) /\ Calls[o] \subseteq Int \X Nat

Orders == DOMAIN Calls
Ids == UNION {{c[1] : c \in Calls[o]} : o \in Orders}
Rows == UNION {{c[2] : c \in Calls[o]} : o \in Orders}

VARIABLES
    order,          \* most children of a node
    node,           \* the nodes allocated so far
    root,
    pc,             \* "idle", "down" or "split": where insert_rec is
    path,           \* the nodes of its active calls, the last one innermost
    arg,            \* id and row of the insert
    key_out,        \* the promoted key, when a split is reported upwards
    split_out       \* the new right sibling

callVars == <<pc, path, arg, key_out, split_out>>
vars == <<order, node, root, callVars>>

NULL == 0
NoArg == [id |-> 0, row |-> 0]

\* vals are the row_indices of a leaf and the children of an inner node.
Leaf(keys, rows, next) ==
    [is_leaf |-> TRUE, keys |-> keys, vals |-> rows, next |-> next]

Internal(keys, children) ==
    [is_leaf |-> FALSE, keys |-> keys, vals |-> children, next |-> NULL]

Init ==
    /\ order \in Orders
    /\ node = <<Leaf(<<>>, <<>>, NULL)>>
    /\ root = 1
    /\ pc = "idle" /\ path = <<>> /\ arg = NoArg
    /\ key_out = 0 /\ split_out = NULL

-----------------------------------------------------------------------------
(* Positions in a node                                                     *)

\* Mutant: a key equal to a separator is sought on its left.
ChildIdxStrict(n, id) ==
    CHOOSE i \in 1 .. Len(n.keys) + 1 :
        /\ \A j \in 1 .. i - 1 : n.keys[j] < id
        /\ i <= Len(n.keys) => id <= n.keys[i]

\* internal_child_idx: behind the keys that are not above id.
ChildIdx(n, id) ==
    CHOOSE i \in 1 .. Len(n.keys) + 1 :
        /\ \A j \in 1 .. i - 1 : n.keys[j] <= id
        /\ i <= Len(n.keys) => id < n.keys[i]

\* Where leaf_insert_sorted stops: behind the keys below id.
LeafIdx(n, id) ==
    CHOOSE i \in 1 .. Len(n.keys) + 1 :
        /\ \A j \in 1 .. i - 1 : n.keys[j] < id
        /\ i <= Len(n.keys) => id <= n.keys[i]

\* leaf_insert_sorted: a key that is there already gets the new row.
LeafInserted(n, id, row) ==
    LET i == LeafIdx(n, id)
    IN  IF i <= Len(n.keys) /\ n.keys[i] = id
        THEN [n EXCEPT !.vals[i] = row]
        ELSE [n EXCEPT !.keys = InsertAt(@, i, id), !.vals = InsertAt(@, i, row)]

\* internal_insert_nonfull: the child goes to the right of its key.
InternalInserted(n, key, child) ==
    LET i == ChildIdx(n, key)
    IN  [n EXCEPT !.keys = InsertAt(@, i, key),
                  !.vals = InsertAt(@, i + 1, child)]

-----------------------------------------------------------------------------
(* Splits                                                                  *)

\* Mutant: one key more than the node has room for.
OverflowsLate(n) == Len(n.keys) > order

\* insert_rec: the spare slot is used up.
Overflows(n) == Len(n.keys) >= order

\* Mutant: all but one key stay on the left.
MidHigh == order - 1

Mid == order \div 2

\* split_leaf: both halves keep rows, and the right one is linked in.
LeftLeaf(n, right) ==
    Leaf(SubSeq(n.keys, 1, Mid), SubSeq(n.vals, 1, Mid), right)

\* Mutant: the first key of the right half is taken for promoted.
RightLeafWithoutFirst(n) ==
    Leaf(SubSeq(n.keys, Mid + 2, order), SubSeq(n.vals, Mid + 2, order), n.next)

RightLeaf(n) ==
    Leaf(SubSeq(n.keys, Mid + 1, order), SubSeq(n.vals, Mid + 1, order), n.next)

\* Mutant: the promoted key and its child stay on the left as well.
LeftInternalKeepsMid(n) ==
    Internal(SubSeq(n.keys, 1, Mid + 1), SubSeq(n.vals, 1, Mid + 2))

\* split_internal: the middle key moves up and stays in neither half.
LeftInternal(n) == Internal(SubSeq(n.keys, 1, Mid), SubSeq(n.vals, 1, Mid + 1))

RightInternal(n) ==
    Internal(SubSeq(n.keys, Mid + 2, order), SubSeq(n.vals, Mid + 2, order + 1))

-----------------------------------------------------------------------------
(* bptree_insert                                                           *)

Insert(id, row) ==
    /\ pc = "idle"
    /\ pc' = "down"
    /\ path' = <<root>>
    /\ arg' = [id |-> id, row |-> row]
    /\ UNCHANGED <<order, node, root, key_out, split_out>>

Here == Last(path)

\* insert_rec in an inner node calls itself for one child.
Descend ==
    /\ pc = "down"
    /\ ~node[Here].is_leaf
    /\ path' = Append(path, node[Here].vals[ChildIdx(node[Here], arg.id)])
    /\ UNCHANGED <<order, node, root, pc, arg, key_out, split_out>>

Return ==
    /\ pc' = "idle" /\ path' = <<>> /\ arg' = NoArg
    /\ key_out' = 0 /\ split_out' = NULL

\* Node n becomes left and a new node right, which the caller will insert.
Split(n, left, right, key) ==
    /\ node' = Append([node EXCEPT ![n] = left], right)
    /\ split_out' = Len(node) + 1
    /\ key_out' = key
    /\ pc' = "split"
    /\ path' = Front(path)
    /\ UNCHANGED arg

\* insert_rec in a leaf.
InsertLeaf ==
    LET n == LeafInserted(node[Here], arg.id, arg.row)
    IN  /\ pc = "down"
        /\ node[Here].is_leaf
        /\ IF Overflows(n)
           THEN Split(Here, LeftLeaf(n, Len(node) + 1), RightLeaf(n),
                      RightLeaf(n).keys[1])
           ELSE node' = [node EXCEPT ![Here] = n] /\ Return
        /\ UNCHANGED <<order, root>>

\* insert_rec in an inner node after its child was split.
InsertInternal ==
    LET n == InternalInserted(node[Here], key_out, split_out)
    IN  /\ pc = "split"
        /\ path # <<>>
        /\ IF Overflows(n)
           THEN Split(Here, LeftInternal(n), RightInternal(n), n.keys[Mid + 1])
           ELSE node' = [node EXCEPT ![Here] = n] /\ Return
        /\ UNCHANGED <<order, root>>

\* The root was split: bptree_insert puts a new one above both halves.
GrowRoot ==
    /\ pc = "split"
    /\ path = <<>>
    /\ node' = Append(node, Internal(<<key_out>>, <<root, split_out>>))
    /\ root' = Len(node) + 1
    /\ Return
    /\ UNCHANGED order

\* index_registry_destroy_all, and the tree of the next insert.
Recreate ==
    /\ pc = "idle"
    /\ node' = <<Leaf(<<>>, <<>>, NULL)>>
    /\ root' = 1
    /\ UNCHANGED <<order, callVars>>

Next ==
    \/ \E c \in Calls[order] : Insert(c[1], c[2])
    \/ Descend
    \/ InsertLeaf
    \/ InsertInternal
    \/ GrowRoot
    \/ Recreate

Spec == Init /\ [][Next]_vars

-----------------------------------------------------------------------------
(* bptree_search and bptree_range                                          *)

\* The leaf in which id would be.
LeafOf(id) ==
    LET down[n \in DOMAIN node] ==
            IF node[n].is_leaf THEN n
            ELSE down[node[n].vals[ChildIdx(node[n], id)]]
    IN  down[root]

\* The row of id, or -1.
Search(id) ==
    LET n == node[LeafOf(id)]
        hits == {i \in DOMAIN n.keys : n.keys[i] = id}
    IN  IF hits = {} THEN -1
        ELSE n.vals[CHOOSE i \in hits : \A j \in hits : i <= j]

\* Mutant: the scan ends with the leaf it began in.
CollectOneLeaf(from, to) ==
    LET n == node[LeafOf(from)]
    IN  [k \in 1 .. Cardinality({i \in DOMAIN n.keys : n.keys[i] \in from .. to})
            |-> n.vals[LeafIdx(n, from) + k - 1]]

\* The rows of a leaf and its successors with ids in from .. to, until a
\* larger id is met.  The keys of a leaf are in order, so the ones wanted are
\* neighbours.
Collect(from, to) ==
    LET along[n \in {NULL} \cup DOMAIN node] ==
            IF n = NULL THEN <<>>
            ELSE SubSeq(node[n].vals, LeafIdx(node[n], from),
                        LeafIdx(node[n], to + 1) - 1)
                 \o (IF \E i \in DOMAIN node[n].keys : node[n].keys[i] > to
                     THEN <<>> ELSE along[node[n].next])
    IN  along[LeafOf(from)]

\* At most max_out rows; none for an empty range.
RowsInRange(from, to, max_out) ==
    LET all == Collect(from, to)
    IN  IF max_out <= 0 \/ from > to THEN <<>>
        ELSE SubSeq(all, 1, Min({Len(all), max_out}))

-----------------------------------------------------------------------------
(* Correctness                                                             *)

\* The leftmost leaf and all its successors.
Chain ==
    LET first[n \in DOMAIN node] ==
            IF node[n].is_leaf THEN n ELSE first[node[n].vals[1]]
        from[n \in {NULL} \cup DOMAIN node] ==
            IF n = NULL THEN {} ELSE {n} \cup from[node[n].next]
    IN  from[first[root]]

\* The entries of the leaves in the chain, as a set of pairs.
Entries ==
    UNION {{<<node[n].keys[i], node[n].vals[i]>> : i \in DOMAIN node[n].keys} :
              n \in Chain}

\* The map the chain of leaves holds.
Contents ==
    [id \in {e[1] : e \in Entries} |->
        (CHOOSE e \in Entries : e[1] = id)[2]]

\* Between calls no node has used the spare slot of its arrays.
TypeOK ==
    /\ order \in Orders
    /\ root \in DOMAIN node
    /\ pc \in {"idle", "down", "split"}
    /\ path \in Seq(DOMAIN node)
    /\ split_out \in {NULL} \cup DOMAIN node
    /\ key_out \in Ids \cup {0}
    /\ arg \in [id : Ids, row : Rows] \cup {NoArg}
    /\ \A n \in DOMAIN node :
           /\ Len(node[n].keys) < order
           /\ \A i \in DOMAIN node[n].keys : node[n].keys[i] \in Ids
           /\ node[n].is_leaf =>
                  /\ node[n].vals \in [DOMAIN node[n].keys -> Rows]
                  /\ node[n].next \in {NULL} \cup DOMAIN node
           /\ ~node[n].is_leaf =>
                  node[n].vals \in [1 .. Len(node[n].keys) + 1 -> DOMAIN node]

\* bptree_search, which goes down by the separators, agrees with the leaves
\* whatever splits happened on the way.
SearchExact ==
    pc = "idle" =>
        \A id \in Ids :
            Search(id) = IF id \in DOMAIN Contents THEN Contents[id] ELSE -1

\* bptree_range returns the rows of the ids asked for, in the order of the
\* ids, each once and across leaf borders, and stops at max_out.
RangeExact ==
    LET map == Contents
        ids(from, to) == DOMAIN map \cap from .. to
        rank(id, S) == Cardinality({i \in S : i <= id})
        sorted(S) == [k \in 1 .. Cardinality(S) |->
                         map[CHOOSE id \in S : rank(id, S) = k]]
    IN  pc = "idle" =>
            \A from, to \in Ids :
                LET rows == sorted(ids(from, to))
                IN  \A max_out \in 0 .. Cardinality(Ids) :
                        RowsInRange(from, to, max_out) =
                            SubSeq(rows, 1, Min({Len(rows), max_out}))

\* What storage asks of the tree between inserts.
LookupsExact == SearchExact /\ RangeExact

\* The places that hold a pointer to n.
Parents(n) ==
    {s \in (DOMAIN node) \X (1 .. order) :
        /\ ~node[s[1]].is_leaf
        /\ s[2] \in DOMAIN node[s[1]].vals
        /\ node[s[1]].vals[s[2]] = n}

\* Splits keep the tree in shape: the nodes fit their arrays (TypeOK), the
\* leaves have one depth, every node but the root is as full as a split leaves
\* it, and node_free, which follows children only, frees every node once:
\* none is left behind or given to two parents.
Balanced ==
    LET height[n \in DOMAIN node] ==
            IF node[n].is_leaf THEN 0 ELSE 1 + height[node[n].vals[1]]
    IN  /\ TypeOK
        /\ pc = "idle" =>
               \A n \in DOMAIN node :
                   /\ n # root => Len(node[n].keys) >= (order - 1) \div 2
                   /\ ~node[n].is_leaf =>
                          \A i \in DOMAIN node[n].vals :
                              height[node[n].vals[i]] = height[n] - 1
                   /\ Cardinality(Parents(n)) = IF n = root THEN 0 ELSE 1

\* The tree is the map of bptree.h: no split loses, revives or moves an
\* entry, also while an insert is on its way up.
Index == INSTANCE IdIndex WITH index <- Contents
ServesIndex == Index!Spec

=============================================================================
