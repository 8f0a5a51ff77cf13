------------------------------- MODULE Routes -------------------------------
(***************************************************************************)
(* How a SELECT finds its rows: by the id index or by a scan.  The choice  *)
(* is coded three times: execute_select and engine_explain of engine.c,    *)
(* and execute of executor.c.  An answer is the sequence of row numbers    *)
(* before ORDER BY and LIMIT; a failure is {}, as in module Query.  The    *)
(* route by the trie is in module Dictionary.                              *)
(***************************************************************************)
EXTENDS Query

\* parse_int_literal.
IntLiteral(s) ==
    LET t == Trim(StripQuotes(s))
    IN  IF IsNumber(t) THEN {AtoI(t)} ELSE {}

\* should_use_id_index and should_use_id_range.
UsesIdIndex(sql) ==
    Len(sql.where) = 1 /\ sql.where[1].column = <<"id">> /\ sql.where[1].op = <<"=">>

UsesIdRange(sql) ==
    Len(sql.where) = 1 /\ sql.where[1].column = <<"id">> /\ sql.where[1].op = <<"BETWEEN">>

\* Mutant: reversed bounds stay reversed.
BoundsAsGiven(clause) == IntLiteral(clause.value) \X IntLiteral(clause.value_to)

\* parse_between_bounds: reversed bounds are swapped.
Bounds(clause) ==
    {<<Min({from, to}), Max({from, to})>> :
        from \in IntLiteral(clause.value), to \in IntLiteral(clause.value_to)}

-----------------------------------------------------------------------------
(* The rows                                                                *)

\* The tree that storage_ensure_index fills: positive ids, the last row of
\* each.  {} when the registry has none for the table.
IdTree(schema, rows) ==
    LET c == SchemaIndex(schema, <<"id">>)
        id == [k \in DOMAIN rows |-> AtoI(rows[k][c])]
    IN  [i \in {id[k] : k \in DOMAIN id} \cap 1 .. Max(Range(id) \cup {0}) |->
            Max({k \in DOMAIN id : id[k] = i})]

\* bptree_search, bptree_range.
SearchRow(tree, id) == IF id \in DOMAIN tree THEN <<tree[id]>> ELSE <<>>

RangeRows(tree, lo, hi) ==
    LET ids == SetToSortSeq({i \in DOMAIN tree : lo <= i /\ i <= hi}, <)
    IN  [k \in DOMAIN ids |-> tree[ids[k]]]

\* storage_select_result: the scan, on which BETWEEN is no operator.
Scan(schema, rows, sql) ==
    LET match == [k \in DOMAIN rows |-> RowMatches(schema, rows[k], sql)]
    IN  IF \/ \E k \in DOMAIN match : match[k] = {}
           \/ \E k \in DOMAIN sql.where : SchemaIndex(schema, sql.where[k].column) = 0
        THEN {}
        ELSE {SelectSeq([k \in DOMAIN rows |-> k], LAMBDA k : TRUE \in match[k])}

-----------------------------------------------------------------------------
(* The three choices; trees is {tree} or {}                                *)

\* execute_select.
ByIndex(trees, sql) ==
    IF UsesIdRange(sql)
    THEN {RangeRows(tree, b[1], b[2]) : tree \in trees, b \in Bounds(sql.where[1])}
    ELSE IF UsesIdIndex(sql)
    THEN {SearchRow(tree, id) : tree \in trees, id \in IntLiteral(sql.where[1].value)}
    ELSE {}

ExecuteSelect(schema, rows, trees, sql) ==
    IF ByIndex(trees, sql) # {} THEN ByIndex(trees, sql) ELSE Scan(schema, rows, sql)

\* executor_try_range_select and executor_try_indexed_select: {} is -1.
TryRangeSelect(trees, sql) ==
    IF ~UsesIdRange(sql) \/ Bounds(sql.where[1]) = {} THEN {}
    ELSE {RangeRows(tree, b[1], b[2]) : tree \in trees, b \in Bounds(sql.where[1])}

\* Mutant: any condition on the id counts as '='.
TryIndexedSelectAny(trees, sql) ==
    IF sql.where = <<>> \/ sql.where[1].column # <<"id">> THEN {}
    ELSE {SearchRow(tree, id) : tree \in trees, id \in IntLiteral(sql.where[1].value)}

TryIndexedSelect(trees, sql) ==
    IF ~UsesIdIndex(sql) \/ IntLiteral(sql.where[1].value) = {} THEN {}
    ELSE {SearchRow(tree, id) : tree \in trees, id \in IntLiteral(sql.where[1].value)}

\* execute, of executor.c.
Execute(schema, rows, trees, sql) ==
    LET range == TryRangeSelect(trees, sql)
        indexed == TryIndexedSelect(trees, sql)
    IN  IF range # {} THEN range
        ELSE IF indexed # {} THEN indexed
        ELSE Scan(schema, rows, sql)

\* engine_explain: neither the tree nor the literals are looked at.
Explain(sql) ==
    IF UsesIdRange(sql) THEN "BPTREE_RANGE_SCAN"
    ELSE IF UsesIdIndex(sql) THEN "BPTREE_POINT_LOOKUP"
    ELSE "FULL_SCAN"

=============================================================================
