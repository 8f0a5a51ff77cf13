------------------------------- MODULE Query --------------------------------
(***************************************************************************)
(* What src/src/storage.c does with the rows of one table: the conditions  *)
(* of WHERE, LIKE, ORDER BY and the aggregates, the row that INSERT builds *)
(* and the one that UPDATE changes.                                        *)
(*                                                                         *)
(* A cell and a literal are texts, as in module SqlText; numbers have no   *)
(* fraction, so INT and FLOAT read alike.  A schema is a sequence of       *)
(* [name, type].  A result that may fail is a set: {x}, or {} for -1.      *)
(***************************************************************************)
EXTENDS SqlFormat

Ops == {<<"=">>, <<"!", "=">>, <<">">>, <<"<">>, <<">", "=">>, <<"<", "=">>, <<"LIKE">>}

\* find_schema_index: 0 for none.
SchemaIndex(schema, name) == SelectInSeq(schema, LAMBDA c : c.name = name)

-----------------------------------------------------------------------------
(* Reading and comparing texts                                             *)

\* parse_long_value and parse_double_value take the whole text or nothing.
IsNumber(s) ==
    /\ Unsigned(s) <= Len(s)
    /\ \A k \in Unsigned(s) .. Len(s) : s[k] \in DOMAIN DigitValue

BooleanOf(s) ==
    IF s \in {<<"true">>, <<"1">>} THEN 1
    ELSE IF s \in {<<"false">>, <<"0">>} THEN 0
    ELSE -1

\* strcmp, for the symbols that cells are made of.
SymbolOrder ==
    <<"%", "-", "0", "01", "1", "12", "13", "2", "2024", "2025", "31", "a", "b">>

StrCmp(s, t) ==
    LET rank(c) == SelectInSeq(SymbolOrder, LAMBDA d : d = c)
        diff == {k \in DOMAIN s \cap DOMAIN t : s[k] # t[k]}
    IN  IF diff # {} THEN rank(s[Min(diff)]) - rank(t[Min(diff)])
        ELSE Len(s) - Len(t)

\* validate_literal_for_type, and what a cell of the type must be to compare.
Readable(type, s) ==
    CASE type \in {"INT", "FLOAT"} -> IsNumber(s)
      [] type = "BOOLEAN" -> BooleanOf(s) # -1
      [] OTHER -> TRUE

\* validate_date_text: yyyy-mm-dd, a symbol each; "13" is no month.
IsDate(s) ==
    /\ Len(s) = 5 /\ s[2] = "-" /\ s[4] = "-"
    /\ s[1] \in {"2024", "2025"}
    /\ s[3] \in {"01", "12"}
    /\ s[5] \in {"01", "12", "13", "31"}

\* Mutant: UPDATE does not check numbers.
UpdateValueUnchecked(type, s) == type = "DATE" => IsDate(s)

\* validate_update_value_for_type.
UpdateValueOk(type, s) == Readable(type, s) /\ (type = "DATE" => IsDate(s))

\* Mutant: dates are read as numbers, which ends at the first '-'.
CompareByNumber(type, s, t) ==
    CASE type \in {"INT", "FLOAT", "DATE"} -> AtoI(s) - AtoI(t)
      [] type = "BOOLEAN" -> BooleanOf(s) - BooleanOf(t)
      [] OTHER -> StrCmp(s, t)

\* Below, at or above 0, of two readable texts.
Compare(type, s, t) ==
    CASE type \in {"INT", "FLOAT"} -> AtoI(s) - AtoI(t)
      [] type = "BOOLEAN" -> BooleanOf(s) - BooleanOf(t)
      [] OTHER -> StrCmp(s, t)

\* Mutant: a run of '%' takes one character at least.
LikeGreedy(text, pattern) ==
    LET from[i \in 1 .. Len(text) + 1, j \in 1 .. Len(pattern) + 1] ==
            IF j > Len(pattern) THEN i > Len(text)
            ELSE IF pattern[j] = "%"
            THEN \E k \in i + 1 .. Len(text) + 1 : from[k, j + 1]
            ELSE /\ i <= Len(text)
                 /\ pattern[j] \in {"_", text[i]}
                 /\ from[i + 1, j + 1]
    IN  from[1, 1]

\* like_match: '%' tries every rest of the text in turn, the empty one last.
LikeMatch(text, pattern) ==
    LET from[i \in 1 .. Len(text) + 1, j \in 1 .. Len(pattern) + 1] ==
            IF j > Len(pattern) THEN i > Len(text)
            ELSE IF pattern[j] = "%"
            THEN \E k \in i .. Len(text) + 1 : from[k, j + 1]
            ELSE /\ i <= Len(text)
                 /\ pattern[j] \in {"_", text[i]}
                 /\ from[i + 1, j + 1]
    IN  from[1, 1]

\* compare_ordering_result.
Holds(cmp, op) ==
    CASE op = <<"=">> -> cmp = 0
      [] op = <<"!", "=">> -> cmp # 0
      [] op = <<">">> -> cmp > 0
      [] op = <<"<">> -> cmp < 0
      [] op = <<">", "=">> -> cmp >= 0
      [] op = <<"<", "=">> -> cmp <= 0

\* is_supported_operator and is_supported_operator_for_type.
OpAllowed(type, op) ==
    /\ op \in Ops
    /\ type \in {"INT", "FLOAT", "BOOLEAN", "DATE"} => op # <<"LIKE">>
    /\ type = "DATETIME" => op \in {<<"=">>, <<"!", "=">>}

-----------------------------------------------------------------------------
(* WHERE                                                                   *)

\* strip_optional_quotes.
StripQuotes(s) ==
    IF Len(s) >= 2 /\ s[1] = s[Len(s)] /\ s[1] \in Quotes THEN SubSeq(s, 2, Len(s) - 1)
    ELSE s

\* What a clause needs of the schema, before any row is read.
ClauseOk(schema, clause, literal) ==
    LET c == SchemaIndex(schema, clause.column)
    IN  /\ c # 0
        /\ OpAllowed(schema[c].type, clause.op)
        /\ Readable(schema[c].type, literal)

\* Mutant: only the first clause is checked.
WhereFirstOk(schema, sql) ==
    sql.where # <<>> => ClauseOk(schema, sql.where[1], sql.where[1].value)

\* validate_delete_clause, of DELETE and UPDATE: quotes within the literal are
\* not stripped here.
WhereOk(schema, sql) ==
    \A k \in DOMAIN sql.where : ClauseOk(schema, sql.where[k], sql.where[k].value)

\* evaluate_select_clause with compare_value_by_type.
EvaluateClause(schema, row, clause) ==
    LET c == SchemaIndex(schema, clause.column)
        literal == StripQuotes(clause.value)
        type == schema[c].type
    IN  IF ~ClauseOk(schema, clause, literal) THEN {}
        ELSE IF ~Readable(type, row[c]) THEN {}
        ELSE IF clause.op = <<"LIKE">> THEN {LikeMatch(row[c], literal)}
        ELSE {Holds(Compare(type, row[c], literal), clause.op)}

\* resolve_where_link.
ResolveWhereLink(sql, k) == WhereLinkAt(sql, k)

\* Mutant: AND and OR bind alike, from left to right.
JoinLeftToRight(so, link, value) ==
    [so EXCEPT !.group = IF link = "AND" THEN @ /\ value ELSE @ \/ value]

\* A group of conditions joined by AND ends at each OR.
Join(so, link, value) ==
    IF link = "AND" THEN [so EXCEPT !.group = @ /\ value]
    ELSE [group |-> value, out |-> so.out \/ so.group]

\* row_matches_delete, of SELECT, DELETE and UPDATE: every condition is
\* evaluated, and one that fails fails the statement.
RowMatches(schema, row, sql) ==
    LET result == [k \in DOMAIN sql.where |-> EvaluateClause(schema, row, sql.where[k])]
        upto[k \in DOMAIN sql.where] ==
            IF k = 1 THEN [group |-> TRUE \in result[1], out |-> FALSE]
            ELSE Join(upto[k - 1], ResolveWhereLink(sql, k - 1), TRUE \in result[k])
        last == upto[Len(sql.where)]
    IN  IF sql.where = <<>> THEN {TRUE}
        ELSE IF \E k \in DOMAIN result : result[k] = {} THEN {}
        ELSE {last.out \/ last.group}

-----------------------------------------------------------------------------
(* ORDER BY, MIN and MAX                                                   *)

\* compare_cells_by_type; cells that do not read as the type compare as text.
CompareCells(type, s, t) ==
    LET l == StripQuotes(s)  r == StripQuotes(t)
    IN  IF Readable(type, l) /\ Readable(type, r) THEN Compare(type, l, r) ELSE StrCmp(s, t)

Swap(s, i, j) == [s EXCEPT ![i] = s[j], ![j] = s[i]]

\* Mutant: the last cell is not compared.
SortShort(type, sign, cells) ==
    LET n == Len(cells)
        pass(s, i) == FoldLeft(LAMBDA u, j :
                          IF j > i /\ sign * CompareCells(type, u[i], u[j]) > 0
                          THEN Swap(u, i, j) ELSE u, s, [j \in 1 .. n - 1 |-> j])
    IN  FoldLeft(pass, cells, [i \in 1 .. n |-> i])

\* sort_selection: each place takes the least of the cells behind it; sign is
\* -1 for DESC.
SortSelection(type, sign, cells) ==
    LET n == Len(cells)
        pass(s, i) == FoldLeft(LAMBDA u, j :
                          IF j > i /\ sign * CompareCells(type, u[i], u[j]) > 0
                          THEN Swap(u, i, j) ELSE u, s, [j \in 1 .. n |-> j])
    IN  FoldLeft(pass, cells, [i \in 1 .. n |-> i])

\* evaluate_aggregate for MIN (sign 1) and MAX (sign -1).
Extreme(type, sign, cells) ==
    FoldLeft(LAMBDA best, cur :
                 IF sign * CompareCells(type, cur, best) < 0 THEN cur ELSE best,
             cells[1], cells)

-----------------------------------------------------------------------------
(* INSERT and UPDATE                                                       *)

\* Mutant: the names are not looked at.
RowByPosition(schema, columns, values) ==
    IF Len(values) = Len(schema) THEN {values} ELSE {}

\* build_row_in_schema_order: each column of the schema once, or no row.
\* Without names the values stand in the order of the schema.
RowInSchemaOrder(schema, columns, values) ==
    LET index == [k \in DOMAIN values |-> SchemaIndex(schema, columns[k])]
    IN  IF Len(values) # Len(schema) THEN {}
        ELSE IF columns = <<>> THEN {values}
        ELSE IF 0 \in Range(index) \/ ~IsInjective(index) THEN {}
        ELSE {[c \in DOMAIN schema |-> values[SelectInSeq(index, LAMBDA i : i = c)]]}

\* storage_insert adds the id that the statement does not name.
InsertRow(schema, columns, values, auto) ==
    LET id == <<"id">>
        added == /\ SchemaIndex(schema, id) # 0
                 /\ columns # <<>>
                 /\ \A k \in DOMAIN values : columns[k] # id
    IN  IF values = <<>> THEN {}
        ELSE IF added
        THEN RowInSchemaOrder(schema, <<id>> \o columns, <<auto>> \o values)
        ELSE RowInSchemaOrder(schema, columns, values)

\* The engine passes the number of values and no number of columns: the names
\* beyond the last one are whatever the heap holds.
NamesRead(schema, columns, values) ==
    IF columns = <<>> \/ Len(columns) >= Len(values) THEN {columns}
    ELSE {columns \o rest :
             rest \in [1 .. Len(values) - Len(columns) -> {c.name : c \in Range(schema)}]}

\* validate_update_set_clause and apply_update_to_row.
UpdateRow(schema, row, set) ==
    LET index == [k \in DOMAIN set |-> SchemaIndex(schema, set[k].column)]
    IN  IF \/ 0 \in Range(index) \/ ~IsInjective(index)
           \/ \E k \in DOMAIN set : ~UpdateValueOk(schema[index[k]].type, set[k].value)
        THEN {}
        ELSE {[c \in DOMAIN row |->
                  LET k == SelectInSeq(index, LAMBDA i : i = c)
                  IN  IF k = 0 THEN row[c] ELSE set[k].value]}

=============================================================================
