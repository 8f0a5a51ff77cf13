----------------------------- MODULE SqlFormat ------------------------------
(***************************************************************************)
(* src/src/sql_format.c: a ParsedSQL written as SQL again (--format).      *)
(***************************************************************************)
EXTENDS Parser

\* Blanks, hyphens and colons ask for quotes, numbers do without.
NeedsQuote(v) ==
    \/ v = <<>>
    \/ \E k \in DOMAIN v : v[k] \in {" ", "-", ":"}
    \/ v[1] \notin DOMAIN DigitValue \cup {"-", "+"}

\* Mutant: a value that starts like a name goes without quotes.
EmitBare(v) == IF v = <<>> THEN <<"'", "'">> ELSE v

EmitValue(v) == IF NeedsQuote(v) THEN <<"'">> \o v \o <<"'">> ELSE v

Commas(list) ==
    FlattenSeq([k \in DOMAIN list |->
        (IF k = 1 THEN <<>> ELSE <<",", " ">>) \o list[k]])

\* where_link_at, for the links of a parsed statement.
WhereLinkAt(sql, k) ==
    IF sql.where_links # <<>> THEN sql.where_links[k]
    ELSE IF sql.where_logic # "" THEN sql.where_logic
    ELSE "AND"

\* emit_where: value_to is not written.
EmitWhere(sql) ==
    IF sql.where = <<>> THEN <<>>
    ELSE <<" ", "WHERE", " ">> \o
         FlattenSeq([k \in DOMAIN sql.where |->
             (IF k = 1 THEN <<>> ELSE <<" ", WhereLinkAt(sql, k - 1), " ">>)
             \o sql.where[k].column \o <<" ">> \o sql.where[k].op \o <<" ">>
             \o EmitValue(sql.where[k].value)])

\* "%d" of a LIMIT below ten.
Numeral(n) == <<CHOOSE c \in DOMAIN DigitValue : DigitValue[c] = n>>

EmitOrder(sql) ==
    IF sql.order_by = <<>> THEN <<>>
    ELSE <<" ", "ORDER", " ", "BY", " ">> \o sql.order_by[1].column
         \o <<" ", IF sql.order_by[1].asc THEN "ASC" ELSE "DESC">>

EmitLimit(sql) ==
    IF sql.limit < 0 THEN <<>> ELSE <<" ", "LIMIT", " ">> \o Numeral(sql.limit)

Emitted(vals) == [k \in DOMAIN vals |-> EmitValue(vals[k])]

PrintFormat(sql) ==
    CASE sql.type = "CREATE" ->
             <<"CREATE", " ", "TABLE", " ">> \o sql.table \o <<" ", "(">>
             \o Commas(sql.col_defs) \o <<")", ";">>
      [] sql.type = "INSERT" ->
             <<"INSERT", " ", "INTO", " ">> \o sql.table \o <<" ", "(">>
             \o Commas(sql.columns) \o <<")", " ", "VALUES", " ", "(">>
             \o Commas(Emitted(sql.values)) \o <<")", ";">>
      [] sql.type = "SELECT" ->
             <<"SELECT", " ">> \o Commas(sql.columns) \o <<" ", "FROM", " ">>
             \o sql.table \o EmitWhere(sql) \o EmitOrder(sql) \o EmitLimit(sql) \o <<";">>
      [] sql.type = "DELETE" ->
             <<"DELETE", " ", "FROM", " ">> \o sql.table \o EmitWhere(sql) \o <<";">>
      [] sql.type = "UPDATE" ->
             <<"UPDATE", " ">> \o sql.table \o <<" ", "SET", " ">>
             \o Commas([k \in DOMAIN sql.set |->
                            sql.set[k].column \o <<" ", "=", " ">>
                            \o EmitValue(sql.set[k].value)])
             \o EmitWhere(sql) \o <<";">>
      [] OTHER -> <<"-", "-", " ", "UNKNOWN">>

=============================================================================
