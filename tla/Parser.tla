------------------------------- MODULE Parser -------------------------------
(***************************************************************************)
(* src/src/parser.c: from the tokens of a statement to a ParsedSQL.        *)
(*                                                                         *)
(* A position is the next token to read, t->pos + 1; past the last token   *)
(* it stays where it is.  A field that the code leaves zeroed is <<>>.     *)
(* What is missing or left over is only reported on stderr: every text     *)
(* gives a statement.                                                      *)
(***************************************************************************)
EXTENDS SqlText

\* peek and ieq; a missing token reads as the empty text; advance; match.
Is(t, i, word) == i <= Len(t) /\ t[i] = <<word>>
At(t, i) == IF i <= Len(t) THEN t[i] ELSE <<>>
Past(t, i, n) == Min({i + n, Len(t) + 1})
Match(t, i, word) == IF Is(t, i, word) THEN i + 1 ELSE i

ParsedNew ==
    [type |-> "UNKNOWN", table |-> <<>>, columns |-> <<>>, values |-> <<>>,
     col_defs |-> <<>>, where |-> <<>>, where_links |-> <<>>, where_logic |-> "",
     set |-> <<>>, order_by |-> <<>>, limit |-> -1]

\* atoi and strtol: blanks, a sign and the digits that follow.
DigitValue == [c \in {"0", "1", "2"} |-> IF c = "0" THEN 0 ELSE IF c = "1" THEN 1 ELSE 2]

\* Where a number starts: behind blanks and a sign.
Unsigned(s) ==
    LET p == Min({k \in DOMAIN s : s[k] \notin Spaces} \cup {Len(s) + 1})
    IN  IF p <= Len(s) /\ s[p] \in {"-", "+"} THEN p + 1 ELSE p

AtoI(s) ==
    LET p == Unsigned(s)
        last == Min({k \in p .. Len(s) : s[k] \notin DOMAIN DigitValue} \cup {Len(s) + 1}) - 1
        value == FoldLeft(LAMBDA n, c : 10 * n + DigitValue[c], 0, SubSeq(s, p, last))
    IN  IF p > 1 /\ s[p - 1] = "-" THEN -value ELSE value

\* A list that ends at ')', at the end or where no comma follows.
ParseIdentList(t, i) ==
    LET from[k \in i .. Len(t) + 1] ==
            IF k > Len(t) \/ Is(t, k, ")") THEN [list |-> <<>>, pos |-> k]
            ELSE IF ~Is(t, k + 1, ",") THEN [list |-> <<t[k]>>, pos |-> k + 1]
            ELSE [from[k + 2] EXCEPT !.list = <<t[k]>> \o @]
        found == from[i]
    IN  [found EXCEPT !.pos = Match(t, @, ")")]

-----------------------------------------------------------------------------
(* WHERE                                                                   *)

\* Mutant: the value is not asked for.
HasColumnAndOp(t, k) == k + 1 <= Len(t)

\* Mutant: a token must follow the condition.
HasTokenBehind(t, k) == k + 3 <= Len(t)

\* A condition at k has its three tokens.
HasClause(t, k) == k + 2 <= Len(t)

\* Conditions from position i on.  One that is cut short is dropped, and
\* ends the list; BETWEEN takes two tokens more.
Conditions(t, i) ==
    LET from[k \in i .. Len(t) + 1] ==
            IF ~HasClause(t, k)
            THEN [where |-> <<>>, where_links |-> <<>>, pos |-> Len(t) + 1]
            ELSE LET between == Is(t, k + 1, "BETWEEN")
                     whole == between => Is(t, k + 3, "AND") /\ k + 4 <= Len(t)
                     clause == [column |-> t[k], op |-> t[k + 1], value |-> At(t, k + 2),
                                value_to |-> IF between /\ whole THEN t[k + 4] ELSE <<>>]
                     next == Past(t, k, IF between THEN 5 ELSE 3)
                 IN  IF whole /\ (Is(t, next, "AND") \/ Is(t, next, "OR"))
                     THEN [from[next + 1] EXCEPT !.where = <<clause>> \o @,
                                                 !.where_links = t[next] \o @]
                     ELSE [where |-> <<clause>>, where_links |-> <<>>, pos |-> next]
    IN  from[i]

\* Mutant: a link with nothing behind it is kept.
LinksKept(found) == found.where_links

\* A link with no condition behind it goes.
Links(found) ==
    IF Len(found.where_links) > 0 /\ Len(found.where_links) # Len(found.where) - 1
    THEN Front(found.where_links)
    ELSE found.where_links

\* where_logic is set when the links are all the same.
ParseWhere(t, i, sql) ==
    LET found == Conditions(t, i)
        links == Links(found)
    IN  [sql EXCEPT !.where = found.where,
                    !.where_links = links,
                    !.where_logic =
                        IF links # <<>> /\ \A k \in DOMAIN links : links[k] = links[1]
                        THEN links[1] ELSE ""]

OptWhere(t, i, sql) == IF Is(t, i, "WHERE") THEN ParseWhere(t, i + 1, sql) ELSE sql
PastWhere(t, i) == IF Is(t, i, "WHERE") THEN Conditions(t, i + 1).pos ELSE i

-----------------------------------------------------------------------------
(* The five statements; position 1 holds the keyword                       *)

ParseCreate(t) ==
    LET from[k \in 5 .. Max({5, Len(t) + 1})] ==
            IF k + 1 > Len(t) \/ Is(t, k, ")") THEN <<>>
            ELSE <<t[k] \o <<" ">> \o t[k + 1]>>
                     \o (IF Is(t, k + 2, ",") THEN from[k + 3] ELSE <<>>)
    IN  [ParsedNew EXCEPT
            !.type = "CREATE",
            !.table = IF Is(t, 2, "TABLE") THEN At(t, 3) ELSE <<>>,
            !.col_defs = IF Is(t, 2, "TABLE") /\ Is(t, 4, "(") THEN from[5] ELSE <<>>]

ParseInsert(t) ==
    LET named == Is(t, 2, "INTO")
        cols == ParseIdentList(t, 5)
        vals == ParseIdentList(t, cols.pos + 2)
        listed == named /\ Is(t, 4, "(")
    IN  [ParsedNew EXCEPT
            !.type = "INSERT",
            !.table = IF named THEN At(t, 3) ELSE <<>>,
            !.columns = IF listed THEN cols.list ELSE <<>>,
            !.values = IF listed /\ Is(t, cols.pos, "VALUES") /\ Is(t, cols.pos + 1, "(")
                       THEN vals.list ELSE <<>>]

\* A column, or a call: its tokens up to ')' joined to one name.
SelectColumn(t, k) ==
    LET end == Min({j \in k + 2 .. Len(t) : t[j] \in {<<")">>, <<";">>}} \cup {Len(t) + 1})
        past == Match(t, end, ")")
    IN  IF Is(t, k + 1, "(")
        THEN [name |-> FlattenSeq(SubSeq(t, k, past - 1)), pos |-> past]
        ELSE [name |-> t[k], pos |-> k + 1]

SelectColumns(t) ==
    LET stop == {<<"FROM">>, <<"WHERE">>, <<"ORDER">>, <<"LIMIT">>, <<")">>, <<";">>}
        from[k \in 2 .. Max({2, Len(t) + 1})] ==
            IF k > Len(t) \/ At(t, k) \in stop THEN [list |-> <<>>, pos |-> k]
            ELSE LET col == SelectColumn(t, k)
                 IN  IF ~Is(t, col.pos, ",")
                     THEN [list |-> <<col.name>>, pos |-> col.pos]
                     ELSE [from[col.pos + 1] EXCEPT !.list = <<col.name>> \o @]
    IN  from[2]

\* ORDER BY and its direction, ascending unless DESC follows.
OrderBy(t, i) ==
    LET by == Match(t, i + 1, "BY")
        after == Past(t, by, 1)
        desc == Is(t, after, "DESC")
    IN  IF ~Is(t, i, "ORDER") THEN [list |-> <<>>, pos |-> i]
        ELSE [list |-> <<[column |-> At(t, by), asc |-> ~desc]>>,
              pos |-> IF desc THEN after + 1 ELSE Match(t, after, "ASC")]

Limit(t, i) == IF Is(t, i, "LIMIT") /\ i < Len(t) THEN AtoI(t[i + 1]) ELSE -1

\* From WHERE on.
SelectTail(t, i, order, sql) ==
    [OptWhere(t, i, sql) EXCEPT !.order_by = order.list, !.limit = Limit(t, order.pos)]

SelectFrom(t, i, sql) ==
    IF ~Is(t, i, "FROM") THEN sql
    ELSE SelectTail(t, Past(t, i, 2), OrderBy(t, PastWhere(t, Past(t, i, 2))),
                    [sql EXCEPT !.table = At(t, i + 1)])

ParseSelect(t) ==
    LET cols == SelectColumns(t)
    IN  SelectFrom(t, cols.pos, [ParsedNew EXCEPT !.type = "SELECT", !.columns = cols.list])

ParseDelete(t) ==
    LET sql == [ParsedNew EXCEPT !.type = "DELETE"]
    IN  IF ~Is(t, 2, "FROM") THEN sql
        ELSE OptWhere(t, 4, [sql EXCEPT !.table = At(t, 3)])

\* The token between column and value is not looked at.
SetList(t) ==
    LET from[k \in 4 .. Max({4, Len(t) + 1})] ==
            IF k > Len(t) \/ At(t, k) \in {<<"WHERE">>, <<";">>}
            THEN [list |-> <<>>, pos |-> k]
            ELSE IF k + 2 > Len(t) THEN [list |-> <<>>, pos |-> Len(t) + 1]
            ELSE LET assign == [column |-> t[k], value |-> t[k + 2]]
                 IN  IF ~Is(t, k + 3, ",")
                     THEN [list |-> <<assign>>, pos |-> k + 3]
                     ELSE [from[k + 4] EXCEPT !.list = <<assign>> \o @]
    IN  from[4]

ParseUpdate(t) ==
    LET sql == [ParsedNew EXCEPT !.type = "UPDATE", !.table = At(t, 2)]
    IN  IF ~Is(t, 3, "SET") THEN sql
        ELSE OptWhere(t, SetList(t).pos, [sql EXCEPT !.set = SetList(t).list])

\* parse_sql.  A text without tokens gives NULL, which the engine treats like
\* an unknown statement.
ParseSql(text) ==
    LET t == Tokenize(text)
    IN  CASE Is(t, 1, "CREATE") -> ParseCreate(t)
          [] Is(t, 1, "INSERT") -> ParseInsert(t)
          [] Is(t, 1, "SELECT") -> ParseSelect(t)
          [] Is(t, 1, "DELETE") -> ParseDelete(t)
          [] Is(t, 1, "UPDATE") -> ParseUpdate(t)
          [] OTHER -> ParsedNew

=============================================================================
