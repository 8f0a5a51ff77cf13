----------------------------- MODULE TextCalls ------------------------------
(***************************************************************************)
(* The pure functions between the socket and the files, called with every  *)
(* input of the constants: requests (Http), JSON (Json), SQL (SqlText,     *)
(* Parser, SqlFormat), conditions, rows and routes (Query, Routes) and the *)
(* lines of a table (Csv).  Nothing is kept between calls: call is the     *)
(* call under way and what it returned.                                    *)
(***************************************************************************)
EXTENDS Routes, Http, Json
LOCAL C == INSTANCE Csv

CONSTANTS
    HttpTexts,      \* what a client sends before it closes
    Cuts,           \* where the network may cut it
    ParamLists,     \* parameters of a query: sequences of [key, value]
    FieldLists,     \* the two fields of a JSON body: sequences of [name, value]
    WordLists,      \* words of an answer
    Requests,       \* bodies of /api/query, for the splitting
    Whole,          \* statements as a client writes them
    Loose,          \* texts that need not be statements
    Koreans,        \* values of /api/admin/insert
    Files,          \* tables to write: [width, rows]
    LikeTexts, LikePatterns,
    Schema,         \* the table of the conditions
    Conditionals,   \* conditions: [terms, links], terms are texts
    Cells,          \* rows of Schema
    SetTexts,       \* SET lists
    InsertLists,    \* INSERT lists: [columns, values]
    Orders,         \* columns to sort: [type, cells]
    IdTables,       \* tables with the columns of Schema
    IdConds         \* conditions on the id

ASSUME SchemaAssumption == \A r \in Cells : Len(r) = Len(Schema)

VARIABLE call

vars == <<call>>

NoCall == [fn |-> "none"]

Init == call = NoCall

Calls(fn, arg, result) == call' = [fn |-> fn, arg |-> arg, result |-> result]

-----------------------------------------------------------------------------
(* The calls                                                               *)

\* A worker reads a request.
ReadRequest ==
    /\ call = NoCall
    /\ \E x \in HttpTexts, cuts \in Cuts :
           Calls("request", [text |-> x, cuts |-> cuts], HttpParseRequest(x, cuts))

\* A client's encoding of a query: '&', '%', '+' and blanks as hex pairs.
UrlEncode(v) ==
    FlattenSeq([k \in DOMAIN v |->
        IF \E pair \in DOMAIN HexPair : HexPair[pair] = v[k]
        THEN <<"%">> \o (CHOOSE pair \in DOMAIN HexPair : HexPair[pair] = v[k])
        ELSE <<v[k]>>])

QueryText(params) ==
    FlattenSeq([k \in DOMAIN params |->
        (IF k = 1 THEN <<>> ELSE <<"&">>)
        \o params[k].key \o <<"=">> \o UrlEncode(params[k].value)])

Param ==
    /\ call = NoCall
    /\ \E params \in ParamLists, key \in {<<"i", "d">>, <<"i">>} :
           Calls("param", [params |-> params, key |-> key],
                 QueryParam(QueryText(params), key))

\* A client's JSON object.
BodyText(fields) ==
    <<"{">> \o FlattenSeq([k \in DOMAIN fields |->
        (IF k = 1 THEN <<>> ELSE <<",", " ">>)
        \o <<"\"", fields[k].name, "\"", ":">> \o Quoted(fields[k].value)])
    \o <<"}">>

Field ==
    /\ call = NoCall
    /\ \E fields \in FieldLists, k \in 1 .. 2 :
           Calls("field", fields[k], GetStringField(BodyText(fields), fields[k].name))

\* /api/autocomplete reads the words from the engine's answer.
Suggest ==
    /\ call = NoCall
    /\ \E words \in WordLists :
           Calls("suggest", words, Suggestions(RowsetJson(<<"english">>, words)))

\* engine_exec_sql cuts a request into statements.
Split ==
    /\ call = NoCall
    /\ \E x \in Requests : Calls("split", x, Statements(x))

\* /api/admin/insert builds its INSERT and executes it.
AdminInsert ==
    /\ call = NoCall
    /\ \E v \in Koreans :
           Calls("admin", v, LET s == Statements(AdminInsertText(<<"a">>, v))
                             IN  [k \in DOMAIN s |-> ParseSql(s[k])])

Parse ==
    /\ call = NoCall
    /\ \E x \in Loose : Calls("parse", x, ParseSql(x))

\* A statement that reached the server in part.
ParseCut ==
    /\ call = NoCall
    /\ \E x \in Whole : \E n \in 1 .. Len(x) :
           Calls("cut", [whole |-> ParseSql(x), tokens |-> Tokenize(SubSeq(x, 1, n))],
                 ParseSql(SubSeq(x, 1, n)))

\* --format, and its output parsed again.
Format ==
    /\ call = NoCall
    /\ \E sql \in {ParseSql(x) : x \in Whole} :
           Calls("format", sql, ParseSql(PrintFormat(sql)))

\* Rows are written to a table and the table is scanned.
WriteAndScan ==
    /\ call = NoCall
    /\ \E f \in Files :
           Calls("scan", f,
                 C!LoadTableRows(FlattenSeq([k \in DOMAIN f.rows |-> C!WriteRow(f.rows[k])]),
                                 f.width))

Like ==
    /\ call = NoCall
    /\ \E text \in LikeTexts, pattern \in LikePatterns :
           Calls("like", [text |-> text, pattern |-> pattern], LikeMatch(text, pattern))

WhereText(c) ==
    <<"DELETE", " ", "FROM", " ", "t", " ", "WHERE">> \o
    FlattenSeq([k \in DOMAIN c.terms |->
        (IF k = 1 THEN <<>> ELSE <<" ", c.links[k - 1]>>) \o <<" ">> \o c.terms[k]])

\* A condition is parsed and a row put to it.
Filter ==
    /\ call = NoCall
    /\ \E c \in Conditionals, row \in Cells : \E sql \in {ParseSql(WhereText(c))} :
           Calls("filter", [links |-> c.links, where |-> sql.where, row |-> row],
                 [valid |-> WhereOk(Schema, sql), match |-> RowMatches(Schema, row, sql)])

Update ==
    /\ call = NoCall
    /\ \E sql \in {ParseSql(<<"UPDATE", " ", "t", " ", "SET", " ">> \o x) : x \in SetTexts},
          row \in Cells :
           Calls("update", [row |-> row, set |-> sql.set], UpdateRow(Schema, row, sql.set))

Insert ==
    /\ call = NoCall
    /\ \E l \in InsertLists :
           \E names \in NamesRead(Schema, l.columns, l.values) :
               Calls("insert", l, InsertRow(Schema, names, l.values, <<"2">>))

Order ==
    /\ call = NoCall
    /\ \E o \in Orders, sign \in {1, -1} :
           Calls("order", [column |-> o, sign |-> sign],
                 [sorted |-> SortSelection(o.type, sign, o.cells),
                  extreme |-> Extreme(o.type, sign, o.cells)])

\* A SELECT through the engine and through the executor, with and without a
\* tree, and its EXPLAIN.
Route ==
    /\ call = NoCall
    /\ \E rows \in IdTables, sql \in {ParseSql(WhereText(c)) : c \in IdConds} :
           \E trees \in {{}, {IdTree(Schema, rows)}} :
               Calls("route", [rows |-> rows, sql |-> sql, has |-> trees # {}],
                     [engine |-> ExecuteSelect(Schema, rows, trees, sql),
                      indexed |-> ByIndex(trees, sql) # {},
                      scan |-> Scan(Schema, rows, sql),
                      executor |-> Execute(Schema, rows, trees, sql),
                      plan |-> Explain(sql)])

Return == call # NoCall /\ call' = NoCall

Next ==
    \/ ReadRequest \/ Param \/ Field \/ Suggest
    \/ Split \/ AdminInsert \/ Parse \/ ParseCut \/ Format \/ WriteAndScan
    \/ Like \/ Filter \/ Update \/ Insert \/ Order \/ Route \/ Return

Spec == Init /\ [][Next]_vars

-----------------------------------------------------------------------------
(* Correctness                                                             *)

\* However the network cuts a request, http_parse_request returns the same as
\* if it had come at once: the body is what follows the blank line, as long as
\* Content-Length says, wherever the read of the header ended, and a request
\* whose body is cut off is none.
RequestWhole ==
    call.fn = "request" =>
        LET start == HeaderEnd(call.arg.text) + 4
            length == call.result.length
        IN  /\ call.result = HttpParseRequest(call.arg.text, {})
            /\ call.result.ok =>
                   /\ start - 1 <= MaxHeader
                   /\ start + length - 1 <= Len(call.arg.text)
                   /\ call.result.body = SubSeq(call.arg.text, start, start + length - 1)

\* What the router reads is what was written, whatever separators, quotes and
\* escapes it holds: query_param returns the value the client encoded under
\* that name first; json_get_string_field the field, without taking a value
\* that looks like a name for one; build_suggestions_array the words of the
\* engine's answer in order.  Only a line break in a JSON string is refused.
RouterReads ==
    LET broken(v) == "\n" \in Range(v)
    IN  /\ call.fn = "param" =>
               LET params == call.arg.params
                   k == SelectInSeq(params, LAMBDA x : x.key = call.arg.key)
               IN  call.result = IF k = 0 THEN {} ELSE {params[k].value}
        /\ call.fn = "field" =>
               /\ call.result.ok <=> ~broken(call.arg.value)
               /\ call.result.ok => call.result.value = call.arg.value
        /\ call.fn = "suggest" =>
               call.result = IF \E k \in DOMAIN call.arg : broken(call.arg[k]) THEN {}
                             ELSE {call.arg}

\* The scanner that cuts a request into statements and the one that cuts a
\* statement into tokens agree on what stands between quotes: no token is
\* cut or lost at the border of two statements.  They do not agree on
\* comments, which begin with "--" outside quotes and words, nor on blanks
\* that end a text whose quotes are still open.
SplitAgrees ==
    call.fn = "split" =>
        LET x == call.arg
            \* The quote that is open behind the first k symbols.
            quote[k \in 0 .. Len(x)] ==
                IF k = 0 THEN ""
                ELSE IF quote[k - 1] = "" THEN (IF x[k] \in Quotes THEN x[k] ELSE "")
                ELSE IF x[k] = quote[k - 1] THEN "" ELSE quote[k - 1]
            comment == \E k \in 1 .. Len(x) - 1 :
                           /\ x[k] = "-" /\ x[k + 1] = "-" /\ quote[k - 1] = ""
                           /\ k = 1 \/ ~IsWord(x[k - 1])
            open == quote[Len(x)] # "" /\ x[Len(x)] \in Spaces
            solid(t) == SelectSeq(t, LAMBDA u : u # <<";">>)
        IN  ~comment /\ ~open =>
                solid(FlattenSeq([k \in DOMAIN call.result |-> Tokenize(call.result[k])]))
                    = solid(Tokenize(x))

\* Whatever the value holds, /api/admin/insert executes one statement, an
\* INSERT into dictionary of the word it checked.  The value itself arrives
\* unless it holds a quote, which the tokenizer does not read as escaped, or
\* is a lone ')', which ends the list.
AdminInsertExact ==
    call.fn = "admin" =>
        /\ Len(call.result) = 1
        /\ call.result[1].type = "INSERT"
        /\ call.result[1].table = <<"dictionary">>
        /\ call.result[1].values[1] = <<"a">>
        /\ call.result[1].values = <<<<"a">>, call.arg>>
               <=> "'" \notin Range(call.arg) /\ call.arg # <<")">>

\* Whatever the text, a parsed statement has one link less than conditions,
\* which free_parsed, where_link_at and resolve_where_link rely on.  A
\* statement cut anywhere keeps exactly the conditions whose first three tokens
\* came before the cut, each as it was up to the cut, and the links between
\* them: it selects by fewer conditions, never by others, and a DELETE loses
\* all of them only where the first is not yet complete.
WhereKept ==
    /\ call.fn \in {"parse", "cut", "format"} =>
           Len(call.result.where_links) = Max({0, Len(call.result.where) - 1})
    /\ call.fn = "cut" =>
           LET cut == call.result
               whole == call.arg.whole
               tokens == call.arg.tokens
               size(k) == IF whole.where[k].op = <<"BETWEEN">> THEN 5 ELSE 3
               \* Tokens behind WHERE up to the value of condition k.
               upto[k \in DOMAIN whole.where] ==
                   IF k = 1 THEN 3 ELSE upto[k - 1] + size(k - 1) + 1
               there == Len(tokens) - SelectInSeq(tokens, LAMBDA t : t = <<"WHERE">>)
               kept == IF <<"WHERE">> \notin Range(tokens) THEN {}
                       ELSE {k \in DOMAIN whole.where : upto[k] <= there}
           IN  /\ Len(cut.where) = Cardinality(kept)
               /\ IsPrefix(cut.where_links, whole.where_links)
               /\ \A k \in DOMAIN cut.where :
                      /\ cut.where[k].column = whole.where[k].column
                      /\ cut.where[k].op = whole.where[k].op
                      /\ IsPrefix(cut.where[k].value, whole.where[k].value)

\* A value that print_format writes so that it reads back.
Writable(v) ==
    /\ "'" \notin Range(v)
    /\ ~NeedsQuote(v) => \A k \in DOMAIN v : IsWord(v[k])

\* parse, format, parse gives the statement again, for every statement but
\* those with BETWEEN, whose upper bound is not written, and those with a
\* value that has a quote in it or starts like a number and is none.
FormatRoundTrip ==
    call.fn = "format" =>
        LET sql == call.arg
            vals == Range(sql.values) \cup {c.value : c \in Range(sql.where)}
                        \cup {a.value : a \in Range(sql.set)}
        IN  call.result = sql <=>
                /\ \A c \in Range(sql.where) : c.op # <<"BETWEEN">>
                /\ \A v \in vals : Writable(v)

\* A scan returns the rows that were written, whatever their fields hold:
\* commas, quotes and line breaks neither split nor join fields or rows.
CsvRoundTrip ==
    call.fn = "scan" => call.result = [ok |-> TRUE, rows |-> call.arg.rows]

\* like_match finds a match exactly when the text can be cut into pieces, one
\* for each symbol of the pattern: any piece for '%', one character for '_',
\* that character for any other.
LikeExact ==
    call.fn = "like" =>
        LET t == call.arg.text
            p == call.arg.pattern
            fits(cut) ==
                /\ cut[1] = 1 /\ cut[Len(p) + 1] = Len(t) + 1
                /\ \A j \in DOMAIN p :
                       IF p[j] = "%" THEN cut[j] <= cut[j + 1]
                       ELSE /\ cut[j + 1] = cut[j] + 1
                            /\ cut[j] <= Len(t)
                            /\ p[j] \in {"_", t[cut[j]]}
        IN  call.result =
                \E cut \in [1 .. Len(p) + 1 -> 1 .. Len(t) + 1] : fits(cut)

\* Every cell of the row reads as its column's type.
Typed(row) == \A c \in DOMAIN Schema : Readable(Schema[c].type, row[c])

\* A row is selected by the condition as written, AND binding tighter than OR:
\* some run of terms joined by AND holds throughout.  One term that cannot be
\* evaluated fails the statement, which no statement that passed its checks
\* does half way on a row whose cells have their types.
WhereExact ==
    call.fn = "filter" =>
        LET links == call.arg.links
            n == Len(links) + 1
            term(k) == EvaluateClause(Schema, call.arg.row, call.arg.where[k])
            run(i, j) == \A k \in i .. j - 1 : links[k] = "AND"
            start(i) == i = 1 \/ links[i - 1] = "OR"
            end(j) == j = n \/ links[j] = "OR"
        IN  /\ call.result.match =
                   IF \E k \in 1 .. n : term(k) = {} THEN {}
                   ELSE {\E i, j \in 1 .. n :
                             /\ i <= j /\ start(i) /\ end(j) /\ run(i, j)
                             /\ \A k \in i .. j : term(k) = {TRUE}}
            /\ call.result.valid /\ Typed(call.arg.row) => call.result.match # {}

\* Values go under their names.  An UPDATE changes the cells it names and no
\* others and leaves a row typed that was, so that it cannot make a later WHERE
\* fail.  An INSERT that names its columns puts every value under its name, in
\* any order of the names, and fills every column; it does so only if it
\* names each column but the id once.
WritesByName ==
    /\ call.fn = "update" =>
           \A row \in call.result :
               /\ Typed(call.arg.row) => Typed(row)
               /\ \A c \in DOMAIN row :
                      \/ row[c] = call.arg.row[c]
                      \/ \E a \in Range(call.arg.set) :
                             a.column = Schema[c].name /\ a.value = row[c]
    /\ call.fn = "insert" /\ call.arg.columns # <<>>
               /\ Len(call.arg.columns) >= Len(call.arg.values) =>
           \A row \in call.result :
               /\ Len(row) = Len(Schema)
               /\ \A k \in DOMAIN call.arg.values :
                      LET c == SchemaIndex(Schema, call.arg.columns[k])
                      IN  c # 0 /\ row[c] = call.arg.values[k]

\* The order of the calendar, for the years, months and days of IsDate.
DateNumber(s) ==
    LET number == [c \in {"2024", "2025", "01", "12", "31"} |->
                      CASE c = "2024" -> 2024 [] c = "2025" -> 2025
                        [] c = "01" -> 1 [] c = "12" -> 12 [] c = "31" -> 31]
    IN  10000 * number[s[1]] + 100 * number[s[3]] + number[s[5]]

\* ORDER BY gives a sorted permutation of the column, and MIN and MAX are the
\* first cell of the two orders, as long as the cells have their type.  Dates,
\* which are compared as texts, come in the order of the calendar.
OrderExact ==
    call.fn = "order" /\ (\A s \in Range(call.arg.column.cells) :
                              Readable(call.arg.column.type, s)) =>
        LET type == call.arg.column.type
            cells == call.arg.column.cells
            out == call.result.sorted
            count(s, x) == Cardinality({k \in DOMAIN s : s[k] = x})
        IN  /\ \A x \in Range(cells) \cup Range(out) : count(out, x) = count(cells, x)
            /\ \A k \in 1 .. Len(out) - 1 :
                   call.arg.sign * Compare(type, out[k], out[k + 1]) <= 0
            /\ Compare(type, out[1], call.result.extreme) = 0
            /\ type = "DATE" =>
                   /\ \A k \in 1 .. Len(out) - 1 :
                          call.arg.sign * (DateNumber(out[k]) - DateNumber(out[k + 1])) <= 0
                   /\ DateNumber(call.result.extreme) = DateNumber(out[1])

\* The id index answers like the scan: a SELECT with WHERE id = gives the rows
\* the scan gives, as long as ids are positive and different, and BETWEEN the
\* rows between its bounds in either order, each once and by id.  The three
\* copies of the choice agree: the executor answers as the engine does, and
\* EXPLAIN names the index exactly when a tree that is there and literals that
\* are numbers let SELECT use it.
RoutesAgree ==
    call.fn = "route" =>
        LET rows == call.arg.rows
            sql == call.arg.sql
            clause == sql.where[1]
            id == [k \in DOMAIN rows |-> AtoI(rows[k][SchemaIndex(Schema, <<"id">>)])]
            keyed == IsInjective(id) /\ \A k \in DOMAIN id : id[k] > 0
            between(i) ==
                \E a \in IntLiteral(clause.value), b \in IntLiteral(clause.value_to) :
                    i \in a .. b \cup b .. a
            numbers == /\ IntLiteral(clause.value) # {}
                       /\ UsesIdRange(sql) => IntLiteral(clause.value_to) # {}
        IN  /\ keyed /\ call.result.scan # {} => call.result.engine = call.result.scan
            /\ keyed /\ UsesIdRange(sql) =>
                   \A out \in call.result.engine :
                       /\ Range(out) = {k \in DOMAIN id : between(id[k])}
                       /\ \A j \in 1 .. Len(out) - 1 : id[out[j]] < id[out[j + 1]]
            /\ call.result.executor = call.result.engine
            /\ call.result.indexed <=>
                   call.result.plan # "FULL_SCAN" /\ call.arg.has /\ numbers

=============================================================================
