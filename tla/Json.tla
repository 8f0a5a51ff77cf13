-------------------------------- MODULE Json --------------------------------
(***************************************************************************)
(* JSON as router.c and engine.c write and read it.  Of the control        *)
(* characters only the line break is modelled.                             *)
(***************************************************************************)
EXTENDS SqlText

NoString == [ok |-> FALSE, value |-> <<>>, pos |-> 0]

\* append_json_escaped and jb_append_json_string.
EscapeJson(v) ==
    FlattenSeq([k \in DOMAIN v |->
        IF v[k] \in {"\"", "\\"} THEN <<"\\", v[k]>>
        ELSE IF v[k] = "\n" THEN <<"\\", "n">>
        ELSE <<v[k]>>])

Quoted(v) == <<"\"">> \o EscapeJson(v) \o <<"\"">>

\* json_read_string_at: \n is decoded and then refused like every control
\* character.
ReadString(s, p) ==
    LET from[k \in p .. Len(s) + 2] ==
            IF k > Len(s) THEN NoString
            ELSE IF s[k] = "\"" THEN [ok |-> TRUE, value |-> <<>>, pos |-> k + 1]
            ELSE IF s[k] = "\n" THEN NoString
            ELSE IF s[k] # "\\"
            THEN [from[k + 1] EXCEPT !.value = <<s[k]>> \o @]
            ELSE IF k < Len(s) /\ s[k + 1] \in {"\"", "\\", "/"}
            THEN [from[k + 2] EXCEPT !.value = <<s[k + 1]>> \o @]
            ELSE NoString
    IN  IF p > Len(s) \/ s[p] # "\"" THEN NoString ELSE from[p + 1]

PastBlanks(s, p) == Min({k \in p .. Len(s) : s[k] \notin Spaces} \cup {Len(s) + 1})

\* Mutant: the name may be a value.
GetStringFieldFirst(body, field) ==
    LET hits == {k \in 1 .. Len(body) - 2 : SubSeq(body, k, k + 2) = <<"\"", field, "\"">>}
        colon == PastBlanks(body, Min(hits) + 3)
    IN  IF hits = {} THEN NoString ELSE ReadString(body, PastBlanks(body, colon + 1))

\* json_get_string_field: the first "field" that a colon follows.
GetStringField(body, field) ==
    LET from[p \in 1 .. Len(body) + 1] ==
            LET hits == {k \in p .. Len(body) - 2 :
                            SubSeq(body, k, k + 2) = <<"\"", field, "\"">>}
                colon == PastBlanks(body, Min(hits) + 3)
            IN  IF hits = {} THEN NoString
                ELSE IF colon > Len(body) \/ body[colon] # ":" THEN from[colon]
                ELSE ReadString(body, PastBlanks(body, colon + 1))
    IN  from[1]

-----------------------------------------------------------------------------
(* The rows of an answer, and the suggestions read from it                 *)

\* Mutant: a cell is written as it is.
RowsetJsonBare(column, cells) ==
    <<"{", "\"", "columns", "\"", ":", "[">> \o Quoted(column) \o <<"]", ",",
      "\"", "rows", "\"", ":", "[">>
    \o FlattenSeq([k \in DOMAIN cells |->
           (IF k = 1 THEN <<>> ELSE <<",">>) \o <<"[", "\"">> \o cells[k] \o <<"\"", "]">>])
    \o <<"]", ",", "\"", "row_count", "\"", ":", "2", "}">>

\* append_rowset_json, for one column.
RowsetJson(column, cells) ==
    <<"{", "\"", "columns", "\"", ":", "[">> \o Quoted(column) \o <<"]", ",",
      "\"", "rows", "\"", ":", "[">>
    \o FlattenSeq([k \in DOMAIN cells |->
           (IF k = 1 THEN <<>> ELSE <<",">>) \o <<"[">> \o Quoted(cells[k]) \o <<"]">>])
    \o <<"]", ",", "\"", "row_count", "\"", ":", "2", "}">>

\* skip_json_string: behind the string, 0 when it does not end.
SkipString(s, p) ==
    LET from[k \in p .. Len(s) + 2] ==
            IF k > Len(s) THEN 0
            ELSE IF s[k] = "\"" THEN k + 1
            ELSE IF s[k] = "\\" THEN from[k + 2]
            ELSE from[k + 1]
    IN  from[p + 1]

\* The end of a row: behind the first ']' outside strings, 0 for a failure.
RowEnd(s, p) ==
    LET from[k \in p .. Len(s) + 1] ==
            IF k > Len(s) THEN k
            ELSE IF s[k] = "]" THEN k + 1
            ELSE IF s[k] # "\"" THEN from[k + 1]
            ELSE IF SkipString(s, k) = 0 THEN 0
            ELSE from[SkipString(s, k)]
    IN  from[p]

\* build_suggestions_array: the first string of every row, {} for a failure.
Suggestions(s) ==
    LET at == {k \in 1 .. Len(s) - 4 :
                  SubSeq(s, k, k + 4) = <<"\"", "rows", "\"", ":", "[">>}
        from[p \in 1 .. Len(s) + 1] ==
            LET q == PastBlanks(s, p)
                first == PastBlanks(s, q + 1)
                string == ReadString(s, first)
                quoted == first <= Len(s) /\ s[first] = "\""
                next == RowEnd(s, IF quoted THEN string.pos ELSE first)
            IN  IF q > Len(s) \/ s[q] = "]" THEN {<<>>}
                ELSE IF s[q] # "[" THEN from[q + 1]
                ELSE IF quoted /\ ~string.ok THEN {}
                ELSE IF next = 0 THEN {}
                ELSE {(IF quoted THEN <<string.value>> ELSE <<>>) \o rest : rest \in from[next]}
    IN  IF at = {} THEN {<<>>} ELSE from[Min(at) + 5]

=============================================================================
