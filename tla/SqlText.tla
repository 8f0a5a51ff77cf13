------------------------------ MODULE SqlText -------------------------------
(***************************************************************************)
(* SQL as characters: how engine.c cuts a request into statements, how     *)
(* parser.c cuts a statement into tokens, and how router.c puts a value    *)
(* between quotes.                                                         *)
(*                                                                         *)
(* A text is a sequence of symbols.  A symbol is a character, or stands    *)
(* for a run of letters or digits ("SELECT", "a", "12"): what the code     *)
(* does depends only on the classes below.  A token is a text too; nothing *)
(* in it tells whether it stood between quotes.  Upper and lower case are  *)
(* not told apart.                                                         *)
(***************************************************************************)
EXTENDS Integers, Sequences, SequencesExt, FiniteSetsExt

Spaces == {" ", "\n"}
Quotes == {"'", "\""}
Punctuation == {",", "(", ")", ";", "*"}
Comparisons == {"=", ">", "<", "!"}
Skipped == {"%", ":", "+"}     \* the tokenizer's rest: dropped

\* Letters, digits, '_', '.' and '-'.
IsWord(c) ==
    c \notin Spaces \cup Quotes \cup Punctuation \cup Comparisons \cup Skipped

\* The first position from p on whose symbol is in S, or the end.
FirstIn(s, p, S) == Min({k \in p .. Len(s) : s[k] \in S} \cup {Len(s) + 1})

-----------------------------------------------------------------------------
(* parser.c: tokenize                                                      *)

Tokenize(s) ==
    LET is(p, c) == p <= Len(s) /\ s[p] = c
        from[p \in 1 .. Len(s) + 1] ==
            IF p > Len(s) THEN <<>>
            ELSE IF is(p, "-") /\ is(p + 1, "-")
            THEN from[FirstIn(s, p, {"\n"})]
            ELSE IF s[p] \in Quotes
            THEN LET close == FirstIn(s, p + 1, {s[p]})
                 IN  <<SubSeq(s, p + 1, close - 1)>>
                         \o from[Min({close, Len(s)}) + 1]
            ELSE IF s[p] \in {">", "<", "!"} /\ is(p + 1, "=")
            THEN <<<<s[p], "=">>>> \o from[p + 2]
            ELSE IF s[p] \in Punctuation \cup Comparisons
            THEN <<<<s[p]>>>> \o from[p + 1]
            ELSE IF IsWord(s[p])
            THEN LET end == Min({k \in p .. Len(s) : ~IsWord(s[k])} \cup {Len(s) + 1})
                 IN  <<SubSeq(s, p, end - 1)>> \o from[end]
            ELSE from[p + 1]
    IN  from[1]

-----------------------------------------------------------------------------
(* engine.c: split_next_statement, trim_in_place                           *)

Trim(s) ==
    LET inner == {k \in DOMAIN s : s[k] \notin Spaces}
    IN  IF inner = {} THEN <<>> ELSE SubSeq(s, Min(inner), Max(inner))

\* Mutant: double quotes are not seen.
StatementEndSingle(s, start) ==
    LET from[p \in 1 .. Len(s) + 1] ==
            IF p > Len(s) \/ s[p] = ";" THEN p
            ELSE IF s[p] = "'"
            THEN LET close == FirstIn(s, p + 1, {"'"})
                 IN  from[Min({close, Len(s)}) + 1]
            ELSE from[p + 1]
    IN  from[start]

\* The first ';' outside quotes, or the end.  Comments are not looked for.
StatementEnd(s, start) ==
    LET from[p \in 1 .. Len(s) + 1] ==
            IF p > Len(s) \/ s[p] = ";" THEN p
            ELSE IF s[p] \in Quotes
            THEN LET close == FirstIn(s, p + 1, {s[p]})
                 IN  from[Min({close, Len(s)}) + 1]
            ELSE from[p + 1]
    IN  from[start]

\* The statements of a request; blank ones are passed over.
Statements(s) ==
    LET from[p \in 1 .. Len(s) + 1] ==
            IF p > Len(s) THEN <<>>
            ELSE LET end == StatementEnd(s, p)
                     stmt == Trim(SubSeq(s, p, end - 1))
                 IN  (IF stmt = <<>> THEN <<>> ELSE <<stmt>>)
                         \o from[Min({end, Len(s)}) + 1]
    IN  from[1]

-----------------------------------------------------------------------------
(* router.c: sql_escape_literal and the INSERT of /api/admin/insert        *)

\* Mutant: quotes are left as they are.
EscapeNothing(v) == v

EscapeLiteral(v) ==
    FlattenSeq([k \in DOMAIN v |-> IF v[k] = "'" THEN <<"'", "'">> ELSE <<v[k]>>])

AdminInsertText(english, korean) ==
    <<"INSERT", " ", "INTO", " ", "dictionary", " ", "(", "english", ",", " ",
      "korean", ")", " ", "VALUES", " ", "(", "'">> \o EscapeLiteral(english)
    \o <<"'", ",", " ", "'">> \o EscapeLiteral(korean) \o <<"'", ")", ";">>

=============================================================================
