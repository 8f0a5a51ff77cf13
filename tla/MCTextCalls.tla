---------------------------- MODULE MCTextCalls -----------------------------
(***************************************************************************)
(* TextCalls with the inputs that tell its cases apart.                    *)
(***************************************************************************)
EXTENDS TextCalls

UpTo(S, n) == UNION {[1 .. k -> S] : k \in 0 .. n}

MCRequests == UpTo({"a", "'", "\"", ";", " ", "-"}, 5)

Terms == {<<"a", " ", "=", " ", "1">>,
          <<"b", ">", "=", "'", "x", " ", "AND", "'">>,
          <<"a", " ", "BETWEEN", " ", "1", " ", "AND", " ", "2">>}

\* WHERE texts of up to two terms, and of three simple ones.
Wheres ==
    {<<>>} \cup {<<" ", "WHERE", " ">> \o c : c \in Terms}
    \cup {<<" ", "WHERE", " ">> \o c \o <<" ", l, " ">> \o d :
             c \in Terms, d \in Terms, l \in {"AND", "OR"}}
    \cup {<<" ", "WHERE", " ", "a", "=", "1", " ", l, " ", "b", "=", "b", " ",
            m, " ", "a", "!", "=", "2">> : l \in {"AND", "OR"}, m \in {"AND", "OR"}}

Values1 == {<<"1">>, <<"'", "x", " ", "y", "'">>, <<"'", ")", "'">>, <<"'", "'">>,
            <<"\"", "'", "\"">>, <<"'", "1", ",", "2", "'">>, <<"'", "+", "1", "'">>}

MCWhole ==
    {<<"SELECT", " ">> \o c \o <<" ", "FROM", " ", "t">> \o w \o o \o l :
        c \in {<<"*">>, <<"a", ",", " ", "b">>, <<"COUNT", " ", "(", "*", ")">>},
        w \in Wheres,
        o \in {<<>>, <<" ", "ORDER", " ", "BY", " ", "a">>,
               <<" ", "ORDER", " ", "BY", " ", "a", " ", "DESC">>},
        l \in {<<>>, <<" ", "LIMIT", " ", "2">>}}
    \cup {<<"DELETE", " ", "FROM", " ", "t">> \o w \o <<";">> : w \in Wheres}
    \cup {<<"UPDATE", " ", "t", " ", "SET", " ", "a", "=">> \o v \o w :
             v \in Values1, w \in Wheres}
    \cup {<<"UPDATE", " ", "t", " ", "SET", " ", "a", "=">> \o v \o <<",", "b", "=", "1">> :
             v \in Values1}
    \cup {<<"INSERT", " ", "INTO", " ", "t", "(", "a", ",", "b", ")", "VALUES", "(">>
             \o v \o <<",">> \o u \o <<")">> : v \in Values1 \ {<<"'", ")", "'">>}, u \in Values1 \ {<<"'", ")", "'">>}}
    \cup {<<"CREATE", " ", "TABLE", " ", "t", "(", "a", " ", "INT", ",", "b", " ", "DATE", ")">>}

MCLoose ==
    {<<"DELETE", " ", "FROM", " ", "t", " ", "WHERE", " ">> \o FlattenSeq([k \in DOMAIN s |-> <<s[k], " ">>]) :
        s \in UpTo({"a", "=", "AND", "BETWEEN"}, 7)}

MCKoreans == UpTo({"a", "'", "\"", ";", ")", ",", "-"}, 4) \ {<<>>}

Fields == UpTo({"x", ",", "\"", "\n", "\r"}, 2)
MCFiles ==
    {[width |-> 2, rows |-> <<<<f, g>>>>] : f \in Fields, g \in Fields}
    \cup {[width |-> 1, rows |-> <<<<f>>, <<g>>>>] : f \in Fields, g \in Fields}
    \cup {[width |-> 1, rows |-> <<>>]}

MCLikeTexts == UpTo({"a", "b"}, 3)
MCLikePatterns == UpTo({"a", "b", "%", "_"}, 3)

MCSchema == <<[name |-> <<"id">>, type |-> "INT"],
              [name |-> <<"a">>, type |-> "VARCHAR"],
              [name |-> <<"d">>, type |-> "DATE"]>>

Conds == {<<"id", " ", ">", " ", "1">>, <<"id", " ", "=", " ", "a">>,
          <<"id", " ", "!", "=", " ", "1">>, <<"a", " ", "LIKE", " ", "'", "%", "b", "'">>,
          <<"a", " ", "<", "=", " ", "\"", "'", "b", "'", "\"">>, <<"d", " ", "LIKE", " ", "1">>,
          <<"d", " ", "<", " ", "2024", "-", "12", "-", "01">>,
          <<"e", " ", "=", " ", "1">>}
Conds3 == {<<"id", " ", ">", " ", "1">>, <<"id", " ", "=", " ", "a">>,
           <<"a", " ", "LIKE", " ", "'", "%", "b", "'">>,
           <<"d", " ", "<", " ", "2024", "-", "12", "-", "01">>, <<"id", " ", "!", "=", " ", "1">>}
MCConditionals ==
    {[terms |-> t, links |-> l] : t \in [1 .. 1 -> Conds], l \in {<<>>}}
    \cup {[terms |-> t, links |-> l] : t \in [1 .. 2 -> Conds], l \in [1 .. 1 -> {"AND", "OR"}]}
    \cup {[terms |-> t, links |-> l] : t \in [1 .. 3 -> Conds3], l \in [1 .. 2 -> {"AND", "OR"}]}

Date == <<"2024", "-", "01", "-", "31">>
MCCells == {<<i, s, Date>> : i \in {<<"1">>, <<"2">>, <<"1", "2">>, <<"a">>}, s \in {<<>>, <<"b">>}}

Assign == {<<c, "=">> \o v : c \in {"id", "a", "d", "e"},
                             v \in {<<"2">>, <<"'", "a", "b", "'">>,
                                    <<"2024", "-", "12", "-", "01">>, <<"2024", "-", "13", "-", "01">>}}
MCSetTexts == Assign \cup {s \o <<",">> \o t : s \in Assign, t \in Assign}

Names == {<<"id">>, <<"a">>, <<"d">>, <<"e">>}
MCInsertLists == {[columns |-> c, values |-> v] : c \in UpTo(Names, 3), v \in UpTo({<<"1">>, <<"b">>}, 3)}

MCOrders ==
    {[type |-> t, cells |-> c] : t \in {"INT", "VARCHAR"},
        c \in UpTo({<<"1">>, <<"2">>, <<"1", "2">>, <<"-", "1">>, <<"a">>}, 4) \ {<<>>}}
    \cup {[type |-> "DATE", cells |-> c] :
        c \in UpTo({<<y, "-", m, "-", d>> :
                       y \in {"2024", "2025"}, m \in {"01", "12"}, d \in {"01", "31"}}, 3) \ {<<>>}}

CRLF == <<"\r", "\n">>
HeaderLines == {<<"Content-Length", ":", " ", "2">> \o CRLF, <<"Content-Length", ":", "1">> \o CRLF,
                <<"Content-Length", ":", "1", "2">> \o CRLF, <<"Host", ":", "x">> \o CRLF,
                <<"x">> \o CRLF}
MCHttpTexts ==
    {<<method, " ", "/p">> \o query \o <<" ", "HTTP/", "1">> \o CRLF
         \o FlattenSeq(h) \o CRLF \o body :
        method \in {"GET", "POST", "PUT"}, query \in {<<>>, <<"?", "q">>},
        h \in UpTo(HeaderLines, 2),
        body \in {<<>>, <<"a">>, <<"\r", "\n">>, <<"a", "\r", "b">>}}
\* All at once, in two pieces, and symbol by symbol.
MCCuts == {{}, 1 .. 40} \cup {{k} : k \in 1 .. 27}

ParamValues == UpTo({"a", "&", "%", "+", "2", "="}, 2)
MCParamLists ==
    {<<[key |-> k, value |-> v], [key |-> l, value |-> w]>> :
        k \in {<<"i", "d">>, <<"i">>}, l \in {<<"i", "d">>, <<"i">>, <<"x">>},
        v \in ParamValues, w \in {<<>>, <<"a">>, <<"&", "i", "=">>}}

FieldValues == UpTo({"\"", "\\", "korean", ":"}, 4) \cup UpTo({"a", "\n", "english", "\"", "n"}, 2)
MCFieldLists ==
    UNION {{<<[name |-> "english", value |-> v], [name |-> "korean", value |-> w]>>,
            <<[name |-> "korean", value |-> w], [name |-> "english", value |-> v]>>} :
              v \in FieldValues, w \in UpTo({"a", "english", "\""}, 2)}

MCWordLists == UpTo(UpTo({"a", "\"", "\\", "]", ","}, 2) \cup {<<"\n">>}, 2)

MCIdTables ==
    UpTo({<<i, <<"b">>, Date>> :
             i \in {<<"1">>, <<"2">>, <<"1", "2">>, <<"2", "0">>, <<"-", "1">>, <<"a">>}}, 3)
MCIdConds ==
    {[terms |-> <<t>>, links |-> <<>>] : t \in
        {<<"id", " ", "BETWEEN", " ">> \o a \o <<" ", "AND", " ">> \o b :
            a \in {<<"1">>, <<"2">>, <<"1", "2">>, <<"a">>},
            b \in {<<"1">>, <<"2">>, <<"1", "2">>, <<"a">>}}
        \cup {<<"id", " ", "=", " ">> \o a :
                 a \in {<<"1">>, <<"1", "2">>, <<"a">>, <<"'", "2", "'">>, <<"'", " ", "1", "'">>,
                         <<"\"", "'", "2", "'", "\"">>}}
        \cup {<<"id", " ", ">", " ", "1">>, <<"a", " ", "=", " ", "b">>}}
    \cup {[terms |-> <<<<"id", " ", "=", " ", "1">>, <<"a", " ", "=", " ", "b">>>>,
            links |-> <<l>>] : l \in {"AND", "OR"}}
=============================================================================
