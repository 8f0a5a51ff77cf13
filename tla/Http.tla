-------------------------------- MODULE Http --------------------------------
(***************************************************************************)
(* http_parse_request of src/src/protocol.c: a request read from a socket  *)
(* in pieces.  A read returns what has arrived, up to the next of cuts, or *)
(* nothing at the end of the text, when the client has closed.  Lengths    *)
(* count symbols.                                                          *)
(***************************************************************************)
EXTENDS Query

CONSTANTS
    MaxHeader,      \* HTTP_MAX_HEADER_BYTES
    MaxBody         \* HTTP_MAX_BODY_BYTES

BadRequest == [ok |-> FALSE]

\* find_header_end: the first blank line, 0 for none.
HeaderEnd(s) ==
    LET at == {i \in 1 .. Len(s) - 3 : SubSeq(s, i, i + 3) = <<"\r", "\n", "\r", "\n">>}
    IN  IF at = {} THEN 0 ELSE Min(at)

\* What has been read after one more read into room symbols.
Arrives(text, cuts, total, room) ==
    Min({total + room, Len(text)} \cup {c \in cuts : c > total})

\* The first loop: what has been read when the blank line is there, 0 when the
\* buffer is full or the client closed before.
HeaderRead(text, cuts) ==
    LET from[total \in 0 .. MaxHeader] ==
            LET next == Arrives(text, cuts, total, MaxHeader - total)
            IN  IF next = total THEN 0
                ELSE IF HeaderEnd(SubSeq(text, 1, next)) # 0 THEN next
                ELSE from[next]
    IN  from[0]

\* strtok_r with "\r\n": the pieces between, empty ones left out.
Lines(s) ==
    LET from[p \in 1 .. Len(s) + 1] ==
            LET end == FirstIn(s, p, {"\r", "\n"})
            IN  IF p > Len(s) THEN <<>>
                ELSE (IF end = p THEN <<>> ELSE <<SubSeq(s, p, end - 1)>>)
                         \o from[Min({end, Len(s)}) + 1]
    IN  from[1]

Before(s, c) == SubSeq(s, 1, FirstIn(s, 1, {c}) - 1)
After(s, c) == SubSeq(s, FirstIn(s, 1, {c}) + 1, Len(s))

\* Method, target and version, by the first two blanks.
RequestLine(line) ==
    LET rest == Trim(After(line, " "))
        target == Before(rest, " ")
        version == Trim(After(rest, " "))
    IN  IF \/ " " \notin Range(line) \/ " " \notin Range(rest)
           \/ Before(line, " ") \notin {<<"GET">>, <<"POST">>}
           \/ ~IsPrefix(<<"HTTP/">>, version)
        THEN BadRequest
        ELSE [ok |-> TRUE, method |-> Before(line, " "),
              path |-> Before(target, "?"), query |-> After(target, "?")]

\* parse_content_length.
LengthOk(value) == IsNumber(value) /\ AtoI(value) \in 0 .. MaxBody

\* The header lines: the last Content-Length counts, -1 for a bad line.
ContentLength(lines) ==
    FoldLeft(LAMBDA len, line :
                 LET value == Trim(After(line, ":"))
                 IN  IF len = -1 \/ ":" \notin Range(line) THEN -1
                     ELSE IF Trim(Before(line, ":")) # <<"Content-Length">> THEN len
                     ELSE IF LengthOk(value) THEN AtoI(value)
                     ELSE -1,
             0, lines)

\* Mutant: what was read behind the blank line is forgotten.
BodyAfterRead(text, start, total, length) ==
    IF total + length > Len(text) THEN {} ELSE {SubSeq(text, total + 1, total + length)}

\* What came with the header is copied, the rest is read; {} when the client
\* closes before the last symbol.
Body(text, start, total, length) ==
    LET copied == SubSeq(text, start, Min({total, start + length - 1}))
        missing == length - Len(copied)
    IN  IF total + missing > Len(text) THEN {}
        ELSE {copied \o SubSeq(text, total + 1, total + missing)}

HttpParseRequest(text, cuts) ==
    LET total == HeaderRead(text, cuts)
        end == HeaderEnd(text)
        lines == Lines(SubSeq(text, 1, end - 1))
        first == RequestLine(lines[1])
        length == ContentLength(Tail(lines))
        body == Body(text, end + 4, total, length)
    IN  IF total = 0 THEN BadRequest
        ELSE IF lines = <<>> THEN BadRequest
        ELSE IF ~first.ok \/ length = -1 THEN BadRequest
        ELSE IF length = 0 THEN first @@ [length |-> 0, body |-> <<>>]
        ELSE IF body = {} THEN BadRequest
        ELSE first @@ [length |-> length, body |-> CHOOSE b \in body : TRUE]

-----------------------------------------------------------------------------
(* router.c: url_decode, query_param                                       *)

\* from_hex of two digits, for the characters that an encoder has to hide.
HexPair == [pair \in {<<"2", "6">>, <<"2", "5">>, <<"2", "0">>, <<"2", "B">>} |->
               CASE pair = <<"2", "6">> -> "&"
                 [] pair = <<"2", "5">> -> "%"
                 [] pair = <<"2", "0">> -> " "
                 [] pair = <<"2", "B">> -> "+"]

\* '%' without two hex digits behind it stands for itself.
UrlDecode(s) ==
    LET from[p \in 1 .. Len(s) + 1] ==
            IF p > Len(s) THEN <<>>
            ELSE IF s[p] = "%" /\ SubSeq(s, p + 1, Min({p + 2, Len(s)})) \in DOMAIN HexPair
            THEN <<HexPair[SubSeq(s, p + 1, p + 2)]>> \o from[p + 3]
            ELSE <<IF s[p] = "+" THEN " " ELSE s[p]>> \o from[p + 1]
    IN  from[1]

\* Mutant: the query is decoded before it is cut at '&'.
QueryParamDecoded(query, key) ==
    LET q == UrlDecode(query)
        starts == {1} \cup {p + 1 : p \in {k \in DOMAIN q : q[k] = "&"}}
        hits == {p \in starts : IsPrefix(key \o <<"=">>, SubSeq(q, p, Len(q)))}
    IN  IF hits = {} THEN {}
        ELSE {SubSeq(q, Min(hits) + Len(key) + 1, FirstIn(q, Min(hits), {"&"}) - 1)}

\* The first parameter of that name; {} for none.
QueryParam(query, key) ==
    LET starts == {1} \cup {p + 1 : p \in {k \in DOMAIN query : query[k] = "&"}}
        hits == {p \in starts : IsPrefix(key \o <<"=">>, SubSeq(query, p, Len(query)))}
    IN  IF hits = {} THEN {}
        ELSE {UrlDecode(SubSeq(query, Min(hits) + Len(key) + 1,
                               FirstIn(query, Min(hits), {"&"}) - 1))}

=============================================================================
