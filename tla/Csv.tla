-------------------------------- MODULE Csv ---------------------------------
(***************************************************************************)
(* The table files of src/src/storage.c: rows are written as CSV by        *)
(* INSERT, UPDATE and DELETE, and read back by every scan.                 *)
(*                                                                         *)
(* A field and a file are sequences of characters; of the characters only  *)
(* the comma, the quote, LF and CR matter.  Memory is not exhausted.       *)
(***************************************************************************)
EXTENDS Integers, Sequences, SequencesExt, FiniteSetsExt

Comma == ","
DQuote == "\""
LF == "\n"
CR == "\r"

-----------------------------------------------------------------------------
(* Writing                                                                 *)

\* Mutant: a carriage return alone is written bare.
BareChars == {Comma, DQuote, LF}

QuotedChars == {Comma, DQuote, LF, CR}

WriteField(v) ==
    IF \A k \in DOMAIN v : v[k] \notin QuotedChars THEN v
    ELSE <<DQuote>> \o FlattenSeq([k \in DOMAIN v |->
             IF v[k] = DQuote THEN <<DQuote, DQuote>> ELSE <<v[k]>>]) \o <<DQuote>>

WriteRow(row) ==
    FlattenSeq([k \in DOMAIN row |->
        (IF k = 1 THEN <<>> ELSE <<Comma>>) \o WriteField(row[k])]) \o <<LF>>

-----------------------------------------------------------------------------
(* Reading                                                                 *)

\* in_quotes before position k, of a record that starts at p: a doubled quote
\* leaves it as it was.
InQuotes(file, p, k) == Cardinality({j \in p .. k - 1 : file[j] = DQuote}) % 2 = 1

\* read_csv_record: the line break that ends the record at p, or the end of
\* the file.
RecordEnd(file, p) ==
    Min({k \in p .. Len(file) : file[k] \in {LF, CR} /\ ~InQuotes(file, p, k)}
        \cup {Len(file) + 1})

\* CR LF counts as one line break.
NextRecord(file, end) ==
    IF end < Len(file) /\ file[end] = CR /\ file[end + 1] = LF THEN end + 2
    ELSE IF end <= Len(file) THEN end + 1
    ELSE end

\* The records of a file, as count_csv_rows and the scans take them; a record
\* whose quotes stay open ends the list with an error.
Records(file) ==
    LET from[p \in 1 .. Len(file) + 1] ==
            IF p > Len(file) THEN [list |-> <<>>, ok |-> TRUE]
            ELSE LET end == RecordEnd(file, p)
                     next == NextRecord(file, end)
                 IN  IF end > Len(file) /\ InQuotes(file, p, end)
                     THEN [list |-> <<>>, ok |-> FALSE]
                     ELSE [from[next] EXCEPT !.list = <<SubSeq(file, p, end - 1)>> \o @]
    IN  from[1]

\* parse_csv_record, character by character.  A quote inside a quoted field
\* closes it unless a second one follows; after the closing quote only a
\* comma or the end may come, and an opening one must come first.
ParseChar(st, ch) ==
    LET add(mode) == [st EXCEPT !.mode = mode, !.field = Append(st.field, ch)]
        push == [mode |-> "plain", field |-> <<>>, fields |-> Append(st.fields, st.field)]
        turn(mode) == [st EXCEPT !.mode = mode]
    IN  CASE st.mode = "quoted" -> IF ch = DQuote THEN turn("closed") ELSE add("quoted")
          [] st.mode = "closed" -> IF ch = DQuote THEN add("quoted")
                                   ELSE IF ch = Comma THEN push
                                   ELSE turn("bad")
          [] st.mode = "plain"  -> IF ch = Comma THEN push
                                   ELSE IF ch # DQuote THEN add("plain")
                                   ELSE IF st.field = <<>> THEN turn("quoted")
                                   ELSE turn("bad")
          [] OTHER -> st

\* The fields, at least one; none of a malformed record.
ParseRecord(record) ==
    LET end == FoldLeft(ParseChar, [mode |-> "plain", field |-> <<>>, fields |-> <<>>], record)
    IN  IF end.mode \in {"plain", "closed"} THEN Append(end.fields, end.field)
        ELSE <<>>

\* load_table_rows: one bad record, or one of another width, fails the scan.
LoadTableRows(file, width) ==
    LET records == Records(file)
        rows == [k \in DOMAIN records.list |-> ParseRecord(records.list[k])]
    IN  [ok |-> records.ok /\ \A k \in DOMAIN rows : Len(rows[k]) = width,
         rows |-> rows]

=============================================================================
