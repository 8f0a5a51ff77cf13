------------------------------- MODULE Copying -------------------------------
(***************************************************************************)
(* The loop of delete_rows_from_table in src/src/storage.c, which copies   *)
(* the records that do not match, for the two modules that delete rows.    *)
(* It is a recursive function and not SelectSeq because the proofs unfold  *)
(* it.                                                                     *)
(***************************************************************************)
EXTENDS Integers, Sequences

\* The elements of s other than x, copied one by one.
CopyWithout(s, x) ==
    LET upto[n \in 0 .. Len(s)] ==
            IF n = 0 THEN <<>>
            ELSE IF s[n] = x THEN upto[n - 1] ELSE Append(upto[n - 1], s[n])
    IN  upto[Len(s)]

=============================================================================
