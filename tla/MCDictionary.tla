---------------------------- MODULE MCDictionary ----------------------------
(***************************************************************************)
(* Dictionary with two letters and the words that tell its cases apart:    *)
(* the empty word, one with a character that is no letter, and words that  *)
(* are prefixes of each other.                                             *)
(***************************************************************************)
EXTENDS Dictionary

SomeWords == {<<>>, <<1, 0>>, <<1>>, <<2>>, <<1, 1>>, <<1, 2>>}
=============================================================================
