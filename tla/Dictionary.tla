----------------------------- MODULE Dictionary -----------------------------
(***************************************************************************)
(* The dictionary table and its prefix index: the trie of src/src/trie.c   *)
(* and the part of src/src/engine.c that builds it, replaces it after each *)
(* write and answers LIKE 'prefix%' from it.                               *)
(*                                                                         *)
(* The table is reduced to its column english, a word per row; rows are    *)
(* numbered from 0.  A node of the trie is the path from the root to it,   *)
(* so a trie is a function from paths to row_index, -1 where no word ends. *)
(* A letter is its child number; 0 stands for every character that is not  *)
(* one of a to z.                                                          *)
(*                                                                         *)
(* A statement is one action, with the rebuild that follows it: both run   *)
(* under the table's lock (module Engine).  Only engine_is_ready is read   *)
(* outside the lock, by /api/admin/insert before its INSERT.               *)
(***************************************************************************)
EXTENDS Integers, Sequences, FiniteSets, SequencesExt, Copying

CONSTANTS
    Letters,        \* the number of children of a node: 26
    Words,          \* what clients write into english
    NoWord,         \* no request is under way
    MaxOut,         \* DICTIONARY_TRIE_MAX_ROWS
    MaxRows         \* bound: rows in the table

ASSUME DictionaryAssumption ==
    /\ Letters \in Nat \ {0}
    /\ Words \subseteq Seq(0 .. Letters)
    /\ NoWord \notin Words
    /\ MaxOut \in Nat \ {0} /\ MaxRows \in Nat

VARIABLES
    schema,         \* the schema file exists
    exists,         \* the CSV file exists
    rows,           \* the words in file order
    trie,           \* s_dictionary_trie
    ready,          \* s_dictionary_trie_ready
    admitted,       \* word of an /api/admin/insert past engine_is_ready
    \* History, for the properties only:
    unseen,         \* a statement changed the file and reported an error
    short           \* the last rebuild ran out of memory

fileVars == <<schema, exists, rows>>
trieVars == <<trie, ready, unseen, short>>
vars == <<fileVars, trieVars, admitted>>

-----------------------------------------------------------------------------
(* trie.c                                                                  *)

\* NULL, and what trie_create returns: the root alone.
NoTrie == [p \in {} |-> -1]
EmptyTrie == [p \in {<<>>} |-> -1]

\* Mutant: any character is let in.
WordIsNonempty(w) == w # <<>>

\* Only a to z: another character would index outside the children.
WordIsValid(w) == w # <<>> /\ \A i \in DOMAIN w : w[i] \in 1 .. Letters

\* Mutant: only the node of the word itself is made.
TrieInsertLeaf(t, w, row) ==
    [p \in DOMAIN t \cup {w} |-> IF p = w THEN row ELSE t[p]]

\* The nodes on the way are made as needed; a word that comes again gets the
\* later row.
TrieInsert(t, w, row) ==
    [p \in DOMAIN t \cup Prefixes(w) |->
        IF p = w THEN row ELSE IF p \in DOMAIN t THEN t[p] ELSE -1]

TrieSearchExact(t, w) == IF WordIsValid(w) /\ w \in DOMAIN t THEN t[w] ELSE -1

\* The rows below a node: its own, then child by child.
CollectPrefixRows(t, node) ==
    LET below[p \in DOMAIN t] ==
            (IF t[p] >= 0 THEN <<t[p]>> ELSE <<>>) \o
            FlattenSeq([k \in 1 .. Letters |->
                IF Append(p, k) \in DOMAIN t THEN below[Append(p, k)] ELSE <<>>])
    IN  below[node]

\* Collecting stops at max rows.
TrieSearchPrefix(t, p, max) ==
    IF ~WordIsValid(p) \/ p \notin DOMAIN t THEN <<>>
    ELSE LET found == CollectPrefixRows(t, p)
         IN  SubSeq(found, 1, IF Len(found) < max THEN Len(found) ELSE max)

-----------------------------------------------------------------------------
(* Building the trie                                                       *)

\* The loop over SELECT english FROM dictionary.
Build(s) ==
    LET upto[n \in 0 .. Len(s)] ==
            IF n = 0 THEN EmptyTrie ELSE TrieInsert(upto[n - 1], s[n], n - 1)
    IN  upto[Len(s)]

AllValid(s) == \A k \in DOMAIN s : WordIsValid(s[k])

\* dictionary_trie_rebuild_locked after the statement has left its files: one
\* word that the trie cannot hold fails it, and so does a SELECT that finds
\* no file.  Out of memory, an empty trie is installed, or none.
Rebuild ==
    /\ \/ LET ok == schema' /\ exists' /\ AllValid(rows')
          IN  /\ trie' = IF ok THEN Build(rows') ELSE EmptyTrie
              /\ ready' = ok
              /\ short' = FALSE
       \/ /\ trie' \in {EmptyTrie, NoTrie}
          /\ ready' = FALSE
          /\ short' = TRUE
    /\ unseen' = FALSE

\* A statement that reports an error leaves the trie alone.
NoRefresh == UNCHANGED trieVars

\* engine_init: with no schema the table is created first.
EngineInit ==
    /\ UNCHANGED rows
    /\ \/ schema' = TRUE /\ exists' = (exists \/ ~schema) /\ Rebuild
       \/ /\ ~schema /\ UNCHANGED <<schema, exists>>   \* the CREATE failed
          /\ trie' = EmptyTrie /\ ready' = FALSE
          /\ unseen' = FALSE /\ short' = FALSE

Init ==
    /\ schema = TRUE /\ exists = TRUE
    /\ rows = <<>>
    /\ trie = EmptyTrie /\ ready = TRUE
    /\ admitted = NoWord
    /\ unseen = FALSE /\ short = FALSE

-----------------------------------------------------------------------------
(* Statements on the dictionary                                            *)

AppendWord(w) ==
    /\ schema
    /\ Len(rows) < MaxRows
    /\ rows' = Append(rows, w)
    /\ exists' = TRUE
    /\ UNCHANGED schema

\* INSERT through /api/query: any text is taken.
Insert(w) == AppendWord(w) /\ Rebuild /\ UNCHANGED admitted

\* /api/admin/insert lets only words of a to z through, and none while the
\* engine is not ready ...
AdmitInsert(w) ==
    /\ admitted = NoWord
    /\ WordIsValid(w)
    /\ ready
    /\ admitted' = w
    /\ UNCHANGED <<fileVars, trieVars>>

\* ... and executes the INSERT whatever has become of the trie since.
AdminInsert ==
    /\ admitted # NoWord
    /\ AppendWord(admitted)
    /\ Rebuild
    /\ admitted' = NoWord

\* It fails when the table has gone.
AdminInsertFails ==
    /\ admitted # NoWord
    /\ ~schema
    /\ admitted' = NoWord
    /\ UNCHANGED <<fileVars, trieVars>>

\* INSERT with an id that is no number: the row is in the file when
\* storage_insert returns its error.
InsertHalf(w) ==
    /\ AppendWord(w)
    /\ unseen' = TRUE
    /\ UNCHANGED <<trie, ready, short, admitted>>

\* Mutant: DELETE does not refresh the trie.
DeleteUnseen(w) ==
    /\ schema /\ exists
    /\ rows' = CopyWithout(rows, w)
    /\ UNCHANGED <<schema, exists, trieVars, admitted>>

\* DELETE FROM dictionary WHERE english = w.
Delete(w) ==
    /\ schema /\ exists
    /\ rows' = CopyWithout(rows, w)
    /\ UNCHANGED <<schema, exists, admitted>>
    /\ Rebuild

\* UPDATE dictionary SET english = new WHERE english = w.
Update(w, new) ==
    /\ schema /\ exists
    /\ rows' = [k \in DOMAIN rows |-> IF rows[k] = w THEN new ELSE rows[k]]
    /\ UNCHANGED <<schema, exists, admitted>>
    /\ Rebuild

\* replace_table_file removed the file and could not rename the new one.
RewriteFails ==
    /\ schema /\ exists
    /\ rows' = <<>> /\ exists' = FALSE
    /\ unseen' = TRUE
    /\ UNCHANGED <<schema, trie, ready, short, admitted>>

\* CREATE TABLE dictionary keeps the rows of a table that is there already.
Create ==
    /\ schema' = TRUE /\ exists' = TRUE
    /\ UNCHANGED <<rows, admitted>>
    /\ Rebuild

\* A CREATE that fails has removed the schema file.
CreateFails ==
    /\ schema' = FALSE
    /\ UNCHANGED <<exists, rows, admitted>>
    /\ NoRefresh

\* A crash or engine_shutdown, and engine_init.
Restart == EngineInit /\ admitted' = NoWord

Next ==
    \/ \E w \in Words : Insert(w) \/ AdmitInsert(w) \/ InsertHalf(w) \/ Delete(w)
    \/ \E w, new \in Words : Update(w, new)
    \/ AdminInsert \/ AdminInsertFails
    \/ RewriteFails \/ Create \/ CreateFails \/ Restart

Spec == Init /\ [][Next]_vars

-----------------------------------------------------------------------------
(* SELECT ... WHERE english LIKE 'p%'                                      *)

\* qsort with int_compare, and the order in which a scan meets the rows.
InFileOrder(numbers) == SetToSortSeq(numbers, <)

\* storage_select_result: the rows that match.
ScanRows(p) ==
    InFileOrder({k - 1 : k \in {j \in DOMAIN rows : IsPrefix(p, rows[j])}})

\* should_use_trie_prefix, and the trie is there.
UseTrie(p) == WordIsValid(p) /\ ready /\ trie # NoTrie

\* Mutant: a full array is taken for a complete answer.
CompleteAtLimit(found) == Len(found) <= MaxOut

\* An array that came back full may lack rows.
Complete(found) == Len(found) < MaxOut

\* execute_select: the rows of the trie are sorted, and those outside the file
\* skipped; without a complete answer the file is scanned.  No row is found
\* twice (PrefixExact), so they are a set.
Answer(p) ==
    LET found == TrieSearchPrefix(trie, p, MaxOut)
    IN  IF UseTrie(p) /\ Complete(found)
        THEN InFileOrder(Range(found) \cap 0 .. Len(rows) - 1)
        ELSE ScanRows(p)

-----------------------------------------------------------------------------
(* Correctness                                                             *)

TypeOK ==
    /\ schema \in BOOLEAN /\ exists \in BOOLEAN
    /\ rows \in Seq(Words) /\ Len(rows) <= MaxRows
    /\ \A p \in DOMAIN trie :
           p \in Seq(1 .. Letters) /\ trie[p] \in -1 .. MaxRows - 1
    /\ ready \in BOOLEAN
    /\ admitted \in Words \cup {NoWord}
    /\ unseen \in BOOLEAN /\ short \in BOOLEAN

\* The rows of a scan without those whose word comes again further down.
LastRows(p) ==
    InFileOrder({k - 1 : k \in {j \in DOMAIN rows :
        /\ IsPrefix(p, rows[j])
        /\ \A i \in DOMAIN rows : rows[i] = rows[j] => i <= j}})

\* trie_search_exact finds a word by the last row that has it, and no other.
WordsFound ==
    schema /\ exists /\ ~unseen /\ ready =>
        \A p \in Words : TrieSearchExact(trie, p) =
                             SelectLastInSeq(rows, LAMBDA u : u = p) - 1

\* The trie answers as the scan would, in the order of the file: every word
\* with the prefix is there, a word that several rows have at least by its
\* last row, also when the array of execute_select is full; none takes two
\* places of the array; a search for a whole word finds its last row.  Only a statement that changed the file and
\* reported an error ends it, until the next write.
PrefixExact ==
    /\ WordsFound
    /\ schema /\ exists /\ ~unseen =>
           \A p \in Words :
               /\ Answer(p) \in {ScanRows(p), LastRows(p)}
               /\ UseTrie(p) => IsInjective(TrieSearchPrefix(trie, p, MaxOut))

\* engine_is_ready tells whether the table can be served: the gate is closed
\* exactly as long as some row holds a word the trie refuses, and the write
\* that removes the last of them opens it again.
ReadyExact ==
    schema /\ exists /\ ~unseen /\ ~short => ready = AllValid(rows)

\* Whatever was inserted, replaced and deleted, every branch of the trie ends
\* in a word, every node hangs below its parent, as the walk from the root
\* needs, and no child lies outside the array of children (TypeOK).
TrieTight ==
    /\ TypeOK
    /\ \A p \in DOMAIN trie :
           /\ Prefixes(p) \subseteq DOMAIN trie
           /\ p = <<>> \/ \E q \in DOMAIN trie : IsPrefix(p, q) /\ trie[q] >= 0

=============================================================================
