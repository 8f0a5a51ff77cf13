------------------------------- MODULE Storage -------------------------------
(***************************************************************************)
(* The storage layer of src/src/storage.c: one CSV file per table, and in  *)
(* memory the caches that spare a scan of it: the meta cache (next_id and  *)
(* next_row_idx of a table), the id index (index_registry.c, one B+ tree   *)
(* per table), the list of tables whose index was built in this process,   *)
(* and the open append files.                                              *)
(*                                                                         *)
(* A statement is one action: module Engine says when statements exclude   *)
(* each other.  A row is reduced to its id, a file to the sequence of its  *)
(* rows; row numbers start at 0 as in the code.  A B+ tree is the map from *)
(* ids to row numbers it stands for, where a later insert of a key wins.   *)
(* Tables without a fixed-width .bin copy are modelled.                    *)
(***************************************************************************)
EXTENDS Integers, Sequences, FiniteSets, Copying

CONSTANTS
    Tables,
    IdTableSets,    \* which tables may be those with an id column
    UserIds,        \* ids that an INSERT gives by itself
    MetaMax,        \* STORAGE_META_CACHE_MAX, also of the rebuilt list
    TreeMax,        \* INDEX_REGISTRY_MAX_TABLES
    FpMax,          \* slots of the append file cache
    Rewrites,       \* how DELETE and UPDATE may end: done, lost or crash
    MaxRows,        \* bound: rows in a file, and row numbers given out
    MaxTotal,       \* bound: rows in all files
    MaxId           \* bound: largest id handed out

\* An id that strtol rejects and atoi reads as 0: no index entry has it.
Garbled == -1
Ids == Nat \cup {Garbled}

ASSUME StorageAssumption ==
    /\ IdTableSets \subseteq SUBSET Tables /\ IsFiniteSet(Tables)
    /\ UserIds \subseteq Ids
    /\ MetaMax \in Nat /\ TreeMax \in Nat /\ FpMax \in Nat \ {0}
    /\ Rewrites \subseteq {"done", "lost", "crash"}
    /\ MaxRows \in Nat /\ MaxTotal \in Nat /\ MaxId \in Nat

VARIABLES
    schema,         \* tables with a schema file
    id_tables,      \* tables whose schema has an id column, for good
    exists,         \* tables with a CSV file
    rows,           \* the ids in a file, in file order
    cached,         \* tables with an entry in s_meta
    next_id,
    next_row_idx,
    indexed,        \* tables with an entry in the index registry
    tree,           \* id -> row number
    rebuilt,        \* s_index_rebuilt
    append_fp,      \* s_append_fp, oldest first
    \* History, for the properties only:
    stale_meta,     \* tables whose meta entry a statement left wrong
    stale_tree,     \* tables whose tree an INSERT made wrong after that
    lost,           \* tables whose file a failed statement removed
    chosen          \* ids that clients brought and next_id did not pass

schemaVars == <<schema, id_tables>>
fileVars == <<schemaVars, exists, rows>>
metaVars == <<cached, next_id, next_row_idx>>
indexVars == <<indexed, tree, rebuilt>>
historyVars == <<stale_meta, stale_tree, lost, chosen>>
vars == <<fileVars, metaVars, indexVars, append_fp, historyVars>>

NoTree == [i \in {} |-> 0]

TypeOK ==
    /\ schema \subseteq Tables /\ exists \subseteq Tables
    /\ id_tables \in IdTableSets
    /\ rows \in [Tables -> Seq(Ids)]
    /\ cached \subseteq id_tables /\ Cardinality(cached) <= MetaMax
    /\ next_id \in [Tables -> Nat]
    /\ next_row_idx \in [Tables -> Nat]
    /\ indexed \subseteq id_tables /\ Cardinality(indexed) <= TreeMax
    /\ \A tb \in Tables :
           /\ DOMAIN tree[tb] \subseteq Ids
           /\ \A i \in DOMAIN tree[tb] : tree[tb][i] \in Nat
    /\ rebuilt \subseteq Tables /\ Cardinality(rebuilt) <= MetaMax
    /\ append_fp \in Seq(Tables) /\ Len(append_fp) <= FpMax
    /\ stale_meta \cup stale_tree \cup lost \subseteq Tables
    /\ chosen \subseteq Tables \X Ids

\* A data directory without tables and a process that has just started.
Init ==
    /\ schema = {} /\ exists = {}
    /\ id_tables \in IdTableSets
    /\ rows = [tb \in Tables |-> <<>>]
    /\ cached = {}
    /\ next_id = [tb \in Tables |-> 0]
    /\ next_row_idx = [tb \in Tables |-> 0]
    /\ indexed = {} /\ rebuilt = {}
    /\ tree = [tb \in Tables |-> NoTree]
    /\ append_fp = <<>>
    /\ stale_meta = {} /\ stale_tree = {} /\ lost = {} /\ chosen = {}

-----------------------------------------------------------------------------
(* Scans and caches                                                        *)

Positive(s) == {s[k] : k \in DOMAIN s} \cap (Nat \ {0})

\* The largest id of a scan, 0 when there is none.
TopId(s) ==
    LET ids == Positive(s) \cup {0}
    IN  CHOOSE m \in ids : \A i \in ids : i <= m

\* The row a scan leaves under an id: the last one, numbered from 0.
LastRow(s, i) ==
    (CHOOSE k \in DOMAIN s :
        s[k] = i /\ \A j \in DOMAIN s : s[j] = i => j <= k) - 1

\* bptree_insert of every positive id in file order.
IndexOf(s) == [i \in Positive(s) |-> LastRow(s, i)]

\* Entries of old that f does not have stay.
Overlay(f, old) ==
    [i \in DOMAIN f \cup DOMAIN old |-> IF i \in DOMAIN f THEN f[i] ELSE old[i]]

\* load_schema succeeds.  Its cache shows the same: CREATE drops the entry
\* before it writes or removes the file.
HasSchema(tb) == tb \in schema

RoomInMeta(tb) == tb \in cached \/ Cardinality(cached) < MetaMax
RoomForTree(tb) == tb \in indexed \/ Cardinality(indexed) < TreeMax

\* What an INSERT finds in s_meta, after scan_csv_meta if it was not there.
MetaId(tb) == IF tb \in cached THEN next_id[tb] ELSE TopId(rows[tb]) + 1
MetaRow(tb) == IF tb \in cached THEN next_row_idx[tb] ELSE Len(rows[tb])

\* History: no id of the table counts as chosen any more.
Unchosen(tb) == {c \in chosen : c[1] # tb}

SetMeta(tb, id, row) ==
    /\ cached' = cached \cup {tb}
    /\ next_id' = [next_id EXCEPT ![tb] = id]
    /\ next_row_idx' = [next_row_idx EXCEPT ![tb] = row]

IsOpen(tb) == \E k \in DOMAIN append_fp : append_fp[k] = tb

\* Mutant: no file makes room.
OpenedUncapped(tb) == IF IsOpen(tb) THEN append_fp ELSE Append(append_fp, tb)

\* storage_append_fp_get: the oldest file makes room.
Opened(tb) ==
    IF IsOpen(tb) THEN append_fp
    ELSE IF Len(append_fp) >= FpMax THEN Append(Tail(append_fp), tb)
    ELSE Append(append_fp, tb)

\* storage_append_fp_invalidate
Closed(fps, tb) == CopyWithout(fps, tb)

-----------------------------------------------------------------------------
(* storage_ensure_index, the first thing a SELECT does.                    *)

\* The tree the scan leaves: every row of the file over what was there.
ScannedTree(tb) ==
    IF tb \in exists THEN Overlay(IndexOf(rows[tb]), tree[tb]) ELSE tree[tb]

\* Mutant: a tree that an INSERT has started is taken for complete.
ScansUnindexed(tb) ==
    tb \notin rebuilt /\ tb \in id_tables \ indexed /\ RoomForTree(tb)

\* Not done in this process yet, and there is an id to index.
Scans(tb) == tb \notin rebuilt /\ tb \in id_tables /\ RoomForTree(tb)

\* Tree and meta entry come from one scan; the table is listed last, if the
\* list has room.
EnsureIndex(tb) ==
    /\ indexed' = indexed \cup (IF Scans(tb) THEN {tb} ELSE {})
    /\ tree' = IF Scans(tb) THEN [tree EXCEPT ![tb] = ScannedTree(tb)] ELSE tree
    /\ IF Scans(tb) /\ tb \in exists /\ RoomInMeta(tb)
       THEN /\ SetMeta(tb, TopId(rows[tb]) + 1, Len(rows[tb]))
            /\ stale_meta' = stale_meta \ {tb}
            /\ chosen' = Unchosen(tb)
       ELSE UNCHANGED <<metaVars, stale_meta, chosen>>
    /\ rebuilt' = rebuilt \cup
          (IF (tb \in id_tables => Scans(tb)) /\ Cardinality(rebuilt) < MetaMax
           THEN {tb} ELSE {})
    /\ stale_tree' = IF Scans(tb) /\ tb \in exists \ lost
                     THEN stale_tree \ {tb} ELSE stale_tree
    /\ UNCHANGED lost

-----------------------------------------------------------------------------
(* SELECT                                                                  *)

Select(tb) ==
    /\ HasSchema(tb)
    /\ EnsureIndex(tb)
    /\ UNCHANGED <<fileVars, append_fp>>

\* The rows of a file, by number, that hold an id between lo and hi.
Matching(tb, lo, hi) ==
    {k - 1 : k \in {j \in DOMAIN rows[tb] : rows[tb][j] \in lo .. hi}}

\* Row numbers outside the file are skipped.
RowsInFile(tb, S) == S \cap 0 .. Len(rows[tb]) - 1

\* The index answers when the table has a tree, after storage_ensure_index.
RowsInTree(tb, lo, hi) ==
    LET t == IF Scans(tb) THEN ScannedTree(tb) ELSE tree[tb]
    IN  {t[i] : i \in DOMAIN t \cap lo .. hi}

\* What a SELECT WHERE id = lo, or id BETWEEN lo AND hi, would return now:
\* the rows the tree names, else those that match in the whole file.
Lookup(tb, lo, hi) ==
    IF tb \in indexed \/ Scans(tb) THEN RowsInFile(tb, RowsInTree(tb, lo, hi))
    ELSE Matching(tb, lo, hi)

-----------------------------------------------------------------------------
(* INSERT                                                                  *)

\* A row comes to the end of the file.
RowInFile(tb, id) ==
    /\ Len(rows[tb]) < MaxRows
    /\ Cardinality(UNION {{u} \X DOMAIN rows[u] : u \in Tables}) < MaxTotal
    /\ rows' = [rows EXCEPT ![tb] = Append(@, id)]
    /\ exists' = exists \cup {tb}
    /\ UNCHANGED schemaVars

\* It goes through the append file, which stays open.
AppendRow(tb, id, row) ==
    /\ row < MaxRows
    /\ RowInFile(tb, id)
    /\ append_fp' = Opened(tb)

\* index_registry_get_or_create and bptree_insert.
IndexRow(tb, id, row) ==
    IF RoomForTree(tb)
    THEN /\ indexed' = indexed \cup {tb}
         /\ tree' = [tree EXCEPT ![tb] = Overlay([i \in {id} |-> row], @)]
    ELSE UNCHANGED <<indexed, tree>>

\* A cached entry is reset when the file it counts is gone or empty; the
\* file is not looked at while it is open for appending.
FileGone(tb) == MetaRow(tb) > 0 /\ ~IsOpen(tb) /\ rows[tb] = <<>>

AutoId(tb) == IF FileGone(tb) THEN 1 ELSE MetaId(tb)
AutoRow(tb) == IF FileGone(tb) THEN 0 ELSE MetaRow(tb)

\* History: the entry has the wrong row number, or it is the first one of a
\* tree that another table's DELETE destroyed and no SELECT will fill.
Misindexes(tb) ==
    stale_tree' = stale_tree \cup
        (IF tb \in stale_meta \/ tb \in rebuilt \ indexed THEN {tb} ELSE {})

\* Mutant: the row number is not advanced.
InsertAutoSameRow(tb) ==
    /\ HasSchema(tb) /\ tb \in id_tables
    /\ RoomInMeta(tb)
    /\ AutoId(tb) <= MaxId
    /\ AppendRow(tb, AutoId(tb), AutoRow(tb))
    /\ IndexRow(tb, AutoId(tb), AutoRow(tb))
    /\ SetMeta(tb, AutoId(tb) + 1, AutoRow(tb))
    /\ Misindexes(tb)
    /\ UNCHANGED <<rebuilt, stale_meta, lost, chosen>>

\* Mutant: an id of the client's sets next_id, also one below it.
InsertUserLowers(tb, id) ==
    /\ HasSchema(tb) /\ tb \in id_tables
    /\ AppendRow(tb, id, MetaRow(tb))
    /\ IF id = Garbled THEN UNCHANGED <<indexed, tree>>
                       ELSE IndexRow(tb, id, MetaRow(tb))
    /\ IF ~RoomInMeta(tb) THEN UNCHANGED metaVars
       ELSE SetMeta(tb, IF id = Garbled THEN MetaId(tb) ELSE id + 1,
                    MetaRow(tb) + (IF id = Garbled THEN 0 ELSE 1))
    /\ IF id = Garbled THEN UNCHANGED stale_tree ELSE Misindexes(tb)
    /\ stale_meta' = stale_meta \cup
          (IF id = Garbled /\ RoomInMeta(tb) THEN {tb} ELSE {})
    /\ UNCHANGED <<rebuilt, lost, chosen>>

\* Mutant: the id is not advanced.
InsertAutoSameId(tb) ==
    /\ HasSchema(tb) /\ tb \in id_tables
    /\ RoomInMeta(tb)
    /\ AutoId(tb) <= MaxId
    /\ AppendRow(tb, AutoId(tb), AutoRow(tb))
    /\ IndexRow(tb, AutoId(tb), AutoRow(tb))
    /\ SetMeta(tb, AutoId(tb), AutoRow(tb) + 1)
    /\ Misindexes(tb)
    /\ UNCHANGED <<rebuilt, stale_meta, lost, chosen>>

\* No id given: next_id is used.  Without room in s_meta the call fails.
InsertAuto(tb) ==
    /\ HasSchema(tb) /\ tb \in id_tables
    /\ RoomInMeta(tb)
    /\ AutoId(tb) <= MaxId
    /\ AppendRow(tb, AutoId(tb), AutoRow(tb))
    /\ IndexRow(tb, AutoId(tb), AutoRow(tb))
    /\ SetMeta(tb, AutoId(tb) + 1, AutoRow(tb) + 1)
    /\ Misindexes(tb)
    /\ chosen' = chosen \ {<<tb, AutoId(tb)>>}
    /\ UNCHANGED <<rebuilt, stale_meta, lost>>

\* The id is given: next_id stays.  An id that is no number fails after the
\* row was written, and the row number is not advanced.
InsertUser(tb, id) ==
    /\ HasSchema(tb) /\ tb \in id_tables
    /\ AppendRow(tb, id, MetaRow(tb))
    /\ IF id = Garbled THEN UNCHANGED <<indexed, tree>>
                       ELSE IndexRow(tb, id, MetaRow(tb))
    /\ IF ~RoomInMeta(tb) THEN UNCHANGED metaVars
       ELSE SetMeta(tb, MetaId(tb),
                    MetaRow(tb) + (IF id = Garbled THEN 0 ELSE 1))
    /\ IF id = Garbled THEN UNCHANGED stale_tree ELSE Misindexes(tb)
    /\ stale_meta' = stale_meta \cup
          (IF id = Garbled /\ RoomInMeta(tb) THEN {tb} ELSE {})
    /\ chosen' = chosen \cup
          (IF RoomInMeta(tb) /\ tb \notin stale_meta /\ id >= MetaId(tb)
           THEN {<<tb, id>>} ELSE {})
    /\ UNCHANGED <<rebuilt, lost>>

\* A table without an id column: the row is appended and nothing is cached.
InsertPlain(tb) ==
    /\ HasSchema(tb) /\ tb \notin id_tables
    /\ AppendRow(tb, 0, Len(rows[tb]))
    /\ UNCHANGED <<metaVars, indexVars, historyVars>>

\* The meta entry an INSERT that fails has made on the way, with or without
\* an id of its own.
MetaPrepared(tb) ==
    \/ SetMeta(tb, MetaId(tb), MetaRow(tb))
    \/ SetMeta(tb, AutoId(tb), AutoRow(tb))

\* build_row_in_schema_order finds a column missing, unknown or given twice.
InsertRejected(tb) ==
    /\ HasSchema(tb) /\ tb \in id_tables /\ RoomInMeta(tb)
    /\ MetaPrepared(tb)
    /\ UNCHANGED <<fileVars, indexVars, append_fp, historyVars>>

\* The append file could not be opened or written.  Another one may have
\* been closed for it, and fopen may have made the file.
InsertUnwritten(tb) ==
    /\ HasSchema(tb)
    /\ IF tb \in id_tables /\ RoomInMeta(tb) THEN MetaPrepared(tb)
                                            ELSE UNCHANGED metaVars
    /\ append_fp' = Closed(Opened(tb), tb)
    /\ exists' \in {exists, exists \cup {tb}}
    /\ UNCHANGED <<schemaVars, rows, indexVars, historyVars>>

\* fflush failed, but the fclose that follows wrote the row: the call fails,
\* and neither the tree nor the meta entry knows of it.
RowUnnoticed(tb, id) ==
    /\ RowInFile(tb, id)
    /\ append_fp' = Closed(Opened(tb), tb)
    /\ stale_meta' = stale_meta \cup
          (IF tb \in id_tables /\ RoomInMeta(tb) THEN {tb} ELSE {})
    /\ stale_tree' = stale_tree \cup (indexed \cap {tb})
    /\ chosen' = Unchosen(tb)
    /\ UNCHANGED <<indexVars, lost>>

\* With the id that was to be handed out, with one of the client's, and in a
\* table without ids.
InsertWrittenLate(tb) ==
    /\ HasSchema(tb)
    /\ \/ /\ tb \in id_tables /\ RoomInMeta(tb)
          /\ AutoId(tb) <= MaxId
          /\ SetMeta(tb, AutoId(tb), AutoRow(tb))
          /\ RowUnnoticed(tb, AutoId(tb))
       \/ /\ tb \in id_tables
          /\ IF RoomInMeta(tb) THEN SetMeta(tb, MetaId(tb), MetaRow(tb))
                               ELSE UNCHANGED metaVars
          /\ \E id \in UserIds : RowUnnoticed(tb, id)
       \/ /\ tb \notin id_tables
          /\ UNCHANGED metaVars
          /\ RowUnnoticed(tb, 0)

-----------------------------------------------------------------------------
(* DELETE and UPDATE rewrite the file through a temporary one.             *)

\* invalidate_meta_cache: the entry stays, with zeros.
InvalidateMeta(tb) ==
    /\ UNCHANGED cached
    /\ next_id' = IF tb \in cached THEN [next_id EXCEPT ![tb] = 0] ELSE next_id
    /\ next_row_idx' = IF tb \in cached THEN [next_row_idx EXCEPT ![tb] = 0]
                                        ELSE next_row_idx

\* rebuild_index: every tree is destroyed and this table's is built anew.
RebuildIndex(tb, s) ==
    IF tb \notin id_tables THEN UNCHANGED <<indexed, tree>>
    ELSE IF TreeMax = 0
    THEN indexed' = {} /\ tree' = [u \in Tables |-> NoTree]
    ELSE /\ indexed' = {tb}
         /\ tree' = [u \in Tables |-> IF u = tb THEN IndexOf(s) ELSE NoTree]

\* The file becomes s and the caches follow.
Rewrite(tb, s) ==
    /\ "done" \in Rewrites
    /\ HasSchema(tb) /\ tb \in exists
    /\ rows' = [rows EXCEPT ![tb] = s]
    /\ append_fp' = Closed(append_fp, tb)
    /\ InvalidateMeta(tb)
    /\ RebuildIndex(tb, s)
    /\ stale_meta' = stale_meta \cup (cached \cap {tb})
    /\ IF tb \in id_tables THEN stale_tree' = {} /\ lost' = {}
                          ELSE UNCHANGED <<stale_tree, lost>>
    /\ chosen' = Unchosen(tb)
    /\ UNCHANGED <<schemaVars, exists, rebuilt>>

\* The records delete_rows_from_table copies: those that do not match.
Without(s, id) == CopyWithout(s, id)

\* update_rows_from_table copies all and changes those that match.
Replaced(s, id, new) == [k \in DOMAIN s |-> IF s[k] = id THEN new ELSE s[k]]

\* WHERE id = ..., and no WHERE at all.
Delete(tb) ==
    \E s \in {Without(rows[tb], id) : id \in 1 .. MaxId} \cup {<<>>} : Rewrite(tb, s)

\* SET of another column, or of the id itself.
Update(tb) ==
    \E s \in {Replaced(rows[tb], id, new) :
                 id \in 1 .. MaxId, new \in 1 .. MaxId \cup UserIds} : Rewrite(tb, s)

\* replace_table_file: the old file was removed but the new one could not
\* take its name; the temporary file is removed too and nothing is told.
RewriteFails(tb) ==
    /\ "lost" \in Rewrites
    /\ HasSchema(tb) /\ tb \in exists
    /\ rows' = [rows EXCEPT ![tb] = <<>>]
    /\ exists' = exists \ {tb}
    /\ append_fp' = Closed(append_fp, tb)
    /\ lost' = lost \cup {tb}
    /\ stale_meta' = stale_meta \cup {tb}
    /\ stale_tree' = stale_tree \cup {tb}
    /\ chosen' = Unchosen(tb)
    /\ UNCHANGED <<schemaVars, metaVars, indexVars>>

-----------------------------------------------------------------------------
(* CREATE, and the life of the process                                     *)

\* The schema is written again; rows and caches of an old table stay.
Create(tb) ==
    /\ schema' = schema \cup {tb}
    /\ exists' = exists \cup {tb}
    /\ append_fp' = Closed(append_fp, tb)
    /\ UNCHANGED <<id_tables, rows, metaVars, indexVars, historyVars>>

\* A column that does not parse: the schema file is removed, an old one too.
CreateFails(tb) ==
    /\ schema' = schema \ {tb}
    /\ append_fp' = Closed(append_fp, tb)
    /\ UNCHANGED <<id_tables, exists, rows, metaVars, indexVars, historyVars>>

Forget ==
    /\ cached' = {} /\ indexed' = {} /\ rebuilt' = {}
    /\ next_id' = [tb \in Tables |-> 0]
    /\ next_row_idx' = [tb \in Tables |-> 0]
    /\ tree' = [tb \in Tables |-> NoTree]
    /\ append_fp' = <<>>
    /\ stale_meta' = {} /\ stale_tree' = {} /\ lost' = {} /\ chosen' = {}

\* storage_reset_internal_caches and index_registry_destroy_all, or a crash
\* between two statements: rows were flushed one by one.
Restart ==
    /\ Forget
    /\ UNCHANGED fileVars

\* A crash between remove and rename: the rows are only in the temporary
\* file, which nothing reads.
CrashInRewrite(tb) ==
    /\ "crash" \in Rewrites
    /\ HasSchema(tb) /\ tb \in exists
    /\ Forget
    /\ rows' = [rows EXCEPT ![tb] = <<>>]
    /\ exists' = exists \ {tb}
    /\ UNCHANGED schemaVars

Statement(tb) ==
    \/ Select(tb)
    \/ InsertAuto(tb)
    \/ \E id \in UserIds : InsertUser(tb, id)
    \/ InsertPlain(tb)
    \/ InsertRejected(tb)
    \/ InsertUnwritten(tb)
    \/ InsertWrittenLate(tb)
    \/ Delete(tb)
    \/ Update(tb)
    \/ RewriteFails(tb)
    \/ Create(tb)
    \/ CreateFails(tb)

Next ==
    \/ \E tb \in Tables : Statement(tb) \/ CrashInRewrite(tb)
    \/ Restart

Spec == Init /\ [][Next]_vars

-----------------------------------------------------------------------------
(* Correctness                                                             *)

\* Of the rows with the same id the tree knows the last one.
Answers(tb, lo, hi) ==
    {{LastRow(rows[tb], i) : i \in Positive(rows[tb]) \cap lo .. hi},
     Matching(tb, lo, hi)}

Exact(tb) ==
    \A lo \in 1 .. MaxId : \A hi \in lo .. MaxId :
        Lookup(tb, lo, hi) \in Answers(tb, lo, hi)

\* A SELECT by id finds what the file holds: for each id asked for, all its
\* rows or the last of them.  DELETE and UPDATE keep it so for every table;
\* only an INSERT that follows them, one that fails and yet leaves its row in
\* the file, or a rewrite that lost the file, ends it, and the next restart
\* mends it.
LookupExact == \A tb \in (schema \cap exists) \ stale_tree : Exact(tb)

\* next_row_idx is the number the next row will have, whichever of INSERT
\* and SELECT filled the meta cache, until DELETE, UPDATE or an INSERT that
\* failed half-way; and no cache outgrows its array (TypeOK).
RowNumbersExact ==
    /\ TypeOK
    /\ \A tb \in cached \ stale_meta : next_row_idx[tb] = Len(rows[tb])

\* The ids in the file are below id, but for those that clients brought.
Leads(tb, id) == \A i \in Positive(rows[tb]) : i >= id => <<tb, i>> \in chosen

\* The id handed out next is in the file only if a client brought it, at a
\* time when next_id had not passed it: a smaller one does no harm, and a scan
\* of the file ends the exception.
AutoIdsFresh == \A tb \in cached \ stale_meta : Leads(tb, next_id[tb])


=============================================================================
