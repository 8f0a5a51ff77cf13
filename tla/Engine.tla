------------------------------- MODULE Engine -------------------------------
(***************************************************************************)
(* The concurrency layer of the SQL engine: lock_for_statement,            *)
(* execute_statement and unlock_statement of src/src/engine.c over the     *)
(* locks of src/src/engine_lock.c.                                         *)
(*                                                                         *)
(* Every statement of a request is locked on its own.  In single mode it   *)
(* takes one global mutex and nothing else; otherwise CREATE takes the     *)
(* catalog lock for writing, SELECT the catalog and its table for reading, *)
(* and INSERT, UPDATE and DELETE the catalog for reading and the table for *)
(* writing.  A table gets its lock from a registry of MaxTables slots on   *)
(* its first use; with the registry full the statement runs without one.   *)
(*                                                                         *)
(* What runs between lock and unlock is reduced to the two structures that *)
(* the statements share and replace: the id indexes, which the first       *)
(* SELECT of a table builds (storage_ensure_index) and a DELETE or UPDATE  *)
(* of any table destroys (rebuild_index), and the dictionary trie, which a *)
(* write to the dictionary replaces.  SELECT walks both.  Rows are in      *)
(* module Storage, the content of the trie in module Dictionary.           *)
(***************************************************************************)
EXTENDS Integers, FiniteSets

CONSTANTS
    Threads,        \* pool workers that call engine_exec_sql
    Tables,         \* table names, compared as the locks do: case matters
    Dictionary,     \* the table the trie is built from
    DictNames,      \* names equal to "dictionary" when case is ignored
    Catalog,        \* s_catalog_lock, beside the locks of the tables
    MaxTables,      \* MAX_TABLES
    SingleModes,    \* the modes requests ask for; TRUE is ?mode=single
    MaxStatements   \* bound: statements that one thread executes

ASSUME EngineAssumption ==
    /\ Dictionary \in DictNames /\ DictNames \subseteq Tables
    /\ IsFiniteSet(Tables)
    /\ Catalog \notin Tables
    /\ MaxTables \in Nat
    /\ SingleModes \subseteq BOOLEAN
    /\ MaxStatements \in Nat

Locks == Tables \cup {Catalog}
Kinds == {"select", "write", "create"}

VARIABLES
    pc,             \* where a thread is in execute_statement
    kind,           \* the statement's type
    table,          \* the statement's table
    single,         \* single_mode of the request
    slot,           \* the table lookup found or made a lock (slot != NULL)
    registry,       \* names with a used slot in s_tables
    rd, wr,         \* who holds a lock for reading, for writing
    single_mutex,   \* who holds s_single_mutex
    index_rebuilt,  \* tables in s_index_rebuilt
    trie_ready,     \* s_dictionary_trie_ready
    walk,           \* what a thread is walking: nothing, the trie, an index
    freed,          \* history: whether it was freed meanwhile, and by whom
    engine,         \* between engine_init and engine_shutdown or after it
    executed        \* statements begun by a thread, bounded

stmtVars == <<kind, table, single, executed>>
lockVars == <<slot, registry, rd, wr, single_mutex>>
walkVars == <<walk, freed>>
sharedVars == <<index_rebuilt, trie_ready, walkVars>>
vars == <<pc, stmtVars, lockVars, sharedVars, engine>>

\* Between lock_for_statement and unlock_statement.
Inside == {t \in Threads :
              pc[t] \in {"exec", "build", "query", "walk", "rebuild", "refresh"}}

States == {"idle", "single", "catalog", "register", "table", "exec", "build",
           "query", "walk", "rebuild", "refresh", "unlock", "uncatalog"}

TypeOK ==
    /\ pc \in [Threads -> States]
    /\ kind \in [Threads -> Kinds]
    /\ table \in [Threads -> Tables]
    /\ single \in [Threads -> BOOLEAN]
    /\ slot \in [Threads -> BOOLEAN]
    /\ registry \subseteq Tables
    /\ Cardinality(registry) <= MaxTables
    /\ rd \in [Locks -> SUBSET Threads]
    /\ wr \in [Locks -> SUBSET Threads]
    /\ single_mutex \subseteq Threads
    /\ index_rebuilt \subseteq Tables
    /\ trie_ready \in BOOLEAN
    /\ walk \in [Threads -> {"none", "trie", "index"}]
    /\ freed \in [Threads -> {"no", "guarded", "unguarded"}]
    /\ engine \in {"up", "down"}
    /\ executed \in [Threads -> 0 .. MaxStatements]

\* engine_init has run: the trie is built, or its rebuild failed.
Init ==
    /\ pc = [t \in Threads |-> "idle"]
    /\ kind = [t \in Threads |-> "select"]
    /\ table = [t \in Threads |-> Dictionary]
    /\ single = [t \in Threads |-> FALSE]
    /\ slot = [t \in Threads |-> FALSE]
    /\ registry = {}
    /\ rd = [l \in Locks |-> {}]
    /\ wr = [l \in Locks |-> {}]
    /\ single_mutex = {}
    /\ index_rebuilt = {}
    /\ trie_ready \in BOOLEAN
    /\ walk = [t \in Threads |-> "none"]
    /\ freed = [t \in Threads |-> "no"]
    /\ engine = "up"
    /\ executed = [t \in Threads |-> 0]

Goto(t, state) == pc' = [pc EXCEPT ![t] = state]

-----------------------------------------------------------------------------
(* pthread_rwlock_t with its default attributes: readers are not held back *)
(* by a waiting writer.                                                    *)

\* Mutant: a reader does not wait for the writer.
RdLockAnyway(t, l) ==
    /\ rd' = [rd EXCEPT ![l] = @ \cup {t}]
    /\ UNCHANGED wr

RdLock(t, l) ==
    /\ wr[l] = {}
    /\ rd' = [rd EXCEPT ![l] = @ \cup {t}]
    /\ UNCHANGED wr

\* Mutant: a writer waits for the other writers only.
WrLockBesideReaders(t, l) ==
    /\ wr[l] = {}
    /\ wr' = [wr EXCEPT ![l] = {t}]
    /\ UNCHANGED rd

WrLock(t, l) ==
    /\ wr[l] = {} /\ rd[l] = {}
    /\ wr' = [wr EXCEPT ![l] = {t}]
    /\ UNCHANGED rd

Unlock(t, l) ==
    /\ rd' = [rd EXCEPT ![l] = @ \ {t}]
    /\ wr' = [wr EXCEPT ![l] = @ \ {t}]

-----------------------------------------------------------------------------
(* engine_exec_sql takes the next statement of a request.  One that does   *)
(* not parse takes no lock and changes nothing.                            *)

Begin(t, mode, k, tb) ==
    /\ engine = "up"
    /\ pc[t] = "idle"
    /\ executed[t] < MaxStatements
    /\ executed' = [executed EXCEPT ![t] = @ + 1]
    /\ single' = [single EXCEPT ![t] = mode]
    /\ kind' = [kind EXCEPT ![t] = k]
    /\ table' = [table EXCEPT ![t] = tb]
    /\ Goto(t, IF mode THEN "single" ELSE "catalog")
    /\ UNCHANGED <<lockVars, sharedVars, engine>>

-----------------------------------------------------------------------------
(* lock_for_statement                                                      *)

\* engine_lock_single_enter
EnterSingle(t) ==
    /\ pc[t] = "single"
    /\ single_mutex = {}
    /\ single_mutex' = {t}
    /\ Goto(t, "exec")
    /\ UNCHANGED <<stmtVars, slot, registry, rd, wr, sharedVars, engine>>

\* engine_lock_catalog_write for CREATE, engine_lock_catalog_read otherwise.
LockCatalog(t) ==
    /\ pc[t] = "catalog"
    /\ IF kind[t] = "create"
       THEN WrLock(t, Catalog) /\ Goto(t, "exec")
       ELSE RdLock(t, Catalog) /\ Goto(t, "register")
    /\ UNCHANGED <<stmtVars, slot, registry, single_mutex, sharedVars, engine>>

\* Mutant: a full registry still hands out one more slot.
RegisterBeyond(t) ==
    /\ pc[t] = "register"
    /\ registry' = registry \cup
          (IF Cardinality(registry) <= MaxTables THEN {table[t]} ELSE {})
    /\ slot' = [slot EXCEPT ![t] = table[t] \in registry']
    /\ Goto(t, "table")
    /\ UNCHANGED <<stmtVars, rd, wr, single_mutex, sharedVars, engine>>

\* registry_get_or_create_locked under s_registry_mutex.
Register(t) ==
    /\ pc[t] = "register"
    /\ registry' = registry \cup
          (IF Cardinality(registry) < MaxTables THEN {table[t]} ELSE {})
    /\ slot' = [slot EXCEPT ![t] = table[t] \in registry']
    /\ Goto(t, "table")
    /\ UNCHANGED <<stmtVars, rd, wr, single_mutex, sharedVars, engine>>

\* engine_lock_table_read and engine_lock_table_write, outside the mutex.
LockTable(t) ==
    /\ pc[t] = "table"
    /\ IF ~slot[t] THEN UNCHANGED <<rd, wr>>
       ELSE IF kind[t] = "select" THEN RdLock(t, table[t])
       ELSE WrLock(t, table[t])
    /\ Goto(t, "exec")
    /\ UNCHANGED <<stmtVars, slot, registry, single_mutex, sharedVars, engine>>

-----------------------------------------------------------------------------
(* execute_statement                                                       *)

\* storage_ensure_index: the flag is read first ...
CheckIndex(t) ==
    /\ pc[t] = "exec" /\ kind[t] = "select"
    /\ Goto(t, IF table[t] \in index_rebuilt THEN "query" ELSE "build")
    /\ UNCHANGED <<stmtVars, lockVars, sharedVars, engine>>

\* Mutant: a scan that did not raise the flag is tried again.
BuildIndexRetry(t) ==
    /\ pc[t] = "build"
    /\ \/ index_rebuilt' = index_rebuilt \cup {table[t]}
       \/ UNCHANGED index_rebuilt
    /\ Goto(t, "exec")
    /\ UNCHANGED <<stmtVars, lockVars, trie_ready, walkVars, engine>>

\* ... and raised after the scan, unless it ended early or its array is full.
BuildIndex(t) ==
    /\ pc[t] = "build"
    /\ \/ index_rebuilt' = index_rebuilt \cup {table[t]}
       \/ UNCHANGED index_rebuilt
    /\ Goto(t, "query")
    /\ UNCHANGED <<stmtVars, lockVars, trie_ready, walkVars, engine>>

\* execute_select walks the id index for WHERE id = or BETWEEN, and the trie
\* for a prefix search of the dictionary ...
EnterWalk(t, what) ==
    /\ pc[t] = "query"
    /\ what = "trie" => table[t] \in DictNames /\ trie_ready
    /\ walk' = [walk EXCEPT ![t] = what]
    /\ Goto(t, "walk")
    /\ UNCHANGED <<stmtVars, lockVars, index_rebuilt, trie_ready, freed, engine>>

LeaveWalk(t) ==
    /\ pc[t] = "walk"
    /\ walk' = [walk EXCEPT ![t] = "none"]
    /\ freed' = [freed EXCEPT ![t] = "no"]
    /\ Goto(t, "unlock")
    /\ UNCHANGED <<stmtVars, lockVars, index_rebuilt, trie_ready, engine>>

\* ... and reads the file only for any other.
Query(t) ==
    /\ pc[t] = "query"
    /\ Goto(t, "unlock")
    /\ UNCHANGED <<stmtVars, lockVars, sharedVars, engine>>

\* History: t frees a structure under the threads that walk it.  The locks
\* ought to keep t from those in the same mode with a lock on the same table,
\* and CREATE from everyone in normal mode.
Guarded(t, u) ==
    /\ single[t] = single[u]
    /\ \/ single[t]
       \/ kind[t] = "create"
       \/ table[t] = table[u] /\ slot[t] /\ slot[u]

Frees(t, what) ==
    freed' = [u \in Threads |->
                 IF walk[u] # what THEN freed[u]
                 ELSE IF Guarded(t, u) THEN "guarded" ELSE "unguarded"]

AfterWrite(t) == IF table[t] \in DictNames THEN "refresh" ELSE "unlock"

\* storage_create, _insert, _update, _delete: a failure ends the statement;
\* success goes on, after UPDATE and DELETE by way of rebuild_index.
Write(t) ==
    /\ pc[t] = "exec" /\ kind[t] # "select"
    /\ \/ Goto(t, "unlock")
       \/ Goto(t, AfterWrite(t))
       \/ kind[t] = "write" /\ Goto(t, "rebuild")
    /\ UNCHANGED <<stmtVars, lockVars, sharedVars, engine>>

\* rebuild_index calls index_registry_destroy_all: the trees of all tables
\* are freed.
RebuildIndex(t) ==
    /\ pc[t] = "rebuild"
    /\ Frees(t, "index")
    /\ Goto(t, AfterWrite(t))
    /\ UNCHANGED <<stmtVars, lockVars, index_rebuilt, trie_ready, walk, engine>>

\* dictionary_trie_refresh_after_write: the old trie is freed whoever walks
\* it; a word the trie cannot hold leaves it not ready.
RefreshTrie(t) ==
    /\ pc[t] = "refresh"
    /\ trie_ready' \in BOOLEAN
    /\ Frees(t, "trie")
    /\ Goto(t, "unlock")
    /\ UNCHANGED <<stmtVars, lockVars, index_rebuilt, walk, engine>>

-----------------------------------------------------------------------------
(* unlock_statement                                                        *)

LeaveSingle(t) ==
    /\ pc[t] = "unlock" /\ single[t]
    /\ single_mutex' = {}
    /\ Goto(t, "idle")
    /\ UNCHANGED <<stmtVars, slot, registry, rd, wr, sharedVars, engine>>

\* engine_lock_table_release looks the name up again; CREATE has no table.
ReleaseTable(t) ==
    /\ pc[t] = "unlock" /\ ~single[t]
    /\ IF kind[t] # "create" /\ table[t] \in registry
       THEN Unlock(t, table[t])
       ELSE UNCHANGED <<rd, wr>>
    /\ Goto(t, "uncatalog")
    /\ UNCHANGED <<stmtVars, slot, registry, single_mutex, sharedVars, engine>>

ReleaseCatalog(t) ==
    /\ pc[t] = "uncatalog"
    /\ Unlock(t, Catalog)
    /\ slot' = [slot EXCEPT ![t] = FALSE]
    /\ Goto(t, "idle")
    /\ UNCHANGED <<stmtVars, registry, single_mutex, sharedVars, engine>>

\* engine_shutdown, called by server_run when the pool's workers are joined.
EngineShutdown ==
    /\ engine = "up"
    /\ \A t \in Threads : pc[t] = "idle"
    /\ engine' = "down"
    /\ registry' = {}
    /\ index_rebuilt' = {}
    /\ trie_ready' = FALSE
    /\ UNCHANGED <<pc, stmtVars, slot, rd, wr, single_mutex, walkVars>>

Stopped == engine = "down" /\ UNCHANGED vars

LockStep(t) == EnterSingle(t) \/ LockCatalog(t) \/ Register(t) \/ LockTable(t)
ExecStep(t) ==
    \/ CheckIndex(t) \/ BuildIndex(t) \/ Query(t)
    \/ \E what \in {"trie", "index"} : EnterWalk(t, what)
    \/ LeaveWalk(t)
    \/ Write(t) \/ RebuildIndex(t) \/ RefreshTrie(t)
UnlockStep(t) == LeaveSingle(t) \/ ReleaseTable(t) \/ ReleaseCatalog(t)
Step(t) == LockStep(t) \/ ExecStep(t) \/ UnlockStep(t)

Next ==
    \/ \E t \in Threads, m \in SingleModes, k \in Kinds, tb \in Tables :
           Begin(t, m, k, tb)
    \/ \E t \in Threads : Step(t)
    \/ EngineShutdown
    \/ Stopped

Spec == Init /\ [][Next]_vars

\* A thread inside a statement keeps running.  Nobody has to send one.
FairSpec == Spec /\ \A t \in Threads : WF_vars(Step(t))

-----------------------------------------------------------------------------
(* Correctness                                                             *)

\* Two statements in the same mode do not disturb each other: in single mode
\* they never overlap; in normal mode CREATE runs alone, and a write never
\* overlaps another statement on its table as long as the table has a lock,
\* and the registry that gives the locks stays within its slots (TypeOK).
Isolation ==
    /\ TypeOK
    /\ \A t, u \in Inside :
           t # u /\ single[t] = single[u] =>
               /\ ~single[t]
               /\ kind[t] # "create"
               /\ table[t] = table[u] /\ table[t] \in registry =>
                      kind[t] = "select"

\* No thread walks a trie that dictionary_trie_replace, or an index that
\* index_registry_destroy_all, has freed in a statement that its lock should
\* have held back.  Neither structure has a lock of its own: both rely on the
\* locks of the statements.
ReadersGuarded == \A t \in Threads : freed[t] # "guarded"

\* No statement waits for ever: catalog before table is an order without a
\* cycle, and every path of execute_statement reaches unlock_statement.
StatementEnds == \A t \in Threads : pc[t] # "idle" ~> pc[t] = "idle"

\* engine.h: engine_exec_sql is thread safe.  The index registry, the list of
\* built tables and the meta cache are one array each for all tables and have
\* no lock of their own, so one thread at a time may build an index, and none
\* may free a tree that another walks.
IndexSafe ==
    /\ \A t, u \in Threads : pc[t] = "build" /\ pc[u] = "build" => t = u
    /\ \A t \in Threads : walk[t] = "index" => freed[t] = "no"

=============================================================================
