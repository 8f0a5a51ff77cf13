---------------------------- MODULE EngineProofs ----------------------------
(***************************************************************************)
(* Proofs about Engine, for every number of threads, tables and registry   *)
(* slots: statements in the same mode are isolated, and nobody frees what  *)
(* a statement it should have waited for is walking.                       *)
(***************************************************************************)
EXTENDS Engine, FiniteSetTheorems, TLAPS

-----------------------------------------------------------------------------
(* The inductive invariant                                                 *)

\* Where a statement has what lock_for_statement takes: the single mutex or
\* the table lock, and the catalog lock around it.
Locked == {"exec", "build", "query", "walk", "rebuild", "refresh", "unlock"}
InCatalog == Locked \cup {"register", "table", "uncatalog"}

\* The type and the mode of a statement decide where execute_statement can be.
PlaceInv ==
    \A t \in Threads :
        /\ pc[t] \in {"build", "query", "walk"} => kind[t] = "select"
        /\ pc[t] = "rebuild" => kind[t] = "write"
        /\ pc[t] = "refresh" => kind[t] # "select"
        /\ pc[t] = "single" => single[t]
        /\ pc[t] \in {"catalog", "register", "table", "uncatalog"} => ~single[t]
        /\ pc[t] \in {"register", "table"} => kind[t] # "create"
        /\ walk[t] # "none" => pc[t] = "walk"

\* A statement in single mode holds the mutex.
SingleInv ==
    \A t \in Threads :
        single[t] /\ pc[t] \in Locked => single_mutex = {t}

\* CREATE holds the catalog lock alone, any other statement shares it.
CatalogInv ==
    \A t \in Threads :
        ~single[t] /\ pc[t] \in InCatalog =>
            IF kind[t] = "create"
            THEN wr[Catalog] = {t} /\ rd[Catalog] = {}
            ELSE t \in rd[Catalog] /\ wr[Catalog] = {}

\* t runs a statement on a table, past the lookup of the table's lock.
OnTable(t, states) ==
    ~single[t] /\ kind[t] # "create" /\ pc[t] \in states

\* With a slot, a write holds the lock of its table alone, a SELECT shares it.
TableInv ==
    \A t \in Threads :
        OnTable(t, Locked) /\ slot[t] =>
            IF kind[t] = "select"
            THEN t \in rd[table[t]] /\ wr[table[t]] = {}
            ELSE wr[table[t]] = {t} /\ rd[table[t]] = {}

\* The lookup gave no slot only because the registry is full of other tables,
\* and it stays full, so that the table gets none while the statement runs.
SlotInv ==
    \A t \in Threads :
        OnTable(t, Locked \cup {"table"}) /\ ~slot[t] =>
            /\ Cardinality(registry) >= MaxTables
            /\ table[t] \notin registry

LockInv == TypeOK /\ PlaceInv /\ SingleInv /\ CatalogInv /\ TableInv /\ SlotInv

-----------------------------------------------------------------------------
(* Facts about one step                                                    *)

\* s_catalog_lock is none of the locks of s_tables.
LEMMA LocksApart ==
  /\ Catalog \in Locks
  /\ Tables \subseteq Locks
  /\ \A tb \in Tables : tb # Catalog
BY EngineAssumption DEF Locks

\* registry_get_or_create_locked keeps the registry within its slots, and
\* leaves a full one as it is.
LEMMA RegistryBound ==
  ASSUME TypeOK, NEW t \in Threads, Register(t)
  PROVE  /\ registry' \subseteq Tables
         /\ Cardinality(registry') \in Nat
         /\ Cardinality(registry') <= MaxTables
         /\ Cardinality(registry) \in Nat
         /\ Cardinality(registry) >= MaxTables => registry' = registry
<1> USE EngineAssumption
<1>1. IsFiniteSet(registry) /\ Cardinality(registry) \in Nat
  BY FS_Subset, FS_CardinalityType DEF TypeOK
<1>2. CASE Cardinality(registry) < MaxTables
  <2>1. registry' = registry \cup {table[t]}
    BY <1>2 DEF Register
  <2>2. Cardinality(registry \cup {table[t]}) =
           IF table[t] \in registry THEN Cardinality(registry)
                                    ELSE Cardinality(registry) + 1
    BY <1>1, FS_AddElement
  <2>3. Cardinality(registry') \in Nat
    BY <1>1, <2>1, <2>2
  <2> QED
    BY <1>1, <1>2, <2>1, <2>2, <2>3 DEF TypeOK
<1>3. CASE ~(Cardinality(registry) < MaxTables)
  <2>1. registry' = registry
    BY <1>3 DEF Register
  <2> QED
    BY <1>1, <2>1 DEF TypeOK
<1> QED
  BY <1>2, <1>3

\* The initial state satisfies the invariant: nobody runs a statement.
LEMMA LockInvInit == Init => LockInv
<1> SUFFICES ASSUME Init PROVE LockInv
  OBVIOUS
<1> USE EngineAssumption DEF Init
<1>1. TypeOK
  BY FS_EmptySet DEF TypeOK, States, Kinds, Locks
<1> QED
  BY <1>1 DEF LockInv, PlaceInv, SingleInv, CatalogInv, TableInv, SlotInv,
              OnTable, Locked, InCatalog

\* Every step keeps the types; only Register can fill the registry.
LEMMA TypeStep ==
  ASSUME TypeOK, Next
  PROVE  TypeOK'
<1> USE EngineAssumption DEF stmtVars, lockVars, walkVars, sharedVars, Goto
<1>1. ASSUME NEW t \in Threads, NEW m \in SingleModes, NEW k \in Kinds,
             NEW tb \in Tables, Begin(t, m, k, tb)
      PROVE  TypeOK'
  BY <1>1 DEF Begin, TypeOK, States
<1>2. ASSUME NEW t \in Threads, LockStep(t) PROVE TypeOK'
  <2>1. CASE EnterSingle(t)
    BY <2>1 DEF EnterSingle, TypeOK, States
  <2>2. CASE LockCatalog(t)
    BY <2>2 DEF LockCatalog, RdLock, WrLock, TypeOK, States, Locks
  <2>3. CASE Register(t)
    <3>1. slot' \in [Threads -> BOOLEAN]
      <4> DEFINE found == table[t] \in registry'
      <4>1. found \in BOOLEAN /\ slot' = [slot EXCEPT ![t] = found]
        BY <2>3 DEF Register
      <4> HIDE DEF found
      <4> QED
        BY <4>1 DEF TypeOK
    <3>2. /\ registry' \subseteq Tables
          /\ Cardinality(registry') <= MaxTables
      BY <2>3, RegistryBound
    <3>3. pc' \in [Threads -> States]
      BY <2>3 DEF Register, TypeOK, States
    <3> QED
      BY <2>3, <3>1, <3>2, <3>3 DEF Register, TypeOK
  <2>4. CASE LockTable(t)
    BY <2>4 DEF LockTable, RdLock, WrLock, TypeOK, States, Locks
  <2> QED
    BY <1>2, <2>1, <2>2, <2>3, <2>4 DEF LockStep
<1>3. ASSUME NEW t \in Threads, ExecStep(t) PROVE TypeOK'
  <2>1. CASE CheckIndex(t) \/ BuildIndex(t) \/ Query(t)
    BY <2>1 DEF CheckIndex, BuildIndex, Query, TypeOK, States
  <2>2. CASE (\E what \in {"trie", "index"} : EnterWalk(t, what))
             \/ LeaveWalk(t)
    BY <2>2 DEF EnterWalk, LeaveWalk, TypeOK, States
  <2>3. CASE Write(t)
    BY <2>3 DEF Write, AfterWrite, TypeOK, States
  <2>4. CASE RebuildIndex(t) \/ RefreshTrie(t)
    BY <2>4 DEF RebuildIndex, RefreshTrie, Frees, AfterWrite, TypeOK, States
  <2> QED
    BY <1>3, <2>1, <2>2, <2>3, <2>4 DEF ExecStep
<1>4. ASSUME NEW t \in Threads, UnlockStep(t) PROVE TypeOK'
  <2>1. CASE LeaveSingle(t)
    BY <2>1 DEF LeaveSingle, TypeOK, States
  <2>2. CASE ReleaseTable(t)
    BY <2>2 DEF ReleaseTable, Unlock, TypeOK, States, Locks
  <2>3. CASE ReleaseCatalog(t)
    BY <2>3 DEF ReleaseCatalog, Unlock, TypeOK, States, Locks
  <2> QED
    BY <1>4, <2>1, <2>2, <2>3 DEF UnlockStep
<1>5. ASSUME EngineShutdown PROVE TypeOK'
  <2>1. registry' = {} /\ Cardinality(registry') = 0
    BY <1>5, FS_EmptySet DEF EngineShutdown
  <2>2. trie_ready' \in BOOLEAN
    BY <1>5 DEF EngineShutdown
  <2> QED
    BY <1>5, <2>1, <2>2 DEF EngineShutdown, TypeOK
<1>6. ASSUME Stopped PROVE TypeOK'
  BY <1>6 DEF Stopped, vars, TypeOK
<1> QED
  BY <1>1, <1>2, <1>3, <1>4, <1>5, <1>6 DEF Next, Step

-----------------------------------------------------------------------------
(* Every step keeps the invariant: one lemma per part of it                *)

\* execute_statement takes a SELECT through the index and the walk, a write
\* through the rebuild and the refresh, and neither mode into the other's locks.
LEMMA PlaceStep ==
  ASSUME TypeOK, PlaceInv, Next
  PROVE  PlaceInv'
<1> USE EngineAssumption DEF TypeOK, States, stmtVars, lockVars, walkVars,
        sharedVars, Goto, PlaceInv
<1>1. ASSUME NEW t \in Threads, NEW m \in SingleModes, NEW k \in Kinds,
             NEW tb \in Tables, Begin(t, m, k, tb)
      PROVE  PlaceInv'
  BY <1>1 DEF Begin
<1>2. ASSUME NEW t \in Threads, LockStep(t) PROVE PlaceInv'
  <2>1. CASE EnterSingle(t)
    BY <2>1 DEF EnterSingle
  <2>2. CASE LockCatalog(t)
    BY <2>2 DEF LockCatalog, RdLock, WrLock, Locks
  <2>3. CASE Register(t)
    BY <2>3 DEF Register
  <2>4. CASE LockTable(t)
    BY <2>4 DEF LockTable, RdLock, WrLock, Locks
  <2> QED
    BY <1>2, <2>1, <2>2, <2>3, <2>4 DEF LockStep
<1>3. ASSUME NEW t \in Threads, ExecStep(t) PROVE PlaceInv'
  <2>1. CASE CheckIndex(t) \/ BuildIndex(t) \/ Query(t)
    BY <2>1 DEF CheckIndex, BuildIndex, Query
  <2>2. CASE (\E what \in {"trie", "index"} : EnterWalk(t, what))
             \/ LeaveWalk(t)
    BY <2>2 DEF EnterWalk, LeaveWalk
  <2>3. CASE Write(t)
    BY <2>3 DEF Write, AfterWrite
  <2>4. CASE RebuildIndex(t) \/ RefreshTrie(t)
    BY <2>4 DEF RebuildIndex, RefreshTrie, AfterWrite
  <2> QED
    BY <1>3, <2>1, <2>2, <2>3, <2>4 DEF ExecStep
<1>4. ASSUME NEW t \in Threads, UnlockStep(t) PROVE PlaceInv'
  <2>1. CASE LeaveSingle(t)
    BY <2>1 DEF LeaveSingle
  <2>2. CASE ReleaseTable(t)
    BY <2>2 DEF ReleaseTable, Unlock, Locks
  <2>3. CASE ReleaseCatalog(t)
    BY <2>3 DEF ReleaseCatalog, Unlock, Locks
  <2> QED
    BY <1>4, <2>1, <2>2, <2>3 DEF UnlockStep
<1>5. CASE EngineShutdown
  BY <1>5 DEF EngineShutdown
<1>6. CASE Stopped
  BY <1>6 DEF Stopped, vars
<1> QED
  BY <1>1, <1>2, <1>3, <1>4, <1>5, <1>6 DEF Next, Step

\* The single mutex is taken when free and given back by its holder only.
LEMMA SingleStep ==
  ASSUME TypeOK, PlaceInv, SingleInv, Next
  PROVE  SingleInv'
<1> USE EngineAssumption DEF TypeOK, States, stmtVars, lockVars, walkVars,
        sharedVars, Goto, PlaceInv, SingleInv, Locked
<1>1. ASSUME NEW t \in Threads, NEW m \in SingleModes, NEW k \in Kinds,
             NEW tb \in Tables, Begin(t, m, k, tb)
      PROVE  SingleInv'
  BY <1>1 DEF Begin
<1>2. ASSUME NEW t \in Threads, LockStep(t) PROVE SingleInv'
  <2>1. CASE EnterSingle(t)
    BY <2>1 DEF EnterSingle
  <2>2. CASE LockCatalog(t)
    BY <2>2 DEF LockCatalog, RdLock, WrLock, Locks
  <2>3. CASE Register(t)
    BY <2>3 DEF Register
  <2>4. CASE LockTable(t)
    BY <2>4 DEF LockTable, RdLock, WrLock, Locks
  <2> QED
    BY <1>2, <2>1, <2>2, <2>3, <2>4 DEF LockStep
<1>3. ASSUME NEW t \in Threads, ExecStep(t) PROVE SingleInv'
  <2>1. CASE CheckIndex(t) \/ BuildIndex(t) \/ Query(t)
    BY <2>1 DEF CheckIndex, BuildIndex, Query
  <2>2. CASE (\E what \in {"trie", "index"} : EnterWalk(t, what))
             \/ LeaveWalk(t)
    BY <2>2 DEF EnterWalk, LeaveWalk
  <2>3. CASE Write(t)
    BY <2>3 DEF Write, AfterWrite
  <2>4. CASE RebuildIndex(t) \/ RefreshTrie(t)
    BY <2>4 DEF RebuildIndex, RefreshTrie, AfterWrite
  <2> QED
    BY <1>3, <2>1, <2>2, <2>3, <2>4 DEF ExecStep
<1>4. ASSUME NEW t \in Threads, UnlockStep(t) PROVE SingleInv'
  <2>1. CASE LeaveSingle(t)
    BY <2>1 DEF LeaveSingle
  <2>2. CASE ReleaseTable(t)
    BY <2>2 DEF ReleaseTable, Unlock, Locks
  <2>3. CASE ReleaseCatalog(t)
    BY <2>3 DEF ReleaseCatalog, Unlock, Locks
  <2> QED
    BY <1>4, <2>1, <2>2, <2>3 DEF UnlockStep
<1>5. CASE EngineShutdown
  BY <1>5 DEF EngineShutdown
<1>6. CASE Stopped
  BY <1>6 DEF Stopped, vars
<1> QED
  BY <1>1, <1>2, <1>3, <1>4, <1>5, <1>6 DEF Next, Step

\* The catalog lock is exclusive for CREATE until its own uncatalog step.
LEMMA CatalogStep ==
  ASSUME TypeOK, PlaceInv, CatalogInv, Next
  PROVE  CatalogInv'
<1> USE EngineAssumption DEF TypeOK, States, stmtVars, lockVars, walkVars,
        sharedVars, Goto, PlaceInv, CatalogInv,
        Locked, InCatalog
<1>1. ASSUME NEW t \in Threads, NEW m \in SingleModes, NEW k \in Kinds,
             NEW tb \in Tables, Begin(t, m, k, tb)
      PROVE  CatalogInv'
  BY <1>1 DEF Begin
<1>2. ASSUME NEW t \in Threads, LockStep(t) PROVE CatalogInv'
  <2>1. CASE EnterSingle(t)
    BY <2>1 DEF EnterSingle
  <2>2. CASE LockCatalog(t)
    <3>1. CASE kind[t] = "create"
      <4>1. /\ rd[Catalog] = {} /\ wr[Catalog] = {}
            /\ rd'[Catalog] = {} /\ wr'[Catalog] = {t}
            /\ kind' = kind /\ single' = single
            /\ pc' = [pc EXCEPT ![t] = "exec"]
        BY <2>2, <3>1, LocksApart DEF LockCatalog, WrLock
      <4>2. \A u \in Threads : ~(~single[u] /\ pc[u] \in InCatalog)
        BY <4>1
      <4> QED
        BY <3>1, <4>1, <4>2
    <3>2. CASE kind[t] # "create"
      <4>1. /\ wr[Catalog] = {} /\ wr'[Catalog] = {}
            /\ rd'[Catalog] = rd[Catalog] \cup {t}
            /\ kind' = kind /\ single' = single
            /\ pc' = [pc EXCEPT ![t] = "register"]
        BY <2>2, <3>2, LocksApart DEF LockCatalog, RdLock
      <4> QED
        BY <3>2, <4>1
    <3> QED
      BY <3>1, <3>2
  <2>3. CASE Register(t)
    BY <2>3 DEF Register
  <2>4. CASE LockTable(t)
    BY <2>4 DEF LockTable, RdLock, WrLock, Locks
  <2> QED
    BY <1>2, <2>1, <2>2, <2>3, <2>4 DEF LockStep
<1>3. ASSUME NEW t \in Threads, ExecStep(t) PROVE CatalogInv'
  <2>1. CASE CheckIndex(t) \/ BuildIndex(t) \/ Query(t)
    BY <2>1 DEF CheckIndex, BuildIndex, Query
  <2>2. CASE (\E what \in {"trie", "index"} : EnterWalk(t, what))
             \/ LeaveWalk(t)
    BY <2>2 DEF EnterWalk, LeaveWalk
  <2>3. CASE Write(t)
    BY <2>3 DEF Write, AfterWrite
  <2>4. CASE RebuildIndex(t) \/ RefreshTrie(t)
    BY <2>4 DEF RebuildIndex, RefreshTrie, AfterWrite
  <2> QED
    BY <1>3, <2>1, <2>2, <2>3, <2>4 DEF ExecStep
<1>4. ASSUME NEW t \in Threads, UnlockStep(t) PROVE CatalogInv'
  <2>1. CASE LeaveSingle(t)
    BY <2>1 DEF LeaveSingle
  <2>2. CASE ReleaseTable(t)
    BY <2>2 DEF ReleaseTable, Unlock, Locks
  <2>3. CASE ReleaseCatalog(t)
    BY <2>3 DEF ReleaseCatalog, Unlock, Locks
  <2> QED
    BY <1>4, <2>1, <2>2, <2>3 DEF UnlockStep
<1>5. CASE EngineShutdown
  BY <1>5 DEF EngineShutdown
<1>6. CASE Stopped
  BY <1>6 DEF Stopped, vars
<1> QED
  BY <1>1, <1>2, <1>3, <1>4, <1>5, <1>6 DEF Next, Step

\* A table lock is kept from the end of lock_for_statement to the release
\* that looks the name up again.
LEMMA TableStep ==
  ASSUME TypeOK, PlaceInv, TableInv, Next
  PROVE  TableInv'
<1> USE EngineAssumption DEF TypeOK, States, stmtVars, lockVars, walkVars,
        sharedVars, Goto, PlaceInv, TableInv,
        OnTable, Locked
<1>1. ASSUME NEW t \in Threads, NEW m \in SingleModes, NEW k \in Kinds,
             NEW tb \in Tables, Begin(t, m, k, tb)
      PROVE  TableInv'
  BY <1>1 DEF Begin
<1>2. ASSUME NEW t \in Threads, LockStep(t) PROVE TableInv'
  <2>1. CASE EnterSingle(t)
    BY <2>1 DEF EnterSingle
  <2>2. CASE LockCatalog(t)
    BY <2>2 DEF LockCatalog, RdLock, WrLock, Locks
  <2>3. CASE Register(t)
    BY <2>3 DEF Register
  <2>4. CASE LockTable(t)
    <3>1. CASE ~slot[t]
      BY <2>4, <3>1 DEF LockTable
    <3>2. CASE slot[t] /\ kind[t] = "select"
      <4>1. /\ wr[table[t]] = {} /\ wr' = wr
            /\ rd'[table[t]] = rd[table[t]] \cup {t}
            /\ \A l \in Tables \ {table[t]} : rd'[l] = rd[l]
            /\ kind' = kind /\ single' = single /\ table' = table
            /\ slot' = slot /\ pc' = [pc EXCEPT ![t] = "exec"]
        BY <2>4, <3>2, LocksApart DEF LockTable, RdLock
      <4>2. \A l \in Tables : rd[l] \subseteq rd'[l]
        BY <4>1
      <4>3. ASSUME NEW u \in Threads, u # t, OnTable(u, Locked)', slot'[u]
            PROVE  IF kind[u] = "select"
                   THEN u \in rd[table[u]] /\ wr[table[u]] = {}
                   ELSE wr[table[u]] = {u} /\ rd[table[u]] = {}
        BY <4>1, <4>3
      <4>4. ASSUME NEW u \in Threads, u # t, OnTable(u, Locked)', slot'[u],
                   kind[u] # "select"
            PROVE  rd'[table[u]] = {}
        <5>1. table[u] # table[t]
          BY <4>1, <4>3, <4>4
        <5> QED
          BY <4>1, <4>3, <4>4, <5>1
      <4> QED
        BY <3>2, <4>1, <4>2, <4>3, <4>4
    <3>3. CASE slot[t] /\ kind[t] # "select"
      <4>1. /\ wr[table[t]] = {} /\ rd[table[t]] = {} /\ rd' = rd
            /\ wr'[table[t]] = {t}
            /\ \A l \in Tables \ {table[t]} : wr'[l] = wr[l]
            /\ kind' = kind /\ single' = single /\ table' = table
            /\ slot' = slot /\ pc' = [pc EXCEPT ![t] = "exec"]
        BY <2>4, <3>3, LocksApart DEF LockTable, WrLock
      <4>2. \A u \in Threads : OnTable(u, Locked) /\ slot[u] =>
                                  table[u] # table[t]
        <5> SUFFICES ASSUME NEW u \in Threads, OnTable(u, Locked), slot[u],
                            table[u] = table[t]
                     PROVE  FALSE
          OBVIOUS
        <5>1. u \in rd[table[t]] \/ wr[table[t]] = {u}
          OBVIOUS
        <5> QED
          BY <4>1, <5>1
      <4> QED
        BY <3>3, <4>1, <4>2
    <3> QED
      BY <3>1, <3>2, <3>3
  <2> QED
    BY <1>2, <2>1, <2>2, <2>3, <2>4 DEF LockStep
<1>3. ASSUME NEW t \in Threads, ExecStep(t) PROVE TableInv'
  <2>1. CASE CheckIndex(t) \/ BuildIndex(t) \/ Query(t)
    BY <2>1 DEF CheckIndex, BuildIndex, Query
  <2>2. CASE (\E what \in {"trie", "index"} : EnterWalk(t, what))
             \/ LeaveWalk(t)
    BY <2>2 DEF EnterWalk, LeaveWalk
  <2>3. CASE Write(t)
    BY <2>3 DEF Write, AfterWrite
  <2>4. CASE RebuildIndex(t) \/ RefreshTrie(t)
    BY <2>4 DEF RebuildIndex, RefreshTrie, AfterWrite
  <2> QED
    BY <1>3, <2>1, <2>2, <2>3, <2>4 DEF ExecStep
<1>4. ASSUME NEW t \in Threads, UnlockStep(t) PROVE TableInv'
  <2>1. CASE LeaveSingle(t)
    BY <2>1 DEF LeaveSingle
  <2>2. CASE ReleaseTable(t)
    BY <2>2 DEF ReleaseTable, Unlock, Locks
  <2>3. CASE ReleaseCatalog(t)
    BY <2>3 DEF ReleaseCatalog, Unlock, Locks
  <2> QED
    BY <1>4, <2>1, <2>2, <2>3 DEF UnlockStep
<1>5. CASE EngineShutdown
  BY <1>5 DEF EngineShutdown
<1>6. CASE Stopped
  BY <1>6 DEF Stopped, vars
<1> QED
  BY <1>1, <1>2, <1>3, <1>4, <1>5, <1>6 DEF Next, Step

\* A statement that found the registry full runs to its end without a lock
\* of its table being created meanwhile.
LEMMA SlotStep ==
  ASSUME TypeOK, PlaceInv, SlotInv, Next
  PROVE  SlotInv'
<1> USE EngineAssumption DEF TypeOK, States, stmtVars, lockVars, walkVars,
        sharedVars, Goto, PlaceInv, SlotInv,
        OnTable, Locked
<1>1. ASSUME NEW t \in Threads, NEW m \in SingleModes, NEW k \in Kinds,
             NEW tb \in Tables, Begin(t, m, k, tb)
      PROVE  SlotInv'
  BY <1>1 DEF Begin
<1>2. ASSUME NEW t \in Threads, LockStep(t) PROVE SlotInv'
  <2>1. CASE EnterSingle(t)
    BY <2>1 DEF EnterSingle
  <2>2. CASE LockCatalog(t)
    BY <2>2 DEF LockCatalog, RdLock, WrLock, Locks
  <2>3. CASE Register(t)
    <3>1. /\ kind' = kind /\ single' = single /\ table' = table
          /\ pc' = [pc EXCEPT ![t] = "table"]
          /\ \A u \in Threads \ {t} : slot'[u] = slot[u]
          /\ slot'[t] <=> table[t] \in registry'
      BY <2>3, Zenon DEF Register
    <3>2. /\ Cardinality(registry') \in Nat /\ Cardinality(registry) \in Nat
          /\ Cardinality(registry) >= MaxTables => registry' = registry
      BY <2>3, RegistryBound
    <3>3. ~slot'[t] => /\ Cardinality(registry') >= MaxTables
                       /\ table[t] \notin registry'
      <4>1. CASE Cardinality(registry) < MaxTables
        <5>1. table[t] \in registry'
          BY <2>3, <4>1 DEF Register
        <5> QED
          BY <3>1, <5>1, Zenon
      <4>2. CASE Cardinality(registry) >= MaxTables
        <5>1. registry' = registry
          BY <3>2, <4>2
        <5> QED
          BY <3>1, <4>2, <5>1, Zenon
      <4> QED
        BY <3>2, <4>1, <4>2
    <3> QED
      BY <3>1, <3>2, <3>3
  <2>4. CASE LockTable(t)
    BY <2>4 DEF LockTable, RdLock, WrLock, Locks
  <2> QED
    BY <1>2, <2>1, <2>2, <2>3, <2>4 DEF LockStep
<1>3. ASSUME NEW t \in Threads, ExecStep(t) PROVE SlotInv'
  <2>1. CASE CheckIndex(t) \/ BuildIndex(t) \/ Query(t)
    BY <2>1 DEF CheckIndex, BuildIndex, Query
  <2>2. CASE (\E what \in {"trie", "index"} : EnterWalk(t, what))
             \/ LeaveWalk(t)
    BY <2>2 DEF EnterWalk, LeaveWalk
  <2>3. CASE Write(t)
    BY <2>3 DEF Write, AfterWrite
  <2>4. CASE RebuildIndex(t) \/ RefreshTrie(t)
    BY <2>4 DEF RebuildIndex, RefreshTrie, AfterWrite
  <2> QED
    BY <1>3, <2>1, <2>2, <2>3, <2>4 DEF ExecStep
<1>4. ASSUME NEW t \in Threads, UnlockStep(t) PROVE SlotInv'
  <2>1. CASE LeaveSingle(t)
    BY <2>1 DEF LeaveSingle
  <2>2. CASE ReleaseTable(t)
    BY <2>2 DEF ReleaseTable, Unlock, Locks
  <2>3. CASE ReleaseCatalog(t)
    BY <2>3 DEF ReleaseCatalog, Unlock, Locks
  <2> QED
    BY <1>4, <2>1, <2>2, <2>3 DEF UnlockStep
<1>5. CASE EngineShutdown
  BY <1>5 DEF EngineShutdown
<1>6. CASE Stopped
  BY <1>6 DEF Stopped, vars
<1> QED
  BY <1>1, <1>2, <1>3, <1>4, <1>5, <1>6 DEF Next, Step

\* Every step, and the stuttering step, keeps the whole invariant.
LEMMA LockInvStep ==
  ASSUME LockInv, [Next]_vars
  PROVE  LockInv'
<1>1. CASE Next
  BY <1>1, TypeStep, PlaceStep, SingleStep, CatalogStep, TableStep, SlotStep
     DEF LockInv
<1>2. CASE UNCHANGED vars
  BY <1>2 DEF vars, stmtVars, lockVars, walkVars, sharedVars, LockInv, TypeOK,
              PlaceInv, SingleInv, CatalogInv, TableInv, SlotInv, OnTable
<1> QED
  BY <1>1, <1>2

\* The invariant holds in every reachable state.
LEMMA LockInvHolds == Spec => []LockInv
<1>1. Init => LockInv
  BY LockInvInit
<1>2. LockInv /\ [Next]_vars => LockInv'
  BY LockInvStep
<1> QED
  BY <1>1, <1>2, PTL DEF Spec

-----------------------------------------------------------------------------
(* The theorems                                                            *)

\* In the same mode a statement of single mode, or CREATE, overlaps nobody,
\* and a write overlaps no other statement on a table that has a lock: what
\* lock_for_statement is for, however many threads and tables there are and
\* however early the registry is full.
THEOREM StatementsIsolated == Spec => []Isolation
<1>1. LockInv => Isolation
  <2> SUFFICES ASSUME LockInv, NEW t \in Inside, NEW u \in Inside, t # u,
                      single[t] = single[u]
               PROVE  /\ ~single[t]
                      /\ kind[t] # "create"
                      /\ table[t] = table[u] /\ table[t] \in registry =>
                             kind[t] = "select"
    BY DEF Isolation, LockInv
  <2>1. /\ t \in Threads /\ u \in Threads
        /\ pc[t] \in Locked /\ pc[u] \in Locked
        /\ pc[t] \in InCatalog /\ pc[u] \in InCatalog
    BY DEF Inside, Locked, InCatalog
  <2>2. ~single[t]
    BY <2>1 DEF LockInv, SingleInv
  <2>3. kind[t] # "create"
    BY <2>1, <2>2 DEF LockInv, CatalogInv
  <2>4. kind[u] # "create"
    BY <2>1, <2>2 DEF LockInv, CatalogInv
  <2>5. ASSUME table[t] = table[u], table[t] \in registry
        PROVE  kind[t] = "select"
    <3>1. slot[t] /\ slot[u]
      BY <2>1, <2>2, <2>3, <2>4, <2>5 DEF LockInv, SlotInv, OnTable
    <3>2. u \in rd[table[u]] \/ wr[table[u]] = {u}
      BY <2>1, <2>2, <2>4, <3>1 DEF LockInv, TableInv, OnTable
    <3>3. kind[t] # "select" => wr[table[t]] = {t} /\ rd[table[t]] = {}
      BY <2>1, <2>2, <2>3, <3>1 DEF LockInv, TableInv, OnTable
    <3> QED
      BY <2>1, <2>5, <3>2, <3>3
  <2> QED
    BY <2>2, <2>3, <2>5
<1> QED
  BY <1>1, LockInvHolds, PTL

\* Who walks and who frees are never both inside when the locks should keep
\* them apart: rebuild_index and dictionary_trie_refresh_after_write run under
\* the lock of a write, the walk of execute_select under that of a SELECT.
LEMMA FreesUnguarded ==
  ASSUME LockInv, NEW t \in Threads, NEW u \in Threads,
         pc[t] \in {"rebuild", "refresh"}, walk[u] # "none"
  PROVE  ~Guarded(t, u)
<1> SUFFICES ASSUME Guarded(t, u) PROVE FALSE
  OBVIOUS
<1>1. /\ pc[u] = "walk" /\ kind[u] = "select" /\ kind[t] # "select"
      /\ t # u /\ single[t] = single[u]
  BY DEF LockInv, PlaceInv, Guarded
<1>2. ~single[t] /\ ~single[u]
  BY <1>1 DEF LockInv, SingleInv, Locked
<1>3. u \in rd[Catalog]
  BY <1>1, <1>2 DEF LockInv, CatalogInv, InCatalog, Locked
<1>4. kind[t] # "create"
  BY <1>2, <1>3 DEF LockInv, CatalogInv, InCatalog, Locked
<1>5. table[t] = table[u] /\ slot[t] /\ slot[u]
  BY <1>2, <1>4 DEF Guarded
<1>6. u \in rd[table[u]]
  BY <1>1, <1>2, <1>5 DEF LockInv, TableInv, OnTable, Locked
<1>7. rd[table[t]] = {}
  BY <1>1, <1>2, <1>4, <1>5 DEF LockInv, TableInv, OnTable, Locked
<1> QED
  BY <1>5, <1>6, <1>7

\* No statement walks a trie or an index freed by a statement that its lock
\* should have held back, although neither structure has a lock of its own.
THEOREM WalkersAreGuarded == Spec => []ReadersGuarded
<1>1. Init => ReadersGuarded
  BY DEF Init, ReadersGuarded
<1>2. ASSUME LockInv, ReadersGuarded, [Next]_vars PROVE ReadersGuarded'
  <2> USE <1>2 DEF ReadersGuarded
  <2>1. ASSUME NEW t \in Threads, RebuildIndex(t) \/ RefreshTrie(t)
        PROVE  ReadersGuarded'
    <3>1. pc[t] \in {"rebuild", "refresh"}
      BY <2>1 DEF RebuildIndex, RefreshTrie
    <3>2. \A u \in Threads : walk[u] # "none" => ~Guarded(t, u)
      BY <3>1, FreesUnguarded
    <3> QED
      BY <2>1, <3>2 DEF RebuildIndex, RefreshTrie, Frees
  <2>2. ASSUME NEW t \in Threads, LeaveWalk(t) PROVE ReadersGuarded'
    BY <2>2 DEF LeaveWalk, LockInv, TypeOK
  <2>3. CASE UNCHANGED freed
    BY <2>3
  <2> QED
    BY <2>1, <2>2, <2>3
       DEF Next, Step, LockStep, ExecStep, UnlockStep, Begin, EnterSingle,
           LockCatalog, Register, LockTable, CheckIndex, BuildIndex, Query,
           EnterWalk, Write, LeaveSingle, ReleaseTable, ReleaseCatalog,
           EngineShutdown, Stopped, vars, sharedVars, walkVars
<1> QED
  BY <1>1, <1>2, LockInvHolds, PTL DEF Spec

=============================================================================
