----------------------------- MODULE DictService -----------------------------
(***************************************************************************)
(* The dictionary endpoints of src/src/router.c over the response cache of *)
(* src/src/dict_cache.c.                                                   *)
(*                                                                         *)
(* GET /api/dict looks in the cache, on a miss asks the engine with no     *)
(* cache lock held, and then puts the answer in the cache.  POST           *)
(* /api/admin/insert writes through the engine and then drops the entry of *)
(* the english word.  POST /api/query may write too and drops nothing.     *)
(*                                                                         *)
(* A put, an invalidation and a lookup that misses are one step each, the  *)
(* rwlock serialises them.  A lookup that hits is two: it copies the entry *)
(* and draws a stamp, then stores the stamp, and other hits may come       *)
(* between because both hold the lock for reading only.  A statement of    *)
(* the engine is one step; an answer is the version of what it answers.    *)
(* Allocations succeed, and the cache exists before the first request.     *)
(***************************************************************************)
EXTENDS Integers, FiniteSets, FiniteSetsExt

CONSTANTS
    Threads,        \* pool workers
    Words,          \* cache keys "english:<word>"
    RowIds,         \* cache keys "id:<n>"
    NoKey,          \* an entry whose key is NULL
    Capacity,       \* entries of the cache
    QueryWrites,    \* whether clients write through /api/query
    MaxRequests     \* bound: requests in a behaviour

ASSUME DictAssumption ==
    /\ Words \cap RowIds = {} /\ NoKey \notin Words \cup RowIds
    /\ IsFiniteSet(Threads)
    /\ Capacity \in Nat \ {0}
    /\ QueryWrites \in BOOLEAN
    /\ MaxRequests \in Nat

Keys == Words \cup RowIds
Slots == 1 .. Capacity

VARIABLES
    db,             \* version of what the engine answers for a key
    entries,        \* key, json and last_used of every entry
    clock,          \* cache->clock
    pc,             \* where a thread is in its handler
    key,            \* the key of its request
    json,           \* the answer it got from the engine
    index,          \* the entry it found
    stamp,          \* the clock value it drew
    requests,       \* requests begun, bounded
    raced           \* history: keys written while an older answer was held

cacheVars == <<entries, clock>>
threadVars == <<key, json, index, stamp>>
vars == <<db, cacheVars, pc, threadVars, requests, raced>>

Empty == [key |-> NoKey, json |-> 0, last_used |-> 0]

TypeOK ==
    /\ db \in [Keys -> 0 .. MaxRequests]
    /\ entries \in [Slots -> [key : Keys \cup {NoKey}, json : 0 .. MaxRequests,
                              last_used : 0 .. clock]]
    /\ clock \in 0 .. MaxRequests
    /\ pc \in [Threads -> {"idle", "touch", "ready", "bypass", "fill", "exec",
                           "drop"}]
    /\ key \in [Threads -> Keys]
    /\ json \in [Threads -> 0 .. MaxRequests]
    /\ index \in [Threads -> Slots]
    /\ stamp \in [Threads -> 0 .. clock]
    /\ requests \in 0 .. MaxRequests
    /\ raced \subseteq Keys

Init ==
    /\ db = [k \in Keys |-> 0]
    /\ entries = [s \in Slots |-> Empty]
    /\ clock = 0
    /\ pc = [t \in Threads |-> "idle"]
    /\ \E k \in Keys : key = [t \in Threads |-> k]
    /\ json = [t \in Threads |-> 0]
    /\ index = [t \in Threads |-> 1]
    /\ stamp = [t \in Threads |-> 0]
    /\ requests = 0
    /\ raced = {}

-----------------------------------------------------------------------------
(* dict_cache.c                                                            *)

Holding(k) == {s \in Slots : entries[s].key = k}
Oldest == {s \in Slots :
              \A u \in Slots : entries[s].last_used <= entries[u].last_used}

\* dict_cache_slot_for_put: the first empty entry, else the least recent.
SlotForPut == IF Holding(NoKey) # {} THEN Min(Holding(NoKey)) ELSE Min(Oldest)

\* Mutant: an entry that already has the key is not looked for.
PutSlotBlind(k) == SlotForPut

\* dict_cache_put reuses the entry of the key.
PutSlot(k) == IF Holding(k) # {} THEN Min(Holding(k)) ELSE SlotForPut

\* Mutant: writers do not wait.
WriterAnyway == TRUE

\* pthread_rwlock_wrlock waits for every hit that is not finished.
WriterMayEnter == \A t \in Threads : pc[t] # "touch"

\* Mutant: the clock is read and not advanced.
PutSameClock(k, answer) ==
    /\ WriterMayEnter
    /\ UNCHANGED clock
    /\ entries' = [entries EXCEPT ![PutSlot(k)] =
                      [key |-> k, json |-> answer, last_used |-> clock + 1]]

Put(k, answer) ==
    /\ WriterMayEnter
    /\ clock' = clock + 1
    /\ entries' = [entries EXCEPT ![PutSlot(k)] =
                      [key |-> k, json |-> answer, last_used |-> clock + 1]]

\* Mutant: the entry is left in place.
InvalidateNothing(k) == WriterMayEnter /\ UNCHANGED cacheVars

Invalidate(k) ==
    /\ WriterMayEnter
    /\ entries' = [s \in Slots |-> IF Holding(k) # {} /\ s = Min(Holding(k))
                                   THEN Empty ELSE entries[s]]
    /\ UNCHANGED clock

-----------------------------------------------------------------------------
(* handle_dict_request                                                     *)

Goto(t, state) == pc' = [pc EXCEPT ![t] = state]

Begin(t, k) ==
    /\ pc[t] = "idle"
    /\ requests < MaxRequests
    /\ requests' = requests + 1
    /\ key' = [key EXCEPT ![t] = k]

\* Mutant: the clock is read and not advanced.
HitSameClock(t, k) ==
    /\ Begin(t, k)
    /\ Holding(k) # {}
    /\ index' = [index EXCEPT ![t] = Min(Holding(k))]
    /\ stamp' = [stamp EXCEPT ![t] = clock]
    /\ Goto(t, "touch")
    /\ UNCHANGED <<db, cacheVars, json, raced>>

\* dict_cache_get finds the key: copy and stamp ...
Hit(t, k) ==
    /\ Begin(t, k)
    /\ Holding(k) # {}
    /\ index' = [index EXCEPT ![t] = Min(Holding(k))]
    /\ clock' = clock + 1
    /\ stamp' = [stamp EXCEPT ![t] = clock + 1]
    /\ Goto(t, "touch")
    /\ UNCHANGED <<db, entries, json, raced>>

\* ... then last_used, the end of the read lock and the response.
Touch(t) ==
    /\ pc[t] = "touch"
    /\ entries' = [entries EXCEPT ![index[t]].last_used = stamp[t]]
    /\ Goto(t, "idle")
    /\ UNCHANGED <<db, clock, threadVars, requests, raced>>

Miss(t, k) ==
    /\ Begin(t, k)
    /\ Holding(k) = {}
    /\ Goto(t, "ready")
    /\ UNCHANGED <<db, cacheVars, json, index, stamp, raced>>

\* ?nocache=1, or a lookup by korean, which has no cache key.
Bypass(t, k) ==
    /\ Begin(t, k)
    /\ Goto(t, "bypass")
    /\ UNCHANGED <<db, cacheVars, json, index, stamp, raced>>

\* 503 when engine_is_ready says no, or a statement that failed.
NoAnswer(t) ==
    /\ pc[t] \in {"ready", "bypass"}
    /\ Goto(t, "idle")
    /\ UNCHANGED <<db, cacheVars, threadVars, requests, raced>>

\* engine_exec_sql, with no cache lock held.
Ask(t) ==
    /\ pc[t] \in {"ready", "bypass"}
    /\ json' = [json EXCEPT ![t] = db[key[t]]]
    /\ Goto(t, IF pc[t] = "ready" THEN "fill" ELSE "idle")
    /\ UNCHANGED <<db, cacheVars, key, index, stamp, requests, raced>>

Fill(t) ==
    /\ pc[t] = "fill"
    /\ Put(key[t], json[t])
    /\ Goto(t, "idle")
    /\ UNCHANGED <<db, threadVars, requests, raced>>

-----------------------------------------------------------------------------
(* handle_admin_insert_request and POST /api/query                         *)

\* A lookup of k is between its SELECT and its put.
Held(k) == \E u \in Threads : pc[u] = "fill" /\ key[u] = k

\* The answers for S change.
Written(S) ==
    /\ db' = [k \in Keys |-> IF k \in S THEN db[k] + 1 ELSE db[k]]
    /\ raced' = raced \cup {k \in S : Held(k)}

AdminBegin(t, w) ==
    /\ Begin(t, w)
    /\ Goto(t, "exec")
    /\ UNCHANGED <<db, cacheVars, json, index, stamp, raced>>

\* 503, or INSERT failed: nothing is dropped.
AdminFails(t) ==
    /\ pc[t] = "exec"
    /\ Goto(t, "idle")
    /\ UNCHANGED <<db, cacheVars, threadVars, requests, raced>>

\* INSERT adds a row with a new id: the word and that id answer differently.
AdminExec(t, i) ==
    /\ pc[t] = "exec"
    /\ Written({key[t], i})
    /\ Goto(t, "drop")
    /\ UNCHANGED <<cacheVars, threadVars, requests>>

\* dict_cache_invalidate of the english key, then the response.
AdminDrop(t) ==
    /\ pc[t] = "drop"
    /\ Invalidate(key[t])
    /\ Goto(t, "idle")
    /\ raced' = IF Held(key[t]) THEN raced ELSE raced \ {key[t]}
    /\ UNCHANGED <<db, threadVars, requests>>

\* INSERT, UPDATE or DELETE sent as SQL.
QueryWrite(S) ==
    /\ QueryWrites
    /\ requests < MaxRequests
    /\ requests' = requests + 1
    /\ db' = [k \in Keys |-> IF k \in S THEN db[k] + 1 ELSE db[k]]
    /\ raced' = raced \cup S
    /\ UNCHANGED <<cacheVars, pc, threadVars>>

Finished ==
    /\ requests = MaxRequests /\ \A t \in Threads : pc[t] = "idle"
    /\ UNCHANGED vars

DictStep(t) == Touch(t) \/ NoAnswer(t) \/ Ask(t) \/ Fill(t)
AdminStep(t) == AdminFails(t) \/ (\E i \in RowIds : AdminExec(t, i)) \/ AdminDrop(t)

Next ==
    \/ \E t \in Threads, k \in Keys : Hit(t, k) \/ Miss(t, k) \/ Bypass(t, k)
    \/ \E t \in Threads, w \in Words : AdminBegin(t, w)
    \/ \E t \in Threads : DictStep(t) \/ AdminStep(t)
    \/ \E S \in SUBSET Keys \ {{}} : QueryWrite(S)
    \/ Finished

Spec == Init /\ [][Next]_vars

-----------------------------------------------------------------------------
(* Correctness                                                             *)

\* No key has two entries, although two lookups that miss the same key both
\* put it: dict_cache_invalidate drops one entry and stops.  No two entries
\* share last_used, which the clock has passed (TypeOK), so that the entry to
\* evict is always determined by use.
KeysUnique ==
    /\ TypeOK
    /\ \A s, u \in {x \in Slots : entries[x].key # NoKey} :
           \/ s = u
           \/ /\ entries[s].key # entries[u].key
              /\ entries[s].last_used # entries[u].last_used

\* The entry a hit is copying is not freed or given to another key before
\* the hit is finished.
CopySafe == \A t \in Threads : pc[t] = "touch" => entries[index[t]].key = key[t]

\* An entry of a word that is older than the database was put by a lookup
\* that read before the write, or /api/query wrote, or the invalidation is
\* on its way.
FreshUnlessRaced ==
    \A w \in Words \ raced : \A s \in Holding(w) :
        entries[s].json = db[w] \/ \E t \in Threads : pc[t] = "drop" /\ key[t] = w

\* agent.md: no stale answer for a word after /api/admin/insert of the word.
NoStaleAfterInsert ==
    \A w \in Words : \A s \in Holding(w) :
        entries[s].json = db[w] \/ \E t \in Threads : pc[t] = "drop" /\ key[t] = w

=============================================================================
