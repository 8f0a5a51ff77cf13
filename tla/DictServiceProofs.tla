-------------------------- MODULE DictServiceProofs --------------------------
(***************************************************************************)
(* Proofs about DictService, for every number of threads, keys, entries    *)
(* and requests: the cache has one entry per key and a definite one to     *)
(* evict, a hit copies an entry nobody frees, and a stale entry is one of  *)
(* a lookup that raced a write.                                            *)
(***************************************************************************)
EXTENDS DictService, CopyingProofs, FiniteSetTheorems, TLAPS

-----------------------------------------------------------------------------
(* The inductive invariant                                                 *)

\* Who may still advance the clock, or the version of an answer, for a
\* request that was counted already.
Filling == {t \in Threads : pc[t] \in {"ready", "fill"}}
Writing == {t \in Threads : pc[t] = "exec"}
Touching == {t \in Threads : pc[t] = "touch"}

\* Every tick of the clock and every write belongs to a request.
BudgetInv ==
    /\ clock + Cardinality(Filling) <= requests
    /\ \A k \in Keys : db[k] + Cardinality(Writing) <= requests

Used == {s \in Slots : entries[s].key # NoKey}

EntriesInv ==
    \A s, u \in Used :
        s = u \/ (/\ entries[s].key # entries[u].key
                  /\ entries[s].last_used # entries[u].last_used)

\* The stamps that hits have drawn and not yet stored are new to the cache.
StampInv ==
    /\ \A t, u \in Touching : stamp[t] = stamp[u] => t = u
    /\ \A t \in Touching : \A s \in Used : entries[s].last_used # stamp[t]

\* A lookup holds the answer of the database, unless its key was written
\* since it asked; only words are inserted.
AnswerInv ==
    \A t \in Threads :
        /\ pc[t] = "fill" /\ key[t] \notin raced => json[t] = db[key[t]]
        /\ pc[t] \in {"exec", "drop"} => key[t] \in Words

CacheInv == /\ TypeOK /\ BudgetInv /\ EntriesInv /\ StampInv /\ CopySafe
            /\ AnswerInv /\ FreshUnlessRaced

-----------------------------------------------------------------------------
(* Facts about the cache's operators                                       *)

\* The loops of dict_cache.c that look for the first or the least find one.
LEMMA NatMin ==
  ASSUME NEW S, S \subseteq Nat, S # {}
  PROVE  Min(S) \in S /\ \A y \in S : Min(S) <= y
<1>1. PICK x \in S : \A y \in S : x <= y
  BY LeastNatural
<1> QED
  BY <1>1 DEF Min

\* dict_cache_find returns an entry that has the key.
LEMMA FindHolds ==
  ASSUME NEW k, Holding(k) # {}
  PROVE  /\ Min(Holding(k)) \in Slots
         /\ entries[Min(Holding(k))].key = k
<1>1. Holding(k) \subseteq Nat
  BY DictAssumption DEF Holding, Slots
<1>2. Min(Holding(k)) \in Holding(k)
  BY <1>1, NatMin
<1> QED
  BY <1>2 DEF Holding

\* dict_cache_slot_for_put always finds an entry: one that is empty, or the
\* least recently used.
LEMMA SlotFound ==
  ASSUME TypeOK
  PROVE  SlotForPut \in Slots
<1>1. CASE Holding(NoKey) # {}
  BY <1>1, FindHolds DEF SlotForPut
<1>2. CASE Holding(NoKey) = {}
  <2> DEFINE stamps == {entries[s].last_used : s \in Slots}
  <2>1. 1 \in Slots /\ Slots \subseteq Nat
    BY DictAssumption DEF Slots
  <2>2. stamps \subseteq Nat /\ stamps # {}
    BY <2>1 DEF TypeOK
  <2>3. Min(stamps) \in stamps /\ \A y \in stamps : Min(stamps) <= y
    <3> HIDE DEF stamps
    <3> QED
      BY <2>2, NatMin
  <2>4. PICK s \in Slots : entries[s].last_used = Min(stamps)
    BY <2>3
  <2>5. s \in Oldest
    BY <2>3, <2>4 DEF Oldest
  <2>6. Oldest \subseteq Nat
    BY <2>1 DEF Oldest
  <2>7. Min(Oldest) \in Oldest
    BY <2>5, <2>6, NatMin
  <2> QED
    BY <1>2, <2>7 DEF SlotForPut, Oldest
<1> QED
  BY <1>1, <1>2

\* dict_cache_put writes the entry of the key if there is one, and no entry
\* of the key remains beside it.
LEMMA PutSlotFound ==
  ASSUME TypeOK, EntriesInv, NEW k \in Keys
  PROVE  /\ PutSlot(k) \in Slots
         /\ \A s \in Slots : s # PutSlot(k) => entries[s].key # k
<1>0. k # NoKey
  BY DictAssumption DEF Keys
<1>1. CASE Holding(k) # {}
  <2>1. PutSlot(k) \in Slots /\ entries[PutSlot(k)].key = k
    BY <1>1, FindHolds DEF PutSlot
  <2> QED
    BY <1>0, <2>1 DEF EntriesInv, Used
<1>2. CASE Holding(k) = {}
  BY <1>2, SlotFound DEF PutSlot, Holding
<1> QED
  BY <1>1, <1>2

\* Threads can be counted.
LEMMA ThreadSets ==
  ASSUME NEW A \in SUBSET Threads
  PROVE  /\ IsFiniteSet(A) /\ Cardinality(A) \in Nat
         /\ \A t : Cardinality(A \cup {t}) =
                      IF t \in A THEN Cardinality(A) ELSE Cardinality(A) + 1
         /\ \A t : Cardinality(A \ {t}) =
                      IF t \in A THEN Cardinality(A) - 1 ELSE Cardinality(A)
<1>1. IsFiniteSet(A)
  BY DictAssumption, FS_Subset
<1> QED
  BY <1>1, FS_CardinalityType, FS_AddElement, FS_RemoveElement

-----------------------------------------------------------------------------
(* Every step keeps the invariant: one lemma per part of it                *)

States == {"idle", "touch", "ready", "bypass", "fill", "exec", "drop"}

\* What a thread that moves owes afterwards.
LEMMA Moves ==
  ASSUME TypeOK, NEW t \in Threads, NEW st \in States, Goto(t, st)
  PROVE  /\ Cardinality(Filling) \in Nat /\ Cardinality(Writing) \in Nat
         /\ Cardinality(Filling') =
              Cardinality(Filling)
                + (IF st \in {"ready", "fill"} THEN 1 ELSE 0)
                - (IF pc[t] \in {"ready", "fill"} THEN 1 ELSE 0)
         /\ Cardinality(Writing') =
              Cardinality(Writing)
                + (IF st = "exec" THEN 1 ELSE 0) - (IF pc[t] = "exec" THEN 1 ELSE 0)
<1>1. Filling \in SUBSET Threads /\ Writing \in SUBSET Threads
  BY DEF Filling, Writing
<1>2. Filling' = IF st \in {"ready", "fill"} THEN Filling \cup {t} ELSE Filling \ {t}
  BY DEF Filling, Goto, TypeOK
<1>3. Writing' = IF st = "exec" THEN Writing \cup {t} ELSE Writing \ {t}
  BY DEF Writing, Goto, TypeOK
<1>4. /\ t \in Filling <=> pc[t] \in {"ready", "fill"}
      /\ t \in Writing <=> pc[t] = "exec"
  BY DEF Filling, Writing
<1>5. Cardinality(Filling) \in Nat /\ Cardinality(Writing) \in Nat
  BY <1>1, ThreadSets
<1>6. Cardinality(Filling') =
              Cardinality(Filling)
                + (IF st \in {"ready", "fill"} THEN 1 ELSE 0)
                - (IF pc[t] \in {"ready", "fill"} THEN 1 ELSE 0)
  BY <1>1, <1>2, <1>4, <1>5, ThreadSets
<1>7. Cardinality(Writing') =
              Cardinality(Writing)
                + (IF st = "exec" THEN 1 ELSE 0) - (IF pc[t] = "exec" THEN 1 ELSE 0)
  BY <1>1, <1>3, <1>4, <1>5, ThreadSets
<1> QED
  BY <1>5, <1>6, <1>7

\* Every tick of the clock and every write is paid for by a request.
LEMMA BudgetStep ==
  ASSUME TypeOK, BudgetInv, Next
  PROVE  BudgetInv'
<1> USE DEF TypeOK, BudgetInv, cacheVars, threadVars, States
<1>1. ASSUME NEW t \in Threads, NEW k \in Keys,
             Hit(t, k) \/ Miss(t, k) \/ Bypass(t, k) \/ AdminBegin(t, k)
      PROVE  BudgetInv'
  <2>1. CASE Hit(t, k)
    <3>1. /\ pc[t] = "idle" /\ Goto(t, "touch") /\ db' = db
          /\ clock' = clock + 1 /\ requests' = requests + 1
      BY <2>1 DEF Hit, Begin
    <3>2. /\ Cardinality(Filling') = Cardinality(Filling)
          /\ Cardinality(Writing') = Cardinality(Writing)
          /\ Cardinality(Filling) \in Nat /\ Cardinality(Writing) \in Nat
      BY <3>1, Moves
    <3> QED
      BY <3>1, <3>2
  <2>2. CASE Miss(t, k)
    <3>1. /\ pc[t] = "idle" /\ Goto(t, "ready") /\ db' = db
          /\ clock' = clock /\ requests' = requests + 1
      BY <2>2 DEF Miss, Begin
    <3>2. /\ Cardinality(Filling') = Cardinality(Filling) + 1
          /\ Cardinality(Writing') = Cardinality(Writing)
          /\ Cardinality(Filling) \in Nat /\ Cardinality(Writing) \in Nat
      BY <3>1, Moves
    <3> QED
      BY <3>1, <3>2
  <2>3. CASE Bypass(t, k)
    <3>1. /\ pc[t] = "idle" /\ Goto(t, "bypass") /\ db' = db
          /\ clock' = clock /\ requests' = requests + 1
      BY <2>3 DEF Bypass, Begin
    <3>2. /\ Cardinality(Filling') = Cardinality(Filling)
          /\ Cardinality(Writing') = Cardinality(Writing)
          /\ Cardinality(Filling) \in Nat /\ Cardinality(Writing) \in Nat
      BY <3>1, Moves
    <3> QED
      BY <3>1, <3>2
  <2>4. CASE AdminBegin(t, k)
    <3>1. /\ pc[t] = "idle" /\ Goto(t, "exec") /\ db' = db
          /\ clock' = clock /\ requests' = requests + 1
      BY <2>4 DEF AdminBegin, Begin
    <3>2. /\ Cardinality(Filling') = Cardinality(Filling)
          /\ Cardinality(Writing') = Cardinality(Writing) + 1
          /\ Cardinality(Filling) \in Nat /\ Cardinality(Writing) \in Nat
      BY <3>1, Moves
    <3> QED
      BY <3>1, <3>2
  <2> QED
    BY <1>1, <2>1, <2>2, <2>3, <2>4
<1>2. ASSUME NEW t \in Threads, Touch(t) \/ NoAnswer(t) \/ Ask(t) \/ AdminFails(t)
                                  \/ AdminDrop(t)
      PROVE  BudgetInv'
  <2>1. /\ db' = db /\ clock' = clock /\ requests' = requests
        /\ \E st \in States : /\ Goto(t, st)
                              /\ st = "fill" => pc[t] = "ready"
                              /\ st \in {"fill", "idle"}
    BY <1>2 DEF Touch, NoAnswer, Ask, AdminFails, AdminDrop, Invalidate
  <2>2. /\ Cardinality(Filling') <= Cardinality(Filling)
        /\ Cardinality(Writing') <= Cardinality(Writing)
        /\ Cardinality(Filling') \in Int /\ Cardinality(Writing') \in Int
        /\ Cardinality(Filling) \in Nat /\ Cardinality(Writing) \in Nat
    BY <2>1, Moves
  <2> QED
    BY <2>1, <2>2
<1>3. ASSUME NEW t \in Threads, Fill(t) PROVE BudgetInv'
  <2>1. /\ pc[t] = "fill" /\ Goto(t, "idle") /\ db' = db
        /\ clock' = clock + 1 /\ requests' = requests
    BY <1>3 DEF Fill, Put
  <2>2. /\ Cardinality(Filling') = Cardinality(Filling) - 1
        /\ Cardinality(Writing') = Cardinality(Writing)
        /\ Cardinality(Filling) \in Nat /\ Cardinality(Writing) \in Nat
    BY <2>1, Moves
  <2> QED
    BY <2>1, <2>2
<1>4. ASSUME NEW t \in Threads, NEW i \in RowIds, AdminExec(t, i) PROVE BudgetInv'
  <2>1. /\ pc[t] = "exec" /\ Goto(t, "drop")
        /\ \A k \in Keys : db'[k] \in {db[k], db[k] + 1}
        /\ clock' = clock /\ requests' = requests
    BY <1>4 DEF AdminExec, Written
  <2>2. /\ Cardinality(Filling') = Cardinality(Filling)
        /\ Cardinality(Writing') = Cardinality(Writing) - 1
        /\ Cardinality(Filling) \in Nat /\ Cardinality(Writing) \in Nat
    BY <2>1, Moves
  <2> QED
    BY <2>1, <2>2
<1>5. ASSUME NEW S \in SUBSET Keys, QueryWrite(S) PROVE BudgetInv'
  <2>1. /\ \A k \in Keys : db'[k] \in {db[k], db[k] + 1}
        /\ clock' = clock /\ requests' = requests + 1 /\ pc' = pc
    BY <1>5 DEF QueryWrite
  <2>2. Filling' = Filling /\ Writing' = Writing
    BY <2>1 DEF Filling, Writing
  <2>3. Cardinality(Filling) \in Nat /\ Cardinality(Writing) \in Nat
    BY ThreadSets DEF Filling, Writing
  <2> QED
    BY <2>1, <2>2, <2>3
<1>6. CASE Finished
  BY <1>6 DEF Finished, vars, Filling, Writing
<1> QED
  BY <1>1, <1>2, <1>3, <1>4, <1>5, <1>6 DEF Next, DictStep, AdminStep, Keys

\* An entry with a new last_used is the entry otherwise.
LEMMA StampRecord ==
  ASSUME NEW K, NEW J, NEW L, NEW x,
         NEW r \in [key : K, json : J, last_used : L]
  PROVE  [r EXCEPT !.last_used = x] =
            [key |-> r.key, json |-> r.json, last_used |-> x]
OBVIOUS

\* dict_cache_get stores the stamp in the entry it copied, and nothing else.
LEMMA TouchEffect ==
  ASSUME TypeOK, NEW t \in Threads, Touch(t)
  PROVE  /\ index[t] \in Slots /\ stamp[t] \in 0 .. clock
         /\ entries' \in [Slots -> [key : Keys \cup {NoKey}, json : 0 .. MaxRequests,
                                    last_used : 0 .. clock]]
         /\ \A s \in Slots :
               /\ entries'[s].key = entries[s].key
               /\ entries'[s].json = entries[s].json
               /\ entries'[s].last_used =
                     IF s = index[t] THEN stamp[t] ELSE entries[s].last_used
<1>1. index[t] \in Slots /\ stamp[t] \in 0 .. clock
  BY DEF TypeOK
<1>2. entries' = [entries EXCEPT ![index[t]] =
                    [key |-> entries[index[t]].key, json |-> entries[index[t]].json,
                     last_used |-> stamp[t]]]
  <2>1. entries' = [entries EXCEPT ![index[t]].last_used = stamp[t]]
    BY DEF Touch
  <2>2. entries[index[t]] \in [key : Keys \cup {NoKey}, json : 0 .. MaxRequests,
                              last_used : 0 .. clock]
    BY <1>1 DEF TypeOK
  <2>3. [entries[index[t]] EXCEPT !.last_used = stamp[t]] =
           [key |-> entries[index[t]].key, json |-> entries[index[t]].json,
            last_used |-> stamp[t]]
    BY <2>2, StampRecord
  <2>4. entries' = [entries EXCEPT ![index[t]] =
                      [entries[index[t]] EXCEPT !.last_used = stamp[t]]]
    BY <2>1, Zenon
  <2> QED
    BY <2>3, <2>4
<1> QED
  BY <1>1, <1>2 DEF TypeOK

\* dict_cache_invalidate removes the one entry of the key.
LEMMA InvalidateEffect ==
  ASSUME TypeOK, EntriesInv, NEW k \in Keys, Invalidate(k)
  PROVE  /\ clock' = clock
         /\ entries' \in [Slots -> [key : Keys \cup {NoKey}, json : 0 .. MaxRequests,
                                    last_used : 0 .. clock]]
         /\ \A s \in Slots : entries'[s] = entries[s] \/ entries'[s] = Empty
         /\ \A s \in Slots : entries'[s].key # k
<1>0. k # NoKey
  BY DictAssumption DEF Keys
<1>1. Empty \in [key : Keys \cup {NoKey}, json : 0 .. MaxRequests,
                 last_used : 0 .. clock]
  BY DictAssumption DEF Empty, TypeOK
<1>2. \A s \in Slots : entries'[s] = IF Holding(k) # {} /\ s = Min(Holding(k))
                                     THEN Empty ELSE entries[s]
  BY DEF Invalidate
<1>3. entries' \in [Slots -> [key : Keys \cup {NoKey}, json : 0 .. MaxRequests,
                              last_used : 0 .. clock]]
  BY <1>1 DEF Invalidate, TypeOK
<1>4. ASSUME NEW s \in Slots PROVE entries'[s].key # k
  <2>1. CASE entries[s].key # k
    BY <1>0, <1>2, <2>1 DEF Empty
  <2>2. CASE entries[s].key = k
    <3>1. Holding(k) # {}
      BY <2>2 DEF Holding
    <3>2. Min(Holding(k)) \in Slots /\ entries[Min(Holding(k))].key = k
      BY <3>1, FindHolds
    <3>3. s = Min(Holding(k))
      BY <1>0, <2>2, <3>2 DEF EntriesInv, Used
    <3> QED
      BY <1>0, <1>2, <3>1, <3>3 DEF Empty
  <2> QED
    BY <2>1, <2>2
<1> QED
  BY <1>2, <1>3, <1>4 DEF Invalidate

\* The requests, the endpoints and the cache keep the types; the clock and
\* the versions stay below the number of requests.
LEMMA TypeStep ==
  ASSUME TypeOK, BudgetInv, EntriesInv, Next
  PROVE  TypeOK'
<1>0. BudgetInv'
  BY BudgetStep
<1>a. requests' \in 0 .. MaxRequests =>
         /\ (clock' \in Nat => clock' \in 0 .. MaxRequests)
         /\ (db' \in [Keys -> Nat] => db' \in [Keys -> 0 .. MaxRequests])
  <2>1. Filling' \in SUBSET Threads /\ Writing' \in SUBSET Threads
    BY DEF Filling, Writing
  <2>2. Cardinality(Filling') \in Nat /\ Cardinality(Writing') \in Nat
    BY <2>1, ThreadSets
  <2> QED
    BY <1>0, <2>2, DictAssumption DEF BudgetInv
<1> USE DictAssumption DEF TypeOK, cacheVars, threadVars, Goto
<1>1. ASSUME NEW t \in Threads, NEW k \in Keys,
             Miss(t, k) \/ Bypass(t, k) \/ AdminBegin(t, k)
      PROVE  TypeOK'
  <2>1. /\ UNCHANGED <<db, entries, clock, json, index, stamp, raced>>
        /\ requests' = requests + 1 /\ requests < MaxRequests
        /\ key' = [key EXCEPT ![t] = k]
        /\ \E st \in {"ready", "bypass", "exec"} : pc' = [pc EXCEPT ![t] = st]
    BY <1>1 DEF Miss, Bypass, AdminBegin, Begin
  <2> QED
    BY <2>1
<1>2. ASSUME NEW t \in Threads, NEW k \in Keys, Hit(t, k) PROVE TypeOK'
  <2>1. clock' = clock + 1 /\ requests' \in 0 .. MaxRequests
    BY <1>2 DEF Hit, Begin
  <2>2. clock' \in 0 .. MaxRequests
    BY <1>a, <2>1
  <2>3. Min(Holding(k)) \in Slots
    BY <1>2, FindHolds DEF Hit
  <2>4. stamp' \in [Threads -> 0 .. clock'] /\ index' \in [Threads -> Slots]
    BY <1>2, <2>1, <2>3 DEF Hit
  <2>5. entries' \in [Slots -> [key : Keys \cup {NoKey}, json : 0 .. MaxRequests,
                                last_used : 0 .. clock']]
    BY <1>2, <2>1 DEF Hit
  <2>6. /\ pc' \in [Threads -> {"idle", "touch", "ready", "bypass", "fill", "exec",
                                "drop"}]
        /\ key' \in [Threads -> Keys]
        /\ UNCHANGED <<db, json, raced>>
    BY <1>2 DEF Hit, Begin
  <2> QED
    BY <2>1, <2>2, <2>4, <2>5, <2>6
<1>3. ASSUME NEW t \in Threads, Touch(t) PROVE TypeOK'
  BY <1>3, TouchEffect DEF Touch
<1>4. ASSUME NEW t \in Threads, NoAnswer(t) \/ Ask(t) \/ AdminFails(t)
      PROVE  TypeOK'
  BY <1>4 DEF NoAnswer, Ask, AdminFails
<1>5. ASSUME NEW t \in Threads, Fill(t) PROVE TypeOK'
  <2>1. clock' = clock + 1 /\ requests' = requests
    BY <1>5 DEF Fill, Put
  <2>2. clock' \in 0 .. MaxRequests
    BY <1>a, <2>1
  <2>3. key[t] \in Keys /\ json[t] \in 0 .. MaxRequests
    OBVIOUS
  <2>4. PutSlot(key[t]) \in Slots
    BY <2>3, PutSlotFound
  <2>5. entries' \in [Slots -> [key : Keys \cup {NoKey}, json : 0 .. MaxRequests,
                                last_used : 0 .. clock']]
    BY <1>5, <2>1, <2>3, <2>4 DEF Fill, Put
  <2>6. stamp' \in [Threads -> 0 .. clock']
    BY <1>5, <2>1 DEF Fill
  <2> QED
    BY <1>5, <2>1, <2>2, <2>5, <2>6 DEF Fill
<1>6. ASSUME NEW t \in Threads, NEW i \in RowIds, AdminExec(t, i) PROVE TypeOK'
  <2>1. db' \in [Keys -> 0 .. MaxRequests]
    BY <1>6, <1>a DEF AdminExec, Written
  <2>2. raced' \subseteq Keys
    BY <1>6 DEF AdminExec, Written, Keys
  <2> QED
    BY <1>6, <2>1, <2>2 DEF AdminExec
<1>7. ASSUME NEW t \in Threads, AdminDrop(t) PROVE TypeOK'
  <2>1. Invalidate(key[t]) /\ key[t] \in Keys
    BY <1>7 DEF AdminDrop
  <2> QED
    BY <1>7, <2>1, InvalidateEffect DEF AdminDrop
<1>8. ASSUME NEW S \in SUBSET Keys, QueryWrite(S) PROVE TypeOK'
  <2>1. db' \in [Keys -> 0 .. MaxRequests]
    BY <1>8, <1>a DEF QueryWrite
  <2> QED
    BY <1>8, <2>1 DEF QueryWrite
<1>9. CASE Finished
  BY <1>9 DEF Finished, vars
<1> QED
  BY <1>1, <1>2, <1>3, <1>4, <1>5, <1>6, <1>7, <1>8, <1>9
     DEF Next, DictStep, AdminStep, Keys

\* What a step does to the entries and to the stamps still to be stored.
LEMMA CacheSteps ==
  ASSUME TypeOK, Next
  PROVE  \/ \E t \in Threads, k \in Keys : Hit(t, k)
         \/ \E t \in Threads : Touch(t) \/ Fill(t) \/ AdminDrop(t)
         \/ UNCHANGED <<entries, Touching, stamp, index>>
<1> USE DEF TypeOK, cacheVars, threadVars, Goto, Touching
<1>1. ASSUME NEW t \in Threads, NEW k \in Keys,
             Miss(t, k) \/ Bypass(t, k) \/ AdminBegin(t, k)
      PROVE  UNCHANGED <<entries, Touching, stamp, index>>
  BY <1>1 DEF Miss, Bypass, AdminBegin, Begin
<1>2. ASSUME NEW t \in Threads, NoAnswer(t) \/ Ask(t) \/ AdminFails(t)
      PROVE  UNCHANGED <<entries, Touching, stamp, index>>
  BY <1>2 DEF NoAnswer, Ask, AdminFails
<1>3. ASSUME NEW t \in Threads, NEW i \in RowIds, AdminExec(t, i)
      PROVE  UNCHANGED <<entries, Touching, stamp, index>>
  BY <1>3 DEF AdminExec
<1>4. ASSUME NEW S \in SUBSET Keys, QueryWrite(S) \/ Finished
      PROVE  UNCHANGED <<entries, Touching, stamp, index>>
  BY <1>4 DEF QueryWrite, Finished, vars
<1> QED
  BY <1>1, <1>2, <1>3, <1>4 DEF Next, DictStep, AdminStep, Keys

\* No step makes a second entry of a key, nor two entries of the same age;
\* the stamps on their way stay distinct and new.
LEMMA EntriesStep ==
  ASSUME TypeOK, EntriesInv, StampInv, CopySafe, Next
  PROVE  EntriesInv' /\ StampInv' /\ CopySafe'
<1> USE DEF TypeOK, EntriesInv, StampInv, CopySafe, Used
<1>1. ASSUME NEW t \in Threads, NEW k \in Keys, Hit(t, k)
      PROVE  EntriesInv' /\ StampInv' /\ CopySafe'
  <2>1. /\ entries' = entries /\ clock' = clock + 1
        /\ stamp' = [stamp EXCEPT ![t] = clock + 1]
        /\ key' = [key EXCEPT ![t] = k]
        /\ index' = [index EXCEPT ![t] = Min(Holding(k))]
        /\ pc[t] = "idle" /\ pc' = [pc EXCEPT ![t] = "touch"]
    BY <1>1 DEF Hit, Begin, Goto
  <2>2. entries[Min(Holding(k))].key = k
    BY <1>1, FindHolds DEF Hit
  <2>3. Touching' = Touching \cup {t}
    BY <2>1 DEF Touching
  <2>4. /\ \A u \in Threads : stamp[u] # clock + 1
        /\ \A s \in Slots : entries[s].last_used # clock + 1
    OBVIOUS
  <2>5. StampInv'
    BY <2>1, <2>3, <2>4 DEF Touching
  <2>6. CopySafe'
    BY <2>1, <2>2
  <2> QED
    BY <2>1, <2>5, <2>6
<1>2. ASSUME NEW t \in Threads, Touch(t)
      PROVE  EntriesInv' /\ StampInv' /\ CopySafe'
  <2>1. \A s \in Slots :
           /\ entries'[s].key = entries[s].key
           /\ entries'[s].last_used =
                 IF s = index[t] THEN stamp[t] ELSE entries[s].last_used
    BY <1>2, TouchEffect
  <2>2. /\ t \in Touching /\ Touching' = Touching \ {t}
        /\ UNCHANGED <<stamp, index, key>>
    BY <1>2 DEF Touch, Goto, Touching, threadVars
  <2>3. EntriesInv'
    BY <2>1, <2>2
  <2>4. StampInv'
    BY <2>1, <2>2
  <2>5. CopySafe'
    BY <1>2, <2>1, <2>2 DEF Touch, Goto
  <2> QED
    BY <2>3, <2>4, <2>5
<1>3. ASSUME NEW t \in Threads, Fill(t)
      PROVE  EntriesInv' /\ StampInv' /\ CopySafe'
  <2>1. Touching' = {} /\ \A u \in Threads : pc'[u] # "touch"
    BY <1>3 DEF Fill, Put, WriterMayEnter, Goto, Touching
  <2>2. /\ PutSlot(key[t]) \in Slots
        /\ \A s \in Slots : s # PutSlot(key[t]) => entries[s].key # key[t]
    BY PutSlotFound
  <2>3. entries' = [entries EXCEPT ![PutSlot(key[t])] =
                       [key |-> key[t], json |-> json[t], last_used |-> clock + 1]]
    BY <1>3 DEF Fill, Put
  <2>4. /\ entries'[PutSlot(key[t])].key = key[t]
        /\ entries'[PutSlot(key[t])].last_used = clock + 1
        /\ \A s \in Slots : s # PutSlot(key[t]) => entries'[s] = entries[s]
    BY <2>2, <2>3
  <2>5. \A s \in Slots : entries[s].last_used # clock + 1
    OBVIOUS
  <2>6. EntriesInv'
    BY <2>2, <2>4, <2>5
  <2> QED
    BY <2>1, <2>6
<1>4. ASSUME NEW t \in Threads, AdminDrop(t)
      PROVE  EntriesInv' /\ StampInv' /\ CopySafe'
  <2>1. Invalidate(key[t]) /\ key[t] \in Keys
    BY <1>4 DEF AdminDrop
  <2>2. Touching' = {} /\ \A u \in Threads : pc'[u] # "touch"
    BY <1>4 DEF AdminDrop, Invalidate, WriterMayEnter, Goto, Touching
  <2>3. \A s \in Slots : entries'[s] = entries[s] \/ entries'[s].key = NoKey
    BY <2>1, InvalidateEffect DEF Empty
  <2> QED
    BY <2>2, <2>3
<1>5. ASSUME UNCHANGED <<entries, Touching, stamp, index>>
      PROVE  EntriesInv' /\ StampInv' /\ CopySafe'
  <2>1. \A u \in Touching : key'[u] = key[u]
    BY <1>5 DEF Next, Hit, Miss, Bypass, AdminBegin, Begin, DictStep, AdminStep,
       Touch, NoAnswer, Ask, Fill, AdminFails, AdminExec, AdminDrop, QueryWrite,
       Finished, vars, threadVars, Touching
  <2> QED
    BY <1>5, <2>1 DEF Touching
<1> QED
  BY <1>1, <1>2, <1>3, <1>4, <1>5, CacheSteps

\* A write marks the keys whose answer some lookup holds, so that what an
\* unmarked lookup holds is the answer of the database.
LEMMA AnswerStep ==
  ASSUME TypeOK, AnswerInv, Next
  PROVE  AnswerInv'
<1> USE DEF TypeOK, AnswerInv, cacheVars, threadVars, Goto
<1>1. ASSUME NEW t \in Threads, NEW k \in Keys,
             Hit(t, k) \/ Miss(t, k) \/ Bypass(t, k)
      PROVE  AnswerInv'
  <2>1. /\ UNCHANGED <<db, json, raced>> /\ key' = [key EXCEPT ![t] = k]
        /\ \E st \in {"touch", "ready", "bypass"} : pc' = [pc EXCEPT ![t] = st]
    BY <1>1 DEF Hit, Miss, Bypass, Begin
  <2> QED
    BY <2>1
<1>2. ASSUME NEW t \in Threads, NEW w \in Words, AdminBegin(t, w)
      PROVE  AnswerInv'
  BY <1>2 DEF AdminBegin, Begin, Keys
<1>3. ASSUME NEW t \in Threads,
             Touch(t) \/ NoAnswer(t) \/ Fill(t) \/ AdminFails(t)
      PROVE  AnswerInv'
  BY <1>3 DEF Touch, NoAnswer, Fill, AdminFails
<1>4. ASSUME NEW t \in Threads, Ask(t) PROVE AnswerInv'
  BY <1>4 DEF Ask
<1>5. ASSUME NEW t \in Threads, NEW i \in RowIds, AdminExec(t, i)
      PROVE  AnswerInv'
  <2>1. /\ UNCHANGED <<key, json>> /\ pc' = [pc EXCEPT ![t] = "drop"]
        /\ key[t] \in Words
        /\ \A u \in Threads : pc[u] = "fill" /\ key[u] \notin raced' =>
              key[u] \notin raced /\ db'[key[u]] = db[key[u]]
    BY <1>5 DEF AdminExec, Written, Held
  <2> QED
    BY <2>1
<1>6. ASSUME NEW t \in Threads, AdminDrop(t) PROVE AnswerInv'
  <2>1. /\ UNCHANGED <<key, json, db>> /\ pc' = [pc EXCEPT ![t] = "idle"]
        /\ \A u \in Threads : pc[u] = "fill" /\ key[u] \notin raced' =>
              key[u] \notin raced
    BY <1>6 DEF AdminDrop, Held
  <2> QED
    BY <2>1
<1>7. ASSUME NEW S \in SUBSET Keys, QueryWrite(S) PROVE AnswerInv'
  BY <1>7 DEF QueryWrite
<1>8. CASE Finished
  BY <1>8 DEF Finished, vars
<1> QED
  BY <1>1, <1>2, <1>3, <1>4, <1>5, <1>6, <1>7, <1>8
     DEF Next, DictStep, AdminStep

\* The invalidation of an insert is on its way.
Dropping(w) == \E t \in Threads : pc[t] = "drop" /\ key[t] = w

\* A write leaves an entry behind the database only until its own drop, and
\* a put brings back an old answer only for a key marked as raced.
LEMMA FreshStep ==
  ASSUME TypeOK, EntriesInv, AnswerInv, FreshUnlessRaced, Next
  PROVE  FreshUnlessRaced'
<1> SUFFICES ASSUME NEW w \in Words, w \notin raced', NEW s \in Slots,
                    entries'[s].key = w, ~Dropping(w)'
             PROVE  entries'[s].json = db'[w]
  BY DEF FreshUnlessRaced, Holding, Dropping
<1>0. w # NoKey /\ w \in Keys /\ w \notin RowIds
  BY DictAssumption DEF Keys
<1>1. w \notin raced /\ entries[s].key = w /\ ~Dropping(w) =>
         entries[s].json = db[w]
  BY DEF FreshUnlessRaced, Holding, Dropping
<1> USE DEF TypeOK, cacheVars, threadVars, Goto, Dropping
<1>2. ASSUME NEW t \in Threads, NEW k \in Keys,
             Hit(t, k) \/ Miss(t, k) \/ Bypass(t, k) \/ AdminBegin(t, k)
      PROVE  entries'[s].json = db'[w]
  <2>1. /\ UNCHANGED <<db, entries, raced>> /\ pc[t] = "idle"
        /\ key' = [key EXCEPT ![t] = k]
        /\ \E st \in {"touch", "ready", "bypass", "exec"} :
               pc' = [pc EXCEPT ![t] = st]
    BY <1>2 DEF Hit, Miss, Bypass, AdminBegin, Begin
  <2>2. ~Dropping(w)
    BY <2>1
  <2> QED
    BY <1>1, <2>1, <2>2
<1>3. ASSUME NEW t \in Threads, NoAnswer(t) \/ Ask(t) \/ AdminFails(t)
      PROVE  entries'[s].json = db'[w]
  <2>1. /\ UNCHANGED <<db, entries, raced, key>> /\ pc[t] # "drop"
        /\ \E st \in {"fill", "idle"} : pc' = [pc EXCEPT ![t] = st]
    BY <1>3 DEF NoAnswer, Ask, AdminFails
  <2>2. ~Dropping(w)
    BY <2>1
  <2> QED
    BY <1>1, <2>1, <2>2
<1>4. ASSUME NEW t \in Threads, Touch(t) PROVE entries'[s].json = db'[w]
  <2>1. /\ UNCHANGED <<db, raced, key>> /\ pc[t] # "drop"
        /\ pc' = [pc EXCEPT ![t] = "idle"]
    BY <1>4 DEF Touch
  <2>2. entries'[s].key = entries[s].key /\ entries'[s].json = entries[s].json
    BY <1>4, TouchEffect
  <2>3. ~Dropping(w)
    BY <2>1
  <2> QED
    BY <1>1, <2>1, <2>2, <2>3
<1>5. ASSUME NEW t \in Threads, Fill(t) PROVE entries'[s].json = db'[w]
  <2>1. /\ UNCHANGED <<db, raced, key>> /\ pc[t] = "fill"
        /\ pc' = [pc EXCEPT ![t] = "idle"]
        /\ entries' = [entries EXCEPT ![PutSlot(key[t])] =
                         [key |-> key[t], json |-> json[t], last_used |-> clock + 1]]
    BY <1>5 DEF Fill, Put
  <2>2. ~Dropping(w)
    BY <2>1
  <2>3. CASE s = PutSlot(key[t])
    <3>1. entries'[s].key = key[t] /\ entries'[s].json = json[t]
      BY <2>1, <2>3
    <3> QED
      BY <2>1, <3>1 DEF AnswerInv
  <2>4. CASE s # PutSlot(key[t])
    BY <1>1, <2>1, <2>2, <2>4
  <2> QED
    BY <2>3, <2>4
<1>6. ASSUME NEW t \in Threads, NEW i \in RowIds, AdminExec(t, i)
      PROVE  entries'[s].json = db'[w]
  <2>1. /\ UNCHANGED <<entries, key>> /\ pc[t] = "exec"
        /\ pc' = [pc EXCEPT ![t] = "drop"]
        /\ raced \subseteq raced'
    BY <1>6 DEF AdminExec, Written
  <2>2. w # key[t] /\ ~Dropping(w)
    BY <2>1
  <2>3. db'[w] = db[w]
    BY <1>0, <1>6, <2>2 DEF AdminExec, Written
  <2> QED
    BY <1>1, <2>1, <2>2, <2>3
<1>7. ASSUME NEW t \in Threads, AdminDrop(t) PROVE entries'[s].json = db'[w]
  <2>1. /\ UNCHANGED <<db, key>> /\ pc' = [pc EXCEPT ![t] = "idle"]
        /\ Invalidate(key[t]) /\ key[t] \in Keys
        /\ raced \ {key[t]} \subseteq raced'
    BY <1>7 DEF AdminDrop
  <2>2. /\ entries'[s] = entries[s] \/ entries'[s] = Empty
        /\ entries'[s].key # key[t]
    BY <2>1, InvalidateEffect
  <2>3. w # key[t] /\ entries'[s] = entries[s]
    BY <1>0, <2>2 DEF Empty
  <2>4. w \notin raced /\ ~Dropping(w)
    BY <2>1, <2>3
  <2> QED
    BY <1>1, <2>1, <2>3, <2>4
<1>8. ASSUME NEW S \in SUBSET Keys, QueryWrite(S) PROVE entries'[s].json = db'[w]
  BY <1>0, <1>1, <1>8 DEF QueryWrite
<1>9. CASE Finished
  BY <1>1, <1>9 DEF Finished, vars
<1> QED
  BY <1>2, <1>3, <1>4, <1>5, <1>6, <1>7, <1>8, <1>9
     DEF Next, DictStep, AdminStep, Keys

\* The invariant holds in every reachable state.
LEMMA CacheInvHolds == Spec => []CacheInv
<1>1. Init => CacheInv
  <2> SUFFICES ASSUME Init PROVE CacheInv
    OBVIOUS
  <2> USE DictAssumption DEF Init
  <2>1. TypeOK
    <3>1. Empty \in [key : Keys \cup {NoKey}, json : 0 .. MaxRequests,
                     last_used : 0 .. clock]
      BY DEF Empty
    <3>2. 1 \in Slots
      BY DEF Slots
    <3> QED
      BY <3>1, <3>2 DEF TypeOK
  <2>2. BudgetInv
    <3>1. Filling = {} /\ Writing = {}
      BY DEF Filling, Writing
    <3> QED
      BY <3>1, FS_EmptySet DEF BudgetInv
  <2>3. EntriesInv /\ StampInv /\ CopySafe /\ AnswerInv
    BY DEF EntriesInv, StampInv, CopySafe, AnswerInv, Used, Touching, Empty
  <2>4. FreshUnlessRaced
    BY DEF FreshUnlessRaced, Holding, Empty, Keys
  <2> QED
    BY <2>1, <2>2, <2>3, <2>4 DEF CacheInv
<1>2. CacheInv /\ [Next]_vars => CacheInv'
  <2> SUFFICES ASSUME CacheInv, [Next]_vars PROVE CacheInv'
    OBVIOUS
  <2>1. CASE Next
    BY <2>1, BudgetStep, TypeStep, EntriesStep, AnswerStep, FreshStep DEF CacheInv
  <2>2. CASE UNCHANGED vars
    BY <2>2 DEF vars, cacheVars, threadVars, CacheInv, TypeOK, BudgetInv,
       EntriesInv, StampInv, CopySafe, AnswerInv, FreshUnlessRaced, Filling,
       Writing, Used, Touching, Holding
  <2> QED
    BY <2>1, <2>2
<1> QED
  BY <1>1, <1>2, PTL DEF Spec

-----------------------------------------------------------------------------
(* The theorems                                                            *)

\* Whatever lookups of the same key miss and put together, dict_cache.c keeps
\* one entry per key, and no two entries with the same last_used.
THEOREM OneEntryPerKey == Spec => []KeysUnique
<1>1. CacheInv => KeysUnique
  BY DEF CacheInv, EntriesInv, KeysUnique, Used
<1> QED
  BY <1>1, CacheInvHolds, PTL

\* A hit copies under the read lock from an entry that stays its key's until
\* the stamp is stored.
THEOREM HitsCopySafely == Spec => []CopySafe
<1>1. CacheInv => CopySafe
  BY DEF CacheInv
<1> QED
  BY <1>1, CacheInvHolds, PTL

\* With the drop of /api/admin/insert, a cached answer for a word is behind
\* the database only by a lookup that read before the write, or by /api/query.
THEOREM FreshOrRaced == Spec => []FreshUnlessRaced
<1>1. CacheInv => FreshUnlessRaced
  BY DEF CacheInv
<1> QED
  BY <1>1, CacheInvHolds, PTL

=============================================================================
