--------------------------- MODULE ThreadPoolProofs ---------------------------
(***************************************************************************)
(* Proofs about ThreadPool, for every number of slots, jobs and samples:   *)
(* its own invariants, then the promise of JobService: which steps of the  *)
(* pool are which steps of the service, that a graceful shutdown which     *)
(* returns 0 has run every accepted job, and that the streaks of the       *)
(* monitor are zero during a hysteresis window.                            *)
(***************************************************************************)
EXTENDS ThreadPool, FiniteSetTheorems, TLAPS

-----------------------------------------------------------------------------
(* Facts about slots                                                       *)

\* A set of slots is finite, so the counters of threadpool.c count it.
LEMMA SlotSets ==
  ASSUME NEW A \in SUBSET Slots
  PROVE  /\ IsFiniteSet(A)
         /\ Cardinality(A) \in Nat
<1>1. IsFiniteSet(Slots)
  BY PoolAssumption, FS_Interval DEF Slots
<1>2. IsFiniteSet(A)
  BY <1>1, FS_Subset
<1> QED
  BY <1>2, FS_CardinalityType

\* The initial state has the types of TypeOK.
LEMMA TypeInit == Init => TypeOK
<1> SUFFICES ASSUME Init PROVE TypeOK
  OBVIOUS
<1> USE PoolAssumption DEF Init
<1>1. queue \in Seq(Jobs)
  OBVIOUS
<1>2. /\ worker \in [Slots -> WorkerStates]
      /\ job \in [Slots -> Jobs \cup {NoJob}]
      /\ status \in [Jobs -> JobStates]
  BY DEF WorkerStates, JobStates
<1>3. /\ retired \in [Joiners -> SUBSET Slots]
      /\ reaped \in [Joiners -> BOOLEAN]
  OBVIOUS
<1>4. /\ alive \in [Slots -> BOOLEAN]
      /\ retiring \in [Slots -> BOOLEAN]
  OBVIOUS
<1>5. /\ high_consecutive \in 0 .. HighConsecutive
      /\ low_consecutive \in 0 .. LowConsecutive
      /\ skip_samples \in 0 .. HysteresisSamples
      /\ join_slot \in 0 .. AbsMax
      /\ n_workers \in Int /\ active_workers \in Int
      /\ queue_max \in Nat /\ rejected_total \in Nat
  OBVIOUS
<1>6. /\ monitor \in MonitorStates /\ owner \in OwnerStates
      /\ ending \in Endings
      /\ shutdown \in BOOLEAN /\ submit_closed \in BOOLEAN
      /\ monitor_should_exit \in BOOLEAN /\ timed_out \in BOOLEAN
  BY DEF MonitorStates, OwnerStates, Endings
<1> QED
  BY <1>1, <1>2, <1>3, <1>4, <1>5, <1>6 DEF TypeOK

\* threadpool_submit and threadpool_set_queue_max keep the types.
LEMMA TypeSubmit ==
  ASSUME TypeOK,
         \/ \E j \in Jobs : Submit(j)
         \/ \E m \in QueueMaxes : SetQueueMax(m)
  PROVE  TypeOK'
<1> USE PoolAssumption DEF TypeOK, queueVars, slotVars, sampleVars,
        ownerVars, limitVars, joinVars
<1>1. ASSUME NEW j \in Jobs, SubmitRefused(j) PROVE TypeOK'
  BY <1>1 DEF SubmitRefused, JobStates
<1>2. ASSUME NEW j \in Jobs, SubmitRejected(j) PROVE TypeOK'
  BY <1>2 DEF SubmitRejected, JobStates
<1>3. ASSUME NEW j \in Jobs, SubmitAccepted(j) PROVE TypeOK'
  <2>1. worker' \in [Slots -> WorkerStates]
    BY <1>3 DEF SubmitAccepted, SignalOne, Waiting, WorkerStates
  <2> QED
    BY <1>3, <2>1 DEF SubmitAccepted, JobStates
<1>4. ASSUME NEW m \in QueueMaxes, SetQueueMax(m) PROVE TypeOK'
  BY <1>4 DEF SetQueueMax
<1> QED
  BY <1>1, <1>2, <1>3, <1>4 DEF Submit

\* threadpool_worker_main keeps the types.
LEMMA TypeWorker ==
  ASSUME TypeOK, NEW s \in Slots,
         WorkerLoop(s) \/ SpuriousWakeup(s) \/ WorkerFinish(s)
  PROVE  TypeOK'
<1> USE DEF TypeOK, queueVars, slotVars, sampleVars, ownerVars, limitVars,
        joinVars
<1>1. CASE WorkerWait(s)
  BY <1>1 DEF WorkerWait, WorkerStates
<1>2. CASE WorkerExit(s)
  BY <1>2 DEF WorkerExit, WorkerStates
<1>3. CASE WorkerTake(s)
  <2>1. Head(queue) \in Jobs /\ Tail(queue) \in Seq(Jobs)
    BY <1>3 DEF WorkerTake
  <2>2. owner' \in OwnerStates
    BY <1>3 DEF WorkerTake, SignalDrain, OwnerStates
  <2> QED
    BY <1>3, <2>1, <2>2 DEF WorkerTake, WorkerStates, JobStates
<1>4. CASE SpuriousWakeup(s)
  BY <1>4 DEF SpuriousWakeup, WorkerStates
<1>5. CASE WorkerFinish(s)
  <2>1. owner' \in OwnerStates
    BY <1>5 DEF WorkerFinish, SignalDrain, OwnerStates
  <2>2. status' \in [Jobs -> JobStates]
    BY <1>5 DEF WorkerFinish, JobStates
  <2> QED
    BY <1>5, <2>1, <2>2 DEF WorkerFinish, WorkerStates
<1> QED
  BY <1>1, <1>2, <1>3, <1>4, <1>5 DEF WorkerLoop

\* threadpool_expand_locked leaves the fields it writes well typed.
LEMMA TypeExpand ==
  ASSUME TypeOK, NEW target \in Int, Expand(target)
  PROVE  /\ worker' \in [Slots -> WorkerStates]
         /\ alive' \in [Slots -> BOOLEAN]
         /\ retiring' \in [Slots -> BOOLEAN]
         /\ n_workers' \in Int
<1>1. PICK A \in SUBSET Dead :
         /\ worker' = [s \in Slots |-> IF s \in A THEN "lock" ELSE worker[s]]
         /\ alive' = [s \in Slots |-> s \in A \/ alive[s]]
         /\ retiring' = [s \in Slots |-> s \notin A /\ retiring[s]]
         /\ n_workers' = n_workers + Cardinality(A)
  BY DEF Expand
<1>2. Cardinality(A) \in Nat
  BY SlotSets DEF Dead
<1> QED
  BY <1>1, <1>2 DEF TypeOK, WorkerStates

\* threadpool_mark_retire_locked leaves the fields it writes well typed.
LEMMA TypeMarkRetire ==
  ASSUME TypeOK, NEW t \in Joiners, NEW target \in Int, NEW cap \in Int,
         MarkRetire(t, target, cap)
  PROVE  /\ worker' \in [Slots -> WorkerStates]
         /\ alive' \in [Slots -> BOOLEAN]
         /\ retiring' \in [Slots -> BOOLEAN]
         /\ n_workers' \in Int
         /\ retired' \in [Joiners -> SUBSET Slots]
<1>1. PICK M \in SUBSET Serving :
         /\ retiring' = [s \in Slots |-> s \in M \/ retiring[s]]
         /\ n_workers' = n_workers - Cardinality(M)
         /\ retired' = [retired EXCEPT ![t] = M]
         /\ worker' = WakeAll
         /\ UNCHANGED alive
  BY DEF MarkRetire
<1>2. M \in SUBSET Slots
  BY DEF Serving
<1>3. Cardinality(M) \in Nat
  BY <1>2, SlotSets
<1>4. worker' \in [Slots -> WorkerStates]
  BY <1>1 DEF WakeAll, WorkerStates, TypeOK
<1> QED
  BY <1>1, <1>2, <1>3, <1>4 DEF TypeOK

\* threadpool_join_retired keeps the types.
LEMMA TypeJoin ==
  ASSUME TypeOK, NEW t \in Joiners, Join(t)
  PROVE  TypeOK'
<1> USE DEF TypeOK, queueVars, slotVars, sampleVars, ownerVars, limitVars,
        joinVars
<1>1. CASE Reap(t)
  BY <1>1 DEF Reap, WorkerStates
<1>2. CASE ClearReaped(t)
  BY <1>2 DEF ClearReaped
<1> QED
  BY <1>1, <1>2 DEF Join

\* threadpool_monitor_main keeps the types.
LEMMA TypeMonitor ==
  ASSUME TypeOK, MonitorStep
  PROVE  TypeOK'
<1> USE PoolAssumption DEF TypeOK, queueVars, slotVars, sampleVars,
        ownerVars, limitVars, joinVars
<1>1. CASE MonitorExit
  BY <1>1 DEF MonitorExit, MonitorStates
<1>2. CASE MonitorSkip
  BY <1>2 DEF MonitorSkip
<1>3. CASE MonitorHigh
  <2>1. CASE /\ Expand(Lesser(n_workers + Step, SoftMax))
             /\ skip_samples' = HysteresisSamples
             /\ high_consecutive' = 0
    <3>1. Lesser(n_workers + Step, SoftMax) \in Int
      BY DEF Lesser
    <3> QED
      BY <1>3, <2>1, <3>1, TypeExpand DEF MonitorHigh
  <2>2. CASE /\ high_consecutive' = HighStreak
             /\ UNCHANGED <<worker, slotVars, skip_samples>>
    BY <1>3, <2>2 DEF MonitorHigh, HighStreak, Lesser
  <2> QED
    BY <1>3, <2>1, <2>2 DEF MonitorHigh
<1>4. CASE MonitorLow
  <2>1. CASE /\ MarkRetire("monitor", n_workers - Step, Step)
             /\ skip_samples' = HysteresisSamples
             /\ low_consecutive' = 0
             /\ monitor' = "join"
    <3>1. "monitor" \in Joiners /\ n_workers - Step \in Int /\ Step \in Int
      BY DEF Joiners
    <3> QED
      BY <1>4, <2>1, <3>1, TypeMarkRetire DEF MonitorLow, MonitorStates
  <2>2. CASE /\ low_consecutive' = LowStreak
             /\ UNCHANGED <<worker, slotVars, skip_samples, retired, monitor>>
    BY <1>4, <2>2 DEF MonitorLow, LowStreak, Lesser
  <2> QED
    BY <1>4, <2>1, <2>2 DEF MonitorLow
<1>5. CASE MonitorMid
  BY <1>5 DEF MonitorMid
<1>6. CASE MonitorJoined
  BY <1>6 DEF MonitorJoined, MonitorStates
<1> QED
  BY <1>1, <1>2, <1>3, <1>4, <1>5, <1>6 DEF MonitorStep

\* The calls of the owner, threadpool_create to threadpool_shutdown, keep
\* the types.
LEMMA TypeOwner ==
  ASSUME TypeOK,
         \/ OwnerStep \/ OwnerCloses \/ DrainTimeout \/ DrainSpurious
         \/ \E n \in ResizeTargets : Resize(n)
  PROVE  TypeOK'
<1> USE PoolAssumption DEF TypeOK, queueVars, slotVars, sampleVars,
        ownerVars, limitVars, joinVars
<1>1. CASE CreateWorkers
  BY <1>1, TypeExpand DEF CreateWorkers, OwnerStates, Endings
<1>2. CASE StartMonitor
  BY <1>2 DEF StartMonitor, OwnerStates, MonitorStates, Endings
<1>3. ASSUME NEW n \in ResizeTargets, Resize(n) PROVE TypeOK'
  <2>1. ClampTarget(n) \in Int
    BY DEF ClampTarget, Lesser, Greater
  <2>2. CASE Expand(ClampTarget(n)) /\ UNCHANGED <<retired, owner>>
    BY <1>3, <2>1, <2>2, TypeExpand DEF Resize
  <2>3. CASE MarkRetire("owner", ClampTarget(n), AbsMax) /\ owner' = "resize"
    <3>1. "owner" \in Joiners /\ AbsMax \in Int
      BY DEF Joiners
    <3> QED
      BY <1>3, <2>1, <2>3, <3>1, TypeMarkRetire DEF Resize, OwnerStates
  <2> QED
    BY <1>3, <2>2, <2>3 DEF Resize
<1>4. CASE ResizeJoined \/ CloseGraceful \/ CloseHard \/ StopMonitor
  BY <1>4 DEF ResizeJoined, CloseGraceful, CloseHard, StopMonitor,
              OwnerStates, Endings
<1>5. CASE JoinMonitor
  BY <1>5 DEF JoinMonitor, OwnerStates, MonitorStates
<1>6. CASE DrainCheck \/ DrainTimeout \/ DrainSpurious
  BY <1>6 DEF DrainCheck, DrainTimeout, DrainSpurious, OwnerStates
<1>7. CASE RaiseShutdown
  BY <1>7 DEF RaiseShutdown, WakeAll, WorkerStates, OwnerStates
<1>8. CASE ShutdownSkip
  BY <1>8 DEF ShutdownSkip
<1>9. CASE ShutdownReap
  <2>1. join_slot \in Slots /\ "owner" \in Joiners
    BY <1>9 DEF ShutdownReap, Slots, Joiners
  <2> QED
    BY <1>9, <2>1 DEF ShutdownReap, WorkerStates
<1>10. CASE ShutdownClear
  <2>1. join_slot \in Slots /\ "owner" \in Joiners
    BY <1>10 DEF ShutdownClear, Slots, Joiners
  <2> QED
    BY <1>10, <2>1 DEF ShutdownClear
<1>11. CASE FreePool
  <2>1. queue' \in Seq(Jobs)
    BY <1>11 DEF FreePool
  <2>2. status' \in [Jobs -> JobStates]
    BY <1>11 DEF FreePool, JobStates
  <2> QED
    BY <1>11, <2>1, <2>2 DEF FreePool, OwnerStates
<1> QED
  BY <1>1, <1>2, <1>3, <1>4, <1>5, <1>6, <1>7, <1>8, <1>9, <1>10, <1>11
     DEF OwnerStep, OwnerCloses

\* Every step of the pool keeps the types.
LEMMA TypeStep == TypeOK /\ [Next]_vars => TypeOK'
<1> SUFFICES ASSUME TypeOK, [Next]_vars PROVE TypeOK'
  OBVIOUS
<1>1. CASE UNCHANGED vars
  BY <1>1 DEF TypeOK, vars, queueVars, slotVars, sampleVars, ownerVars,
              limitVars, joinVars
<1>2. CASE Next
  BY <1>1, <1>2, TypeSubmit, TypeWorker, TypeMonitor, TypeJoin, TypeOwner
     DEF Next, Terminated
<1> QED
  BY <1>1, <1>2

\* In every reachable state the fields of the pool have their types: the
\* slots, streaks and the join loop of threadpool.c stay in their ranges.
THEOREM TypeCorrect == Spec => []TypeOK
<1> QED
  BY TypeInit, TypeStep, PTL DEF Spec

-----------------------------------------------------------------------------
(* The inductive invariant                                                 *)

\* Which thread can be where while the owner is at a given call.
PhaseInv ==
    /\ shutdown <=> owner \in {"join", "gone"}
    /\ monitor # "none" => owner \in {"open", "resize", "stop", "joinmon"}
    /\ retired["monitor"] # {} => monitor = "join"
    /\ retired["owner"] # {} => owner = "resize"

\* What the flags of a slot say about its thread.
SlotInv ==
    /\ \A s \in Slots : ~alive[s] => worker[s] = "none"
    /\ \A s \in Slots : alive[s] /\ ~retiring[s] /\ ~shutdown
                          => worker[s] \in {"lock", "wait", "run"}
    /\ \A s \in Slots : worker[s] = "wait"
                          => alive[s] /\ ~retiring[s] /\ ~shutdown
    /\ \A t \in Joiners : \A s \in retired[t] : alive[s] /\ retiring[s]
    /\ retired["monitor"] \cap retired["owner"] = {}

Highest(S, s) == s \in S /\ \A r \in S : r <= s

\* The one thread that may be joined while its slot is still marked alive.
ReapInv ==
    /\ \A t \in Joiners : \A s \in retired[t] :
          worker[s] = "none" <=> reaped[t] /\ Highest(retired[t], s)
    /\ reaped["monitor"] => retired["monitor"] # {}
    /\ reaped["owner"] =>
          \/ retired["owner"] # {}
          \/ /\ owner = "join" /\ join_slot < AbsMax
             /\ worker[join_slot] = "none" /\ alive[join_slot]

JoinInv == PhaseInv /\ SlotInv /\ ReapInv

\* No thread exists before threadpool_create starts one.
LEMMA JoinInit == Init => JoinInv
<1> SUFFICES ASSUME Init PROVE JoinInv
  OBVIOUS
<1>1. PhaseInv
  BY DEF Init, PhaseInv, Joiners
<1>2. SlotInv
  BY DEF Init, SlotInv, Joiners
<1>3. ReapInv
  BY DEF Init, ReapInv, Joiners
<1> QED
  BY <1>1, <1>2, <1>3 DEF JoinInv

\* Steps that leave threads, slots and the owner's call alone.
LEMMA JoinFrame ==
  ASSUME JoinInv,
         UNCHANGED <<worker, slotVars, joinVars, monitor, owner, shutdown,
                     join_slot>>
  PROVE  JoinInv'
<1> USE DEF JoinInv, slotVars, joinVars
<1>1. PhaseInv'
  BY DEF PhaseInv
<1>2. SlotInv'
  BY DEF SlotInv
<1>3. ReapInv'
  BY DEF ReapInv, Highest
<1> QED
  BY <1>1, <1>2, <1>3

\* A worker that moves between its own states, or is woken, keeps the slot
\* and join facts as long as a sleeping worker is a serving one.
LEMMA JoinWorkerMoves ==
  ASSUME TypeOK, JoinInv, NEW w \in Slots, NEW st \in {"lock", "wait", "run", "exit"},
         worker[w] \in {"lock", "wait", "run"},
         st = "wait" => ~retiring[w] /\ ~shutdown,
         st = "exit" => retiring[w] \/ shutdown,
         worker' = [worker EXCEPT ![w] = st],
         UNCHANGED <<slotVars, joinVars, monitor, shutdown, join_slot>>,
         \/ UNCHANGED owner
         \/ owner = "drainwait" /\ owner' = "drain"
  PROVE  JoinInv'
<1> USE DEF JoinInv, slotVars, joinVars, TypeOK
<1>1. PhaseInv'
  BY DEF PhaseInv
<1>2. SlotInv'
  BY DEF SlotInv
<1>3. ReapInv'
  BY DEF ReapInv, Highest, SlotInv, PhaseInv
<1> QED
  BY <1>1, <1>2, <1>3

\* threadpool_worker_main.
LEMMA JoinWorker ==
  ASSUME TypeOK, JoinInv, NEW s \in Slots,
         WorkerLoop(s) \/ SpuriousWakeup(s) \/ WorkerFinish(s)
  PROVE  JoinInv'
<1> USE DEF ownerVars
<1>1. CASE WorkerWait(s)
  BY <1>1, JoinWorkerMoves DEF WorkerWait
<1>2. CASE WorkerExit(s)
  BY <1>2, JoinWorkerMoves DEF WorkerExit
<1>3. CASE WorkerTake(s)
  BY <1>3, JoinWorkerMoves DEF WorkerTake, SignalDrain
<1>4. CASE SpuriousWakeup(s)
  BY <1>4, JoinWorkerMoves DEF SpuriousWakeup
<1>5. CASE WorkerFinish(s)
  BY <1>5, JoinWorkerMoves DEF WorkerFinish, SignalDrain
<1> QED
  BY <1>1, <1>2, <1>3, <1>4, <1>5 DEF WorkerLoop

\* threadpool_submit wakes at most one worker.
LEMMA JoinSubmit ==
  ASSUME TypeOK, JoinInv,
         \/ \E j \in Jobs : Submit(j)
         \/ \E m \in QueueMaxes : SetQueueMax(m)
  PROVE  JoinInv'
<1> USE DEF ownerVars
<1>1. ASSUME NEW j \in Jobs, SubmitRefused(j) PROVE JoinInv'
  BY <1>1, JoinFrame DEF SubmitRefused
<1>2. ASSUME NEW j \in Jobs, SubmitRejected(j) PROVE JoinInv'
  BY <1>2, JoinFrame DEF SubmitRejected
<1>3. ASSUME NEW j \in Jobs, SubmitAccepted(j) PROVE JoinInv'
  <2>1. CASE UNCHANGED worker
    BY <1>3, <2>1, JoinFrame DEF SubmitAccepted
  <2>2. ASSUME NEW w \in Waiting, worker' = [worker EXCEPT ![w] = "lock"]
        PROVE  JoinInv'
    <3>1. w \in Slots /\ worker[w] = "wait"
      BY DEF Waiting
    <3> QED
      BY <1>3, <2>2, <3>1, JoinWorkerMoves DEF SubmitAccepted
  <2> QED
    BY <1>3, <2>1, <2>2 DEF SubmitAccepted, SignalOne
<1>4. ASSUME NEW m \in QueueMaxes, SetQueueMax(m) PROVE JoinInv'
  BY <1>4, JoinFrame DEF SetQueueMax
<1> QED
  BY <1>1, <1>2, <1>3, <1>4 DEF Submit

\* threadpool_expand_locked reuses only slots whose thread was joined.
LEMMA JoinExpand ==
  ASSUME TypeOK, JoinInv, NEW target \in Int, Expand(target), ~shutdown,
         UNCHANGED <<joinVars, monitor, shutdown, join_slot>>,
         \/ UNCHANGED owner
         \/ owner = "create" /\ owner' \in {"start", "flag"}
  PROVE  JoinInv'
<1> USE DEF JoinInv, joinVars, TypeOK
<1>1. PICK A \in SUBSET Dead :
         /\ worker' = [s \in Slots |-> IF s \in A THEN "lock" ELSE worker[s]]
         /\ alive' = [s \in Slots |-> s \in A \/ alive[s]]
         /\ retiring' = [s \in Slots |-> s \notin A /\ retiring[s]]
  BY DEF Expand
<1>2. PhaseInv'
  BY DEF PhaseInv
<1>3. SlotInv'
  BY <1>1 DEF SlotInv, Dead, Joiners
<1>4. ReapInv'
  BY <1>1 DEF ReapInv, Highest, SlotInv, PhaseInv, Dead, Joiners
<1> QED
  BY <1>2, <1>3, <1>4

\* threadpool_mark_retire_locked lists only slots nobody else will join.
LEMMA JoinMarkRetire ==
  ASSUME TypeOK, JoinInv, NEW t \in Joiners, NEW target \in Int,
         NEW cap \in Int, MarkRetire(t, target, cap), ~shutdown,
         retired[t] = {},
         UNCHANGED <<reaped, shutdown, join_slot>>,
         \/ t = "monitor" /\ monitor # "none" /\ monitor' = "join"
                          /\ UNCHANGED owner
         \/ t = "owner" /\ owner = "open" /\ owner' = "resize"
                        /\ UNCHANGED monitor
  PROVE  JoinInv'
<1> USE DEF JoinInv, TypeOK
<1>1. PICK M \in SUBSET Serving :
         /\ retiring' = [s \in Slots |-> s \in M \/ retiring[s]]
         /\ retired' = [retired EXCEPT ![t] = M]
         /\ worker' = WakeAll
         /\ UNCHANGED alive
  BY DEF MarkRetire
<1>2. \A s \in M : /\ s \in Slots /\ alive[s] /\ ~retiring[s]
                   /\ worker[s] \in {"lock", "wait", "run"}
  BY DEF Serving, SlotInv
<1>3. ~reaped[t]
  BY DEF ReapInv, PhaseInv, Joiners
<1>4. PhaseInv'
  BY <1>1 DEF PhaseInv, Joiners
<1>5. SlotInv'
  BY <1>1, <1>2 DEF SlotInv, Joiners, WakeAll
<1>6. ReapInv'
  <2>1. ASSUME NEW u \in Joiners, NEW s \in retired'[u]
        PROVE  worker'[s] = "none" <=> reaped'[u] /\ Highest(retired'[u], s)
    <3>1. CASE u = t
      BY <1>1, <1>2, <1>3, <3>1 DEF WakeAll, Highest
    <3>2. CASE u # t
      BY <1>1, <3>2 DEF WakeAll, Highest, ReapInv
    <3> QED
      BY <3>1, <3>2
  <2> QED
    BY <2>1, <1>1, <1>3 DEF ReapInv, Highest, Joiners, PhaseInv, WakeAll
<1> QED
  BY <1>4, <1>5, <1>6

\* threadpool_join_retired joins a listed slot once, then frees it.
LEMMA JoinJoin ==
  ASSUME TypeOK, JoinInv, NEW t \in Joiners, Join(t)
  PROVE  JoinInv'
<1> USE DEF JoinInv, TypeOK, slotVars, ownerVars
<1>1. CASE Reap(t)
  <2>1. PICK s \in retired[t] :
           /\ \A r \in retired[t] : r <= s
           /\ worker[s] = "exit"
           /\ worker' = [worker EXCEPT ![s] = "none"]
    BY <1>1 DEF Reap
  <2>2. s \in Slots /\ alive[s] /\ retiring[s]
    BY DEF SlotInv
  <2>3. \A r \in Slots : r <= s /\ s <= r => r = s
    BY <2>2, PoolAssumption DEF Slots
  <2>4. PhaseInv' /\ SlotInv'
    BY <1>1, <2>1, <2>2 DEF PhaseInv, SlotInv, Reap
  <2>5. ReapInv'
    <3>1. ASSUME NEW u \in Joiners, NEW x \in retired[u]
          PROVE  worker'[x] = "none" <=> reaped'[u] /\ Highest(retired[u], x)
      <4>1. CASE u = t
        BY <1>1, <2>1, <2>2, <2>3, <4>1 DEF Reap, ReapInv, Highest
      <4>2. CASE u # t
        BY <1>1, <2>1, <2>2, <4>2 DEF Reap, ReapInv, Highest, SlotInv, Joiners
      <4> QED
        BY <4>1, <4>2
    <3> QED
      BY <1>1, <2>1, <2>2, <3>1 DEF Reap, ReapInv, Highest, Joiners, PhaseInv
  <2> QED
    BY <2>4, <2>5
<1>2. CASE ClearReaped(t)
  <2>1. PICK s \in retired[t] :
           /\ \A r \in retired[t] : r <= s
           /\ alive' = [alive EXCEPT ![s] = FALSE]
           /\ retiring' = [retiring EXCEPT ![s] = FALSE]
           /\ retired' = [retired EXCEPT ![t] = @ \ {s}]
    BY <1>2 DEF ClearReaped
  <2>2. s \in Slots /\ worker[s] = "none"
    BY <1>2, <2>1 DEF ClearReaped, ReapInv, Highest
  <2>3. \A r \in Slots : r <= s /\ s <= r => r = s
    BY <2>2, PoolAssumption DEF Slots
  <2>4. PhaseInv'
    BY <1>2, <2>1 DEF PhaseInv, ClearReaped, Joiners
  <2>5. SlotInv'
    BY <1>2, <2>1, <2>2 DEF SlotInv, ClearReaped, Joiners
  <2>6. ReapInv'
    <3>1. ASSUME NEW u \in Joiners, NEW x \in retired'[u]
          PROVE  worker'[x] = "none" <=> reaped'[u] /\ Highest(retired'[u], x)
      <4>1. CASE u = t
        BY <1>2, <2>1, <2>2, <2>3, <4>1 DEF ClearReaped, ReapInv, Highest
      <4>2. CASE u # t
        BY <1>2, <2>1, <4>2 DEF ClearReaped, ReapInv, Highest
      <4> QED
        BY <4>1, <4>2
    <3> QED
      BY <1>2, <2>1, <3>1 DEF ClearReaped, ReapInv, Highest, Joiners, PhaseInv
  <2> QED
    BY <2>4, <2>5, <2>6
<1> QED
  BY <1>1, <1>2 DEF Join

\* threadpool_monitor_main.
LEMMA JoinMonitorStep ==
  ASSUME TypeOK, JoinInv, MonitorStep
  PROVE  JoinInv'
<1> USE PoolAssumption DEF ownerVars, sampleVars
<1>1. CASE MonitorExit
  <2>1. PhaseInv'
    BY <1>1 DEF JoinInv, PhaseInv, MonitorExit, joinVars
  <2> QED
    BY <1>1, <2>1 DEF JoinInv, SlotInv, ReapInv, Highest, MonitorExit,
                      slotVars, joinVars
<1>2. CASE MonitorSkip
  BY <1>2, JoinFrame DEF MonitorSkip
<1>3. CASE MonitorHigh
  <2>1. CASE Expand(Lesser(n_workers + Step, SoftMax))
    <3>1. Lesser(n_workers + Step, SoftMax) \in Int
      BY DEF Lesser, TypeOK
    <3> QED
      BY <1>3, <2>1, <3>1, JoinExpand DEF MonitorHigh, Samples
  <2>2. CASE UNCHANGED <<worker, slotVars, skip_samples>>
    BY <1>3, <2>2, JoinFrame DEF MonitorHigh
  <2> QED
    BY <1>3, <2>1, <2>2 DEF MonitorHigh
<1>4. CASE MonitorLow
  <2>1. CASE MarkRetire("monitor", n_workers - Step, Step) /\ monitor' = "join"
    <3>1. /\ "monitor" \in Joiners /\ n_workers - Step \in Int /\ Step \in Int
          /\ retired["monitor"] = {} /\ ~shutdown /\ monitor # "none"
      BY <1>4 DEF Joiners, TypeOK, MonitorLow, Samples, JoinInv, PhaseInv
    <3> QED
      BY <1>4, <2>1, <3>1, JoinMarkRetire DEF MonitorLow
  <2>2. CASE UNCHANGED <<worker, slotVars, skip_samples, retired, monitor>>
    BY <1>4, <2>2, JoinFrame DEF MonitorLow, joinVars
  <2> QED
    BY <1>4, <2>1, <2>2 DEF MonitorLow
<1>5. CASE MonitorMid
  BY <1>5, JoinFrame DEF MonitorMid
<1>6. CASE MonitorJoined
  <2>1. PhaseInv'
    BY <1>6 DEF JoinInv, PhaseInv, MonitorJoined, joinVars
  <2> QED
    BY <1>6, <2>1 DEF JoinInv, SlotInv, ReapInv, Highest, MonitorJoined,
                      slotVars, joinVars
<1> QED
  BY <1>1, <1>2, <1>3, <1>4, <1>5, <1>6 DEF MonitorStep

\* The owner moves from call to call without touching a thread.
LEMMA JoinOwnerMoves ==
  ASSUME JoinInv,
         UNCHANGED <<worker, slotVars, joinVars, shutdown, join_slot>>,
         \/ owner = "start" /\ owner' \in {"open", "flag"}
                           /\ monitor' = (IF owner' = "open" THEN "sleep" ELSE "none")
         \/ owner = "resize" /\ owner' = "open" /\ retired["owner"] = {}
                            /\ UNCHANGED monitor
         \/ owner = "open" /\ owner' = "stop" /\ UNCHANGED monitor
         \/ owner = "stop" /\ owner' = "joinmon" /\ UNCHANGED monitor
         \/ owner = "joinmon" /\ owner' \in {"drain", "flag"}
                             /\ monitor = "exit" /\ monitor' = "none"
         \/ owner \in {"drain", "drainwait"} /\ UNCHANGED monitor
            /\ owner' \in {"drain", "drainwait", "flag"}
  PROVE  JoinInv'
<1> USE DEF JoinInv, slotVars, joinVars
<1>1. PhaseInv'
  BY DEF PhaseInv
<1>2. SlotInv'
  BY DEF SlotInv
<1>3. ReapInv'
  BY DEF ReapInv, Highest
<1> QED
  BY <1>1, <1>2, <1>3

\* threadpool_create, threadpool_resize and the two shutdowns.
LEMMA JoinOwner ==
  ASSUME TypeOK, JoinInv,
         \/ OwnerStep \/ OwnerCloses \/ DrainTimeout \/ DrainSpurious
         \/ \E n \in ResizeTargets : Resize(n)
  PROVE  JoinInv'
<1> USE PoolAssumption DEF ownerVars
<1>1. CASE CreateWorkers
  <2>1. owner' \in {"start", "flag"} /\ ~shutdown
    BY <1>1 DEF CreateWorkers, JoinInv, PhaseInv
  <2> QED
    BY <1>1, <2>1, JoinExpand DEF CreateWorkers
<1>2. CASE StartMonitor
  BY <1>2, JoinOwnerMoves DEF StartMonitor
<1>3. ASSUME NEW n \in ResizeTargets, Resize(n) PROVE JoinInv'
  <2>1. ClampTarget(n) \in Int
    BY DEF ClampTarget, Lesser, Greater
  <2>2. CASE Expand(ClampTarget(n)) /\ UNCHANGED <<retired, owner>>
    BY <1>3, <2>1, <2>2, JoinExpand DEF Resize, joinVars
  <2>3. CASE MarkRetire("owner", ClampTarget(n), AbsMax) /\ owner' = "resize"
    <3>1. /\ "owner" \in Joiners /\ AbsMax \in Int /\ ~shutdown
          /\ retired["owner"] = {}
      BY <1>3 DEF Joiners, Resize, JoinInv, PhaseInv
    <3> QED
      BY <1>3, <2>1, <2>3, <3>1, JoinMarkRetire DEF Resize
  <2> QED
    BY <1>3, <2>2, <2>3 DEF Resize
<1>4. CASE ResizeJoined
  BY <1>4, JoinOwnerMoves DEF ResizeJoined
<1>5. CASE CloseGraceful \/ CloseHard
  BY <1>5, JoinOwnerMoves DEF CloseGraceful, CloseHard
<1>6. CASE StopMonitor
  BY <1>6, JoinOwnerMoves DEF StopMonitor
<1>7. CASE JoinMonitor
  BY <1>7, JoinOwnerMoves DEF JoinMonitor
<1>8. CASE DrainCheck \/ DrainTimeout \/ DrainSpurious
  BY <1>8, JoinOwnerMoves DEF DrainCheck, DrainTimeout, DrainSpurious
<1>9. CASE RaiseShutdown
  <2> USE <1>9 DEF JoinInv, TypeOK, RaiseShutdown, slotVars, joinVars
  <2>1. PhaseInv'
    BY DEF PhaseInv
  <2>2. SlotInv'
    BY DEF SlotInv, WakeAll
  <2>3. ReapInv'
    BY DEF ReapInv, Highest, WakeAll, PhaseInv, Joiners
  <2> QED
    BY <2>1, <2>2, <2>3
<1>10. CASE ShutdownSkip
  <2> USE <1>10 DEF JoinInv, TypeOK, ShutdownSkip, slotVars, joinVars
  <2>1. PhaseInv' /\ SlotInv'
    BY DEF PhaseInv, SlotInv
  <2>2. join_slot \in Slots
    BY DEF Slots
  <2>3. ~reaped["owner"]
    BY <2>2 DEF ReapInv, SlotInv, PhaseInv
  <2>4. ReapInv'
    BY <2>3 DEF ReapInv, Highest
  <2> QED
    BY <2>1, <2>4
<1>11. CASE ShutdownReap
  <2> USE <1>11 DEF JoinInv, TypeOK, ShutdownReap, slotVars
  <2>1. join_slot \in Slots /\ retired["owner"] = {} /\ retired["monitor"] = {}
    BY DEF Slots, PhaseInv
  <2>2. PhaseInv' /\ SlotInv'
    BY <2>1 DEF PhaseInv, SlotInv
  <2>3. ReapInv'
    BY <2>1 DEF ReapInv, Highest, Joiners
  <2> QED
    BY <2>2, <2>3
<1>12. CASE ShutdownClear
  <2> USE <1>12 DEF JoinInv, TypeOK, ShutdownClear
  <2>1. join_slot \in Slots /\ retired["owner"] = {} /\ retired["monitor"] = {}
    BY DEF Slots, PhaseInv
  <2>2. worker[join_slot] = "none"
    BY <2>1 DEF ReapInv
  <2>3. PhaseInv' /\ SlotInv'
    BY <2>1, <2>2 DEF PhaseInv, SlotInv, Joiners
  <2>4. ReapInv'
    BY <2>1 DEF ReapInv, Highest, Joiners
  <2> QED
    BY <2>3, <2>4
<1>13. CASE FreePool
  <2> USE <1>13 DEF JoinInv, TypeOK, FreePool, slotVars, joinVars
  <2>1. PhaseInv' /\ SlotInv'
    BY DEF PhaseInv, SlotInv
  <2>2. ReapInv'
    BY DEF ReapInv, Highest, PhaseInv
  <2> QED
    BY <2>1, <2>2
<1> QED
  BY <1>1, <1>2, <1>3, <1>4, <1>5, <1>6, <1>7, <1>8, <1>9, <1>10, <1>11,
     <1>12, <1>13 DEF OwnerStep, OwnerCloses

\* Every step keeps the facts about slots and joins.
LEMMA JoinStep == TypeOK /\ JoinInv /\ [Next]_vars => JoinInv'
<1> SUFFICES ASSUME TypeOK, JoinInv, [Next]_vars PROVE JoinInv'
  OBVIOUS
<1>1. CASE UNCHANGED vars
  BY <1>1, JoinFrame DEF vars, ownerVars
<1>2. CASE Next
  BY <1>1, <1>2, JoinSubmit, JoinWorker, JoinMonitorStep, JoinJoin, JoinOwner
     DEF Next, Terminated
<1> QED
  BY <1>1, <1>2

\* The inductive invariant of slots and joins holds in every state.
LEMMA JoinAlways == Spec => [](TypeOK /\ JoinInv)
<1> QED
  BY TypeInit, TypeStep, JoinInit, JoinStep, PTL DEF Spec

\* threadpool_expand_locked never starts a thread in a slot whose thread
\* was not joined, and monitor, resize and shutdown never join the same
\* thread twice.
THEOREM SlotsJoinedOnce == Spec => []JoinedOnce
<1>1. TypeOK /\ JoinInv => JoinedOnce
  <2> SUFFICES ASSUME TypeOK, JoinInv PROVE JoinedOnce
    OBVIOUS
  <2>1. \A t \in Joiners : \A s \in retired[t] : worker[s] = "none" => reaped[t]
    BY DEF JoinInv, ReapInv
  <2> QED
    BY <2>1 DEF JoinInv, PhaseInv, SlotInv, JoinedOnce
<1> QED
  BY <1>1, JoinAlways, PTL

-----------------------------------------------------------------------------
(* Work conservation                                                       *)

\* The serving workers on their way to the queue.
Ready == {s \in Serving : worker[s] = "lock"}

\* A step that takes no worker off its way to the queue, lets none sleep
\* and adds no job.
LEMMA WorkMonotone ==
  ASSUME TypeOK, WorkConserving, Ready \subseteq Ready',
         Waiting' # {} => Waiting # {}, UNCHANGED queue
  PROVE  WorkConserving'
<1>1. Ready \in SUBSET Slots /\ Ready' \in SUBSET Slots
  BY DEF Ready, Serving
<1>2. /\ IsFiniteSet(Ready') /\ Cardinality(Ready') \in Nat
      /\ Cardinality(Ready) \in Nat
  BY <1>1, SlotSets
<1>3. Cardinality(Ready) <= Cardinality(Ready')
  BY <1>2, FS_Subset
<1>4. Len(queue) \in Nat
  BY DEF TypeOK
<1> QED
  BY <1>2, <1>3, <1>4 DEF WorkConserving, Ready

\* A step that takes or adds one: the queue and the ready workers in step.
LEMMA WorkInStep ==
  ASSUME TypeOK, WorkConserving, NEW w \in Slots,
         Waiting' # {} => Waiting # {},
         \/ /\ w \notin Ready /\ Ready' = Ready \cup {w}
            /\ Len(queue') = Len(queue) + 1
         \/ /\ w \in Ready /\ Ready' = Ready \ {w}
            /\ Len(queue') = Len(queue) - 1
  PROVE  WorkConserving'
<1>1. Ready \in SUBSET Slots
  BY DEF Ready, Serving
<1>2. IsFiniteSet(Ready) /\ Cardinality(Ready) \in Nat
  BY <1>1, SlotSets
<1>3. \/ /\ Cardinality(Ready') = Cardinality(Ready) + 1
         /\ Len(queue') = Len(queue) + 1
      \/ /\ Cardinality(Ready') = Cardinality(Ready) - 1
         /\ Len(queue') = Len(queue) - 1
  BY <1>2, FS_AddElement, FS_RemoveElement
<1>4. Len(queue) \in Nat
  BY DEF TypeOK
<1> QED
  BY <1>2, <1>3, <1>4 DEF WorkConserving, Ready

\* threadpool_worker_main.
LEMMA WorkWorker ==
  ASSUME TypeOK, JoinInv, WorkConserving, NEW s \in Slots,
         WorkerLoop(s) \/ SpuriousWakeup(s) \/ WorkerFinish(s)
  PROVE  WorkConserving'
<1> USE DEF TypeOK, slotVars
<1>1. CASE WorkerWait(s)
  <2>1. Len(queue') = 0
    BY <1>1 DEF WorkerWait, queueVars
  <2>2. Cardinality(Ready') \in Nat
    BY SlotSets DEF Ready, Serving
  <2> QED
    BY <2>1, <2>2 DEF WorkConserving, Ready
<1>2. CASE WorkerExit(s)
  <2>1. CASE shutdown
    <3>1. Waiting' = {}
      BY <1>2, <2>1 DEF WorkerExit, Waiting, JoinInv, SlotInv
    <3> QED
      BY <3>1 DEF WorkConserving
  <2>2. CASE retiring[s]
    <3>1. Ready \subseteq Ready' /\ Waiting' = Waiting
      BY <1>2, <2>2 DEF WorkerExit, Ready, Serving, Waiting
    <3> QED
      BY <1>2, <3>1, WorkMonotone DEF WorkerExit, queueVars
  <2> QED
    BY <1>2, <2>1, <2>2 DEF WorkerExit
<1>3. CASE WorkerTake(s)
  <2>1. s \in Ready
    BY <1>3 DEF WorkerTake, Ready, Serving, JoinInv, SlotInv
  <2>2. Ready' = Ready \ {s} /\ Waiting' = Waiting
    BY <1>3 DEF WorkerTake, Ready, Serving, Waiting
  <2>3. Len(queue') = Len(queue) - 1
    BY <1>3 DEF WorkerTake
  <2> QED
    BY <2>1, <2>2, <2>3, WorkInStep
<1>4. CASE SpuriousWakeup(s)
  <2>1. Ready \subseteq Ready' /\ Waiting' \subseteq Waiting
    BY <1>4 DEF SpuriousWakeup, Ready, Serving, Waiting
  <2> QED
    BY <1>4, <2>1, WorkMonotone DEF SpuriousWakeup, queueVars
<1>5. CASE WorkerFinish(s)
  <2>1. Ready \subseteq Ready' /\ Waiting' = Waiting
    BY <1>5 DEF WorkerFinish, Ready, Serving, Waiting
  <2> QED
    BY <1>5, <2>1, WorkMonotone DEF WorkerFinish
<1> QED
  BY <1>1, <1>2, <1>3, <1>4, <1>5 DEF WorkerLoop

\* A job added to the queue wakes a sleeping worker, which is serving.
LEMMA WorkSubmit ==
  ASSUME TypeOK, JoinInv, WorkConserving,
         \/ \E j \in Jobs : Submit(j)
         \/ \E m \in QueueMaxes : SetQueueMax(m)
  PROVE  WorkConserving'
<1> USE DEF TypeOK, slotVars, queueVars
<1>1. ASSUME NEW j \in Jobs, SubmitRefused(j) \/ SubmitRejected(j)
      PROVE  WorkConserving'
  BY <1>1 DEF SubmitRefused, SubmitRejected, WorkConserving, Waiting, Serving
<1>2. ASSUME NEW j \in Jobs, SubmitAccepted(j)
      PROVE  WorkConserving'
  <2>1. CASE Waiting = {} /\ UNCHANGED worker
    BY <2>1 DEF WorkConserving, Waiting
  <2>2. ASSUME NEW w \in Waiting, worker' = [worker EXCEPT ![w] = "lock"]
        PROVE  WorkConserving'
    <3>1. w \in Slots /\ alive[w] /\ ~retiring[w] /\ worker[w] = "wait"
      BY DEF Waiting, JoinInv, SlotInv
    <3>2. w \notin Ready /\ Ready' = Ready \cup {w}
      BY <1>2, <2>2, <3>1 DEF SubmitAccepted, Ready, Serving
    <3>3. Waiting' # {} => Waiting # {}
      BY <2>2
    <3>4. Len(queue') = Len(queue) + 1
      BY <1>2 DEF SubmitAccepted
    <3> QED
      BY <3>1, <3>2, <3>3, <3>4, WorkInStep
  <2> QED
    BY <1>2, <2>1, <2>2 DEF SubmitAccepted, SignalOne
<1>3. ASSUME NEW m \in QueueMaxes, SetQueueMax(m)
      PROVE  WorkConserving'
  BY <1>3 DEF SetQueueMax, WorkConserving, Waiting, Serving
<1> QED
  BY <1>1, <1>2, <1>3 DEF Submit

\* New threads of threadpool_expand_locked are on their way to the queue.
LEMMA WorkExpand ==
  ASSUME TypeOK, JoinInv, WorkConserving, NEW target \in Int, Expand(target),
         UNCHANGED queue
  PROVE  WorkConserving'
<1>1. PICK A \in SUBSET Dead :
         /\ worker' = [s \in Slots |-> IF s \in A THEN "lock" ELSE worker[s]]
         /\ alive' = [s \in Slots |-> s \in A \/ alive[s]]
         /\ retiring' = [s \in Slots |-> s \notin A /\ retiring[s]]
  BY DEF Expand
<1>2. Ready \subseteq Ready' /\ Waiting' \subseteq Waiting
  BY <1>1 DEF Ready, Serving, Waiting, Dead, TypeOK
<1> QED
  BY <1>2, WorkMonotone

\* After a broadcast on cond_nonempty nobody sleeps.
LEMMA WorkBroadcast ==
  ASSUME TypeOK, worker' = WakeAll
  PROVE  WorkConserving'
<1>1. Waiting' = {}
  BY DEF Waiting, WakeAll
<1> QED
  BY <1>1 DEF WorkConserving

\* A join touches only a retiring slot or the thread that left it.
LEMMA WorkJoin ==
  ASSUME TypeOK, JoinInv, WorkConserving, NEW t \in Joiners, Join(t)
  PROVE  WorkConserving'
<1> USE DEF TypeOK, slotVars, queueVars
<1>1. CASE Reap(t)
  <2>1. Ready \subseteq Ready' /\ Waiting' \subseteq Waiting
    BY <1>1 DEF Reap, Ready, Serving, Waiting
  <2> QED
    BY <1>1, <2>1, WorkMonotone DEF Reap
<1>2. CASE ClearReaped(t)
  <2>1. Ready \subseteq Ready' /\ Waiting' = Waiting
    BY <1>2 DEF ClearReaped, Ready, Serving, Waiting, JoinInv, SlotInv
  <2> QED
    BY <1>2, <2>1, WorkMonotone DEF ClearReaped
<1> QED
  BY <1>1, <1>2 DEF Join

\* Steps that leave the workers, their flags and the queue alone.
LEMMA WorkFrame ==
  ASSUME WorkConserving, UNCHANGED <<worker, alive, retiring, queue>>
  PROVE  WorkConserving'
BY DEF WorkConserving, Waiting, Serving

\* threadpool_monitor_main.
LEMMA WorkMonitor ==
  ASSUME TypeOK, JoinInv, WorkConserving, MonitorStep
  PROVE  WorkConserving'
<1> USE PoolAssumption DEF queueVars, slotVars
<1>1. CASE MonitorExit \/ MonitorSkip \/ MonitorMid \/ MonitorJoined
  BY <1>1, WorkFrame DEF MonitorExit, MonitorSkip, MonitorMid, MonitorJoined
<1>2. CASE MonitorHigh
  <2>1. CASE Expand(Lesser(n_workers + Step, SoftMax))
    <3>1. Lesser(n_workers + Step, SoftMax) \in Int
      BY DEF Lesser, TypeOK
    <3> QED
      BY <1>2, <2>1, <3>1, WorkExpand DEF MonitorHigh
  <2>2. CASE UNCHANGED <<worker, slotVars, skip_samples>>
    BY <1>2, <2>2, WorkFrame DEF MonitorHigh
  <2> QED
    BY <1>2, <2>1, <2>2 DEF MonitorHigh
<1>3. CASE MonitorLow
  <2>1. CASE MarkRetire("monitor", n_workers - Step, Step)
    BY <2>1, WorkBroadcast DEF MarkRetire
  <2>2. CASE UNCHANGED <<worker, slotVars, skip_samples, retired, monitor>>
    BY <1>3, <2>2, WorkFrame DEF MonitorLow
  <2> QED
    BY <1>3, <2>1, <2>2 DEF MonitorLow
<1> QED
  BY <1>1, <1>2, <1>3 DEF MonitorStep

\* The owner's calls.
LEMMA WorkOwner ==
  ASSUME TypeOK, JoinInv, WorkConserving,
         \/ OwnerStep \/ OwnerCloses \/ DrainTimeout \/ DrainSpurious
         \/ \E n \in ResizeTargets : Resize(n)
  PROVE  WorkConserving'
<1> USE PoolAssumption DEF queueVars, slotVars
<1>1. CASE CreateWorkers
  BY <1>1, WorkExpand DEF CreateWorkers
<1>2. ASSUME NEW n \in ResizeTargets, Resize(n) PROVE WorkConserving'
  <2>1. CASE Expand(ClampTarget(n))
    <3>1. ClampTarget(n) \in Int
      BY DEF ClampTarget, Lesser, Greater
    <3> QED
      BY <1>2, <2>1, <3>1, WorkExpand DEF Resize
  <2>2. CASE MarkRetire("owner", ClampTarget(n), AbsMax)
    BY <2>2, WorkBroadcast DEF MarkRetire
  <2> QED
    BY <1>2, <2>1, <2>2 DEF Resize
<1>3. CASE \/ StartMonitor \/ ResizeJoined \/ CloseGraceful \/ CloseHard
           \/ StopMonitor \/ JoinMonitor \/ DrainCheck \/ DrainTimeout
           \/ DrainSpurious \/ ShutdownSkip
  BY <1>3, WorkFrame DEF StartMonitor, ResizeJoined, CloseGraceful, CloseHard,
     StopMonitor, JoinMonitor, DrainCheck, DrainTimeout, DrainSpurious,
     ShutdownSkip
<1>4. CASE RaiseShutdown
  BY <1>4, WorkBroadcast DEF RaiseShutdown
<1>5. CASE ShutdownReap \/ ShutdownClear \/ FreePool
  <2>1. shutdown
    BY <1>5 DEF ShutdownReap, ShutdownClear, FreePool, JoinInv, PhaseInv
  <2>2. Waiting = {}
    BY <2>1 DEF Waiting, JoinInv, SlotInv
  <2>3. Waiting' = {}
    BY <1>5, <2>2 DEF ShutdownReap, ShutdownClear, FreePool, Waiting, TypeOK
  <2> QED
    BY <2>3 DEF WorkConserving
<1> QED
  BY <1>1, <1>2, <1>3, <1>4, <1>5 DEF OwnerStep, OwnerCloses

\* No wake-up is ever lost: in every reachable state, whatever resizes,
\* shutdowns and submits overlap, a sleeping worker means that enough
\* serving workers are on their way to take every queued job.
THEOREM NoLostWakeup == Spec => []WorkConserving
<1>1. Init => WorkConserving
  BY DEF Init, WorkConserving, Waiting
<1>2. TypeOK /\ JoinInv /\ WorkConserving /\ [Next]_vars => WorkConserving'
  <2> SUFFICES ASSUME TypeOK, JoinInv, WorkConserving, [Next]_vars
               PROVE  WorkConserving'
    OBVIOUS
  <2>1. CASE UNCHANGED vars
    BY <2>1, WorkFrame DEF vars, slotVars, queueVars
  <2>2. CASE Next
    BY <2>1, <2>2, WorkSubmit, WorkWorker, WorkMonitor, WorkJoin, WorkOwner
       DEF Next, Terminated
  <2> QED
    BY <2>1, <2>2
<1> QED
  BY <1>1, <1>2, JoinAlways, PTL DEF Spec

-----------------------------------------------------------------------------
(* The counters and the size of the pool                                   *)

\* SizeBounds from the moment every worker of the floor was started.
BoundInv ==
    owner \in {"start", "open", "resize", "stop", "joinmon", "drain",
               "drainwait"}
        => n_workers \in Floor .. Greater(Floor, SoftMax)

CountInv == CountersExact /\ BoundInv

\* Steps that move no worker and no flag.
LEMMA CountFrame ==
  ASSUME CountersExact,
         UNCHANGED <<worker, alive, retiring, n_workers, active_workers>>,
         shutdown => shutdown'
  PROVE  CountersExact'
BY DEF CountersExact, Running, Serving

\* A worker that starts or ends a job.
LEMMA CountRun ==
  ASSUME TypeOK, CountersExact, NEW s \in Slots, WorkerTake(s) \/ WorkerFinish(s)
  PROVE  CountersExact'
<1> USE DEF TypeOK, slotVars
<1>1. Running \in SUBSET Slots
  BY DEF Running
<1>2. IsFiniteSet(Running) /\ Cardinality(Running) \in Nat
  BY <1>1, SlotSets
<1>3. UNCHANGED <<alive, retiring, n_workers, shutdown>>
  BY DEF WorkerTake, WorkerFinish
<1>4. ~shutdown' => n_workers' = Cardinality(Serving')
  BY <1>3 DEF CountersExact, Serving
<1>5. CASE WorkerTake(s)
  <2>1. s \notin Running /\ Running' = Running \cup {s}
    BY <1>5 DEF WorkerTake, Running
  <2>2. active_workers' = active_workers + 1
    BY <1>5 DEF WorkerTake
  <2> QED
    BY <1>2, <1>4, <2>1, <2>2, FS_AddElement DEF CountersExact
<1>6. CASE WorkerFinish(s)
  <2>1. s \in Running /\ Running' = Running \ {s}
    BY <1>6 DEF WorkerFinish, Running
  <2>2. active_workers' = active_workers - 1
    BY <1>6 DEF WorkerFinish
  <2> QED
    BY <1>2, <1>4, <2>1, <2>2, FS_RemoveElement DEF CountersExact
<1> QED
  BY <1>5, <1>6

\* A step that neither starts nor ends a job and changes no flag.
LEMMA CountIdle ==
  ASSUME CountersExact, Running' = Running,
         UNCHANGED <<alive, retiring, n_workers, active_workers>>,
         shutdown => shutdown'
  PROVE  CountersExact'
BY DEF CountersExact, Serving

\* threadpool_expand_locked counts the threads it started and stays under
\* the size it was asked for.
LEMMA CountExpand ==
  ASSUME TypeOK, JoinInv, CountersExact, NEW target \in Int, ~shutdown,
         Expand(target), UNCHANGED <<active_workers, shutdown>>
  PROVE  /\ CountersExact'
         /\ n_workers' >= n_workers /\ n_workers' <= target
<1>1. PICK A \in SUBSET Dead :
         /\ Cardinality(A) <= Lesser(target, AbsMax) - n_workers
         /\ worker' = [s \in Slots |-> IF s \in A THEN "lock" ELSE worker[s]]
         /\ alive' = [s \in Slots |-> s \in A \/ alive[s]]
         /\ retiring' = [s \in Slots |-> s \notin A /\ retiring[s]]
         /\ n_workers' = n_workers + Cardinality(A)
  BY DEF Expand
<1>2. A \in SUBSET Slots /\ Serving \in SUBSET Slots
  BY DEF Dead, Serving
<1>3. /\ IsFiniteSet(A) /\ Cardinality(A) \in Nat
      /\ IsFiniteSet(Serving) /\ Cardinality(Serving) \in Nat
  BY <1>2, SlotSets
<1>4. Running' = Running
  BY <1>1 DEF Running, Dead, TypeOK, JoinInv, SlotInv
<1>5. Serving' = Serving \cup A /\ Serving \cap A = {}
  BY <1>1 DEF Serving, Dead, TypeOK
<1>6. Cardinality(Serving \cup A) = Cardinality(Serving) + Cardinality(A)
  <2>1. Cardinality(Serving \cap A) = 0
    BY <1>5, FS_EmptySet
  <2>2. Cardinality(Serving \cup A)
          = Cardinality(Serving) + Cardinality(A) - Cardinality(Serving \cap A)
    BY <1>3, FS_Union
  <2> QED
    BY <1>3, <2>1, <2>2
<1>7. CountersExact'
  BY <1>1, <1>4, <1>5, <1>6 DEF CountersExact
<1>8. n_workers' >= n_workers /\ n_workers' <= target
  BY <1>1, <1>3, PoolAssumption DEF TypeOK, Lesser
<1> QED
  BY <1>7, <1>8

\* threadpool_mark_retire_locked takes the slots it marked off n_workers and
\* never goes below the floor.
LEMMA CountMarkRetire ==
  ASSUME TypeOK, CountersExact, NEW t \in Joiners, NEW target \in Int,
         NEW cap \in Int, MarkRetire(t, target, cap), ~shutdown,
         UNCHANGED <<active_workers, shutdown>>
  PROVE  /\ CountersExact'
         /\ n_workers' <= n_workers
         /\ n_workers' >= Floor
<1>1. PICK M \in SUBSET Serving :
         /\ Cardinality(M) = Lesser(n_workers - Greater(target, Floor), cap)
         /\ retiring' = [s \in Slots |-> s \in M \/ retiring[s]]
         /\ n_workers' = n_workers - Cardinality(M)
         /\ worker' = WakeAll
         /\ UNCHANGED alive
  BY DEF MarkRetire
<1>2. M \in SUBSET Slots /\ Serving \in SUBSET Slots
  BY DEF Serving
<1>3. /\ IsFiniteSet(M) /\ Cardinality(M) \in Nat
      /\ IsFiniteSet(Serving) /\ Cardinality(Serving) \in Nat
  BY <1>2, SlotSets
<1>4. Running' = Running
  BY <1>1 DEF Running, WakeAll, TypeOK
<1>5. Serving' = Serving \ M /\ Serving \cap M = M
  BY <1>1, <1>2 DEF Serving, TypeOK
<1>6. Cardinality(Serving \ M) = Cardinality(Serving) - Cardinality(M)
  BY <1>3, <1>5, FS_Difference
<1>7. CountersExact'
  BY <1>1, <1>4, <1>5, <1>6 DEF CountersExact
<1>8. n_workers' <= n_workers /\ n_workers' >= Floor
  BY <1>1, <1>3, PoolAssumption DEF TypeOK, Lesser, Greater
<1> QED
  BY <1>7, <1>8

\* threadpool_worker_main and threadpool_submit.
LEMMA CountWorker ==
  ASSUME TypeOK, CountInv,
         \/ \E s \in Slots : WorkerLoop(s) \/ SpuriousWakeup(s) \/ WorkerFinish(s)
         \/ \E j \in Jobs : Submit(j)
         \/ \E m \in QueueMaxes : SetQueueMax(m)
  PROVE  CountInv'
<1> USE DEF TypeOK, slotVars, ownerVars, CountInv
<1>1. ASSUME NEW s \in Slots, WorkerTake(s) \/ WorkerFinish(s)
      PROVE  CountInv'
  <2>1. BoundInv'
    BY <1>1 DEF WorkerTake, WorkerFinish, SignalDrain, BoundInv
  <2> QED
    BY <1>1, <2>1, CountRun
<1>2. ASSUME NEW s \in Slots,
             WorkerWait(s) \/ WorkerExit(s) \/ SpuriousWakeup(s)
      PROVE  CountInv'
  <2>1. Running' = Running
    BY <1>2 DEF WorkerWait, WorkerExit, SpuriousWakeup, Running
  <2>2. BoundInv'
    BY <1>2 DEF WorkerWait, WorkerExit, SpuriousWakeup, BoundInv
  <2> QED
    BY <1>2, <2>1, <2>2, CountIdle DEF WorkerWait, WorkerExit, SpuriousWakeup
<1>3. ASSUME NEW j \in Jobs, Submit(j)
      PROVE  CountInv'
  <2>1. Running' = Running
    BY <1>3 DEF Submit, SubmitRefused, SubmitRejected, SubmitAccepted,
                SignalOne, Running, Waiting
  <2>2. BoundInv'
    BY <1>3 DEF Submit, SubmitRefused, SubmitRejected, SubmitAccepted, BoundInv
  <2> QED
    BY <1>3, <2>1, <2>2, CountIdle
       DEF Submit, SubmitRefused, SubmitRejected, SubmitAccepted
<1>4. ASSUME NEW m \in QueueMaxes, SetQueueMax(m)
      PROVE  CountInv'
  BY <1>4, CountFrame DEF SetQueueMax, BoundInv
<1> QED
  BY <1>1, <1>2, <1>3, <1>4 DEF WorkerLoop

\* Joining a retired worker changes neither counter.
LEMMA CountJoin ==
  ASSUME TypeOK, JoinInv, CountInv, NEW t \in Joiners, Join(t)
  PROVE  CountInv'
<1> USE DEF TypeOK, slotVars, ownerVars, CountInv
<1>1. CASE Reap(t)
  <2>1. Running' = Running
    BY <1>1 DEF Reap, Running
  <2> QED
    BY <1>1, <2>1, CountIdle DEF Reap, BoundInv
<1>2. CASE ClearReaped(t)
  <2>1. Serving' = Serving /\ Running' = Running
    BY <1>2 DEF ClearReaped, Serving, Running, JoinInv, SlotInv
  <2> QED
    BY <1>2, <2>1 DEF ClearReaped, CountersExact, BoundInv
<1> QED
  BY <1>1, <1>2 DEF Join

\* threadpool_monitor_main.
LEMMA CountMonitor ==
  ASSUME TypeOK, JoinInv, CountInv, MonitorStep
  PROVE  CountInv'
<1> USE PoolAssumption DEF slotVars, ownerVars, CountInv
<1>1. CASE MonitorExit \/ MonitorSkip \/ MonitorMid \/ MonitorJoined
  BY <1>1, CountFrame DEF MonitorExit, MonitorSkip, MonitorMid, MonitorJoined,
                          BoundInv
<1>2. CASE MonitorHigh
  <2>1. CASE /\ n_workers < SoftMax
             /\ Expand(Lesser(n_workers + Step, SoftMax))
    <3>1. /\ Lesser(n_workers + Step, SoftMax) \in Int
          /\ Lesser(n_workers + Step, SoftMax) <= Greater(Floor, SoftMax)
      BY DEF Lesser, Greater, TypeOK
    <3>2. /\ CountersExact'
          /\ n_workers' >= n_workers
          /\ n_workers' <= Lesser(n_workers + Step, SoftMax)
      BY <1>2, <2>1, <3>1, CountExpand DEF MonitorHigh, Samples
    <3>3. BoundInv'
      <4>1. n_workers \in Int /\ n_workers' \in Int
        BY <2>1, <3>1, TypeExpand DEF TypeOK
      <4> QED
        BY <1>2, <3>1, <3>2, <4>1 DEF MonitorHigh, BoundInv, Greater
    <3> QED
      BY <3>2, <3>3
  <2>2. CASE UNCHANGED <<worker, slotVars, skip_samples>>
    BY <1>2, <2>2, CountFrame DEF MonitorHigh, BoundInv
  <2> QED
    BY <1>2, <2>1, <2>2 DEF MonitorHigh
<1>3. CASE MonitorLow
  <2>1. CASE MarkRetire("monitor", n_workers - Step, Step)
    <3>1. "monitor" \in Joiners /\ n_workers - Step \in Int /\ Step \in Int
      BY DEF Joiners, TypeOK
    <3>2. CountersExact' /\ n_workers' <= n_workers /\ n_workers' >= Floor
      BY <1>3, <2>1, <3>1, CountMarkRetire DEF MonitorLow, Samples
    <3>3. BoundInv'
      <4>1. n_workers \in Int /\ n_workers' \in Int
        BY <2>1, <3>1, TypeMarkRetire DEF TypeOK
      <4> QED
        BY <1>3, <3>2, <4>1 DEF MonitorLow, BoundInv, Greater
    <3> QED
      BY <3>2, <3>3
  <2>2. CASE UNCHANGED <<worker, slotVars, skip_samples, retired, monitor>>
    BY <1>3, <2>2, CountFrame DEF MonitorLow, BoundInv
  <2> QED
    BY <1>3, <2>1, <2>2 DEF MonitorLow
<1> QED
  BY <1>1, <1>2, <1>3 DEF MonitorStep

\* The owner's calls.
LEMMA CountOwner ==
  ASSUME TypeOK, JoinInv, CountInv,
         \/ OwnerStep \/ OwnerCloses \/ DrainTimeout \/ DrainSpurious
         \/ \E n \in ResizeTargets : Resize(n)
  PROVE  CountInv'
<1> USE PoolAssumption DEF slotVars, CountInv
<1>1. CASE CreateWorkers
  <2>1. CountersExact'
    BY <1>1, CountExpand DEF CreateWorkers, JoinInv, PhaseInv
  <2>2. BoundInv'
    BY <1>1 DEF CreateWorkers, BoundInv, Greater
  <2> QED
    BY <2>1, <2>2
<1>2. ASSUME NEW n \in ResizeTargets, Resize(n) PROVE CountInv'
  <2>1. /\ ClampTarget(n) \in Int
        /\ ClampTarget(n) <= Greater(Floor, SoftMax)
    BY DEF ClampTarget, Lesser, Greater
  <2>2. CASE Expand(ClampTarget(n)) /\ UNCHANGED <<retired, owner>>
    <3>1. /\ CountersExact'
          /\ n_workers' >= n_workers /\ n_workers' <= ClampTarget(n)
      BY <1>2, <2>1, <2>2, CountExpand DEF Resize
    <3>2. n_workers \in Int /\ n_workers' \in Int
      BY <2>1, <2>2, TypeExpand DEF TypeOK
    <3>3. BoundInv'
      BY <1>2, <2>1, <2>2, <3>1, <3>2 DEF Resize, BoundInv, Greater
    <3> QED
      BY <3>1, <3>3
  <2>3. CASE MarkRetire("owner", ClampTarget(n), AbsMax) /\ owner' = "resize"
    <3>1. "owner" \in Joiners /\ AbsMax \in Int
      BY DEF Joiners
    <3>2. CountersExact' /\ n_workers' <= n_workers /\ n_workers' >= Floor
      BY <1>2, <2>1, <2>3, <3>1, CountMarkRetire DEF Resize
    <3>3. n_workers \in Int /\ n_workers' \in Int
      BY <2>1, <2>3, <3>1, TypeMarkRetire DEF TypeOK
    <3>4. BoundInv'
      BY <1>2, <3>2, <3>3 DEF Resize, BoundInv, Greater
    <3> QED
      BY <3>2, <3>4
  <2> QED
    BY <1>2, <2>2, <2>3 DEF Resize
<1>3. CASE \/ StartMonitor \/ ResizeJoined \/ CloseGraceful \/ CloseHard
           \/ StopMonitor \/ JoinMonitor \/ DrainCheck \/ DrainTimeout
           \/ DrainSpurious \/ ShutdownSkip \/ FreePool
  <2>1. CountersExact'
    BY <1>3, CountFrame DEF StartMonitor, ResizeJoined, CloseGraceful,
       CloseHard, StopMonitor, JoinMonitor, DrainCheck, DrainTimeout,
       DrainSpurious, ShutdownSkip, FreePool
  <2>2. BoundInv'
    BY <1>3 DEF StartMonitor, ResizeJoined, CloseGraceful,
       CloseHard, StopMonitor, JoinMonitor, DrainCheck, DrainTimeout,
       DrainSpurious, ShutdownSkip, FreePool, BoundInv
  <2> QED
    BY <2>1, <2>2
<1>4. CASE RaiseShutdown
  <2>1. Running' = Running
    BY <1>4 DEF RaiseShutdown, Running, WakeAll, TypeOK
  <2> QED
    BY <1>4, <2>1, CountIdle DEF RaiseShutdown, BoundInv
<1>5. CASE ShutdownReap \/ ShutdownClear
  <2>1. shutdown /\ shutdown' /\ join_slot \in Slots
    BY <1>5 DEF ShutdownReap, ShutdownClear, JoinInv, PhaseInv, TypeOK, Slots,
                ownerVars
  <2>2. Running' = Running
    BY <1>5, <2>1 DEF ShutdownReap, ShutdownClear, Running, TypeOK
  <2> QED
    BY <1>5, <2>1, <2>2 DEF ShutdownReap, ShutdownClear, CountersExact,
                            BoundInv, ownerVars
<1> QED
  BY <1>1, <1>2, <1>3, <1>4, <1>5 DEF OwnerStep, OwnerCloses

\* active_workers and n_workers, which the monitor divides, are exact in
\* every reachable state, and the pool stays between its floor and its cap.
LEMMA CountAlways == Spec => []CountInv
<1>1. Init => CountInv
  <2> SUFFICES ASSUME Init PROVE CountInv
    OBVIOUS
  <2>1. Running = {} /\ Serving = {}
    BY DEF Init, Running, Serving
  <2> QED
    BY <2>1, FS_EmptySet DEF Init, CountInv, CountersExact, BoundInv
<1>2. TypeOK /\ JoinInv /\ CountInv /\ [Next]_vars => CountInv'
  <2> SUFFICES ASSUME TypeOK, JoinInv, CountInv, [Next]_vars
               PROVE  CountInv'
    OBVIOUS
  <2>1. CASE UNCHANGED vars
    BY <2>1, CountFrame DEF vars, slotVars, ownerVars, CountInv, BoundInv
  <2>2. CASE Next
    BY <2>1, <2>2, CountWorker, CountMonitor, CountJoin, CountOwner
       DEF Next, Terminated
  <2> QED
    BY <2>1, <2>2
<1> QED
  BY <1>1, <1>2, JoinAlways, PTL DEF Spec

\* The counters of the pool count its threads, whatever resizes overlap.
THEOREM CountersAreExact == Spec => []CountersExact
<1>1. CountInv => CountersExact
  BY DEF CountInv
<1> QED
  BY <1>1, CountAlways, PTL

\* The pool in use never leaves the range from its floor to its cap.
THEOREM SizeStaysInBounds == Spec => []SizeBounds
<1>1. TypeOK /\ CountInv => SizeBounds
  BY DEF CountInv, BoundInv, SizeBounds, TypeOK, OwnerStates
<1> QED
  BY <1>1, CountAlways, TypeCorrect, PTL

-----------------------------------------------------------------------------
(* The promise of JobService: the inductive invariant                      *)

\* The queue holds exactly the jobs that wait, each once.
QueueInv ==
    /\ \A i \in 1 .. Len(queue) : status[queue[i]] = "queued"
    /\ \A i, k \in 1 .. Len(queue) : queue[i] = queue[k] => i = k
    /\ \A j \in Jobs : status[j] = "queued" => \E i \in 1 .. Len(queue) : queue[i] = j

\* The workers between dequeue and return hold exactly the jobs that run.
RunInv ==
    /\ \A s \in Running : job[s] \in Jobs /\ status[job[s]] = "running"
    /\ \A s, u \in Running : job[s] = job[u] => s = u
    /\ \A j \in Jobs : status[j] = "running" => \E s \in Running : job[s] = j

\* How far an ending has come.  A graceful one refused new jobs first, and
\* went on to the hard flag without a timeout only from an idle pool; the
\* join loop has freed the slots below join_slot.
EndInv ==
    /\ ending = "graceful" => submit_closed
    /\ owner \in {"create", "start", "open", "resize"} =>
           ending = "none" /\ ~submit_closed
    /\ owner \in {"flag", "join", "gone"} /\ ending = "graceful" /\ ~timed_out =>
           queue = <<>> /\ Running = {}
    /\ owner \notin {"join", "gone"} => join_slot = 0
    /\ owner \in {"join", "gone"} =>
           \A s \in Slots : s < join_slot => ~alive[s]
    /\ owner = "gone" => join_slot = AbsMax /\ queue = <<>>
    /\ owner # "gone" \/ (ending = "graceful" /\ ~timed_out) =>
           \A j \in Jobs : status[j] # "dropped"

JobInv == QueueInv /\ RunInv /\ EndInv

-----------------------------------------------------------------------------
(* Which steps touch a job                                                 *)

\* A step that neither accepts, starts, ends nor drops a job.
Quiet == UNCHANGED <<queue, status, job>> /\ Running' = Running

\* threadpool_expand_locked starts threads in slots that have none.
LEMMA ExpandQuiet ==
  ASSUME TypeOK, JoinInv, NEW target, Expand(target)
  PROVE  /\ Running' = Running
         /\ \A s \in Slots : alive[s] => alive'[s]
<1>1. PICK A \in SUBSET Dead :
         /\ worker' = [s \in Slots |-> IF s \in A THEN "lock" ELSE worker[s]]
         /\ alive' = [s \in Slots |-> s \in A \/ alive[s]]
  BY DEF Expand
<1>2. \A s \in A : worker[s] = "none"
  BY <1>1 DEF Dead, JoinInv, SlotInv
<1>3. Running' = Running
  BY <1>1, <1>2 DEF Running
<1>4. \A s \in Slots : alive[s] => alive'[s]
  BY <1>1, Zenon
<1> QED
  BY <1>3, <1>4

\* threadpool_mark_retire_locked wakes sleeping workers and no others.
LEMMA MarkRetireQuiet ==
  ASSUME TypeOK, NEW t, NEW target, NEW cap, MarkRetire(t, target, cap)
  PROVE  Running' = Running /\ alive' = alive
BY DEF MarkRetire, WakeAll, Running, TypeOK

\* The monitor and the joins leave the jobs alone.
LEMMA MonitorQuiet ==
  ASSUME TypeOK, JoinInv, MonitorStep \/ \E t \in Joiners : Join(t)
  PROVE  Quiet
<1> USE DEF Quiet, queueVars, slotVars
<1>1. CASE MonitorExit \/ MonitorSkip \/ MonitorMid \/ MonitorJoined
  BY <1>1 DEF MonitorExit, MonitorSkip, MonitorMid, MonitorJoined, Running
<1>2. CASE MonitorHigh
  <2>1. CASE Expand(Lesser(n_workers + Step, SoftMax))
    BY <1>2, <2>1, ExpandQuiet DEF MonitorHigh
  <2>2. CASE UNCHANGED worker
    BY <1>2, <2>2 DEF MonitorHigh, Running
  <2> QED
    BY <1>2, <2>1, <2>2 DEF MonitorHigh
<1>3. CASE MonitorLow
  <2>1. CASE MarkRetire("monitor", n_workers - Step, Step)
    BY <1>3, <2>1, MarkRetireQuiet DEF MonitorLow
  <2>2. CASE UNCHANGED worker
    BY <1>3, <2>2 DEF MonitorLow, Running
  <2> QED
    BY <1>3, <2>1, <2>2 DEF MonitorLow
<1>4. ASSUME NEW t \in Joiners, Join(t) PROVE Quiet
  BY <1>4 DEF Join, Reap, ClearReaped, Running, TypeOK
<1> QED
  BY <1>1, <1>2, <1>3, <1>4 DEF MonitorStep

\* The owner's calls leave the jobs alone until the pool is freed.
LEMMA OwnerQuiet ==
  ASSUME TypeOK, JoinInv,
         \/ OwnerStep \/ OwnerCloses \/ DrainTimeout \/ DrainSpurious
         \/ \E n \in ResizeTargets : Resize(n)
  PROVE  Quiet \/ FreePool
<1> USE DEF Quiet, queueVars, slotVars
<1>1. CASE CreateWorkers
  BY <1>1, ExpandQuiet DEF CreateWorkers
<1>2. ASSUME NEW n \in ResizeTargets, Resize(n) PROVE Quiet
  BY <1>2, ExpandQuiet, MarkRetireQuiet DEF Resize
<1>3. CASE \/ StartMonitor \/ ResizeJoined \/ CloseGraceful \/ CloseHard
           \/ StopMonitor \/ JoinMonitor \/ DrainCheck \/ DrainTimeout
           \/ DrainSpurious \/ ShutdownSkip \/ ShutdownClear
  BY <1>3 DEF StartMonitor, ResizeJoined, CloseGraceful, CloseHard, StopMonitor,
     JoinMonitor, DrainCheck, DrainTimeout, DrainSpurious, ShutdownSkip,
     ShutdownClear, Running
<1>4. CASE RaiseShutdown
  BY <1>4 DEF RaiseShutdown, WakeAll, Running, TypeOK
<1>5. CASE ShutdownReap
  BY <1>5 DEF ShutdownReap, Running, TypeOK
<1> QED
  BY <1>1, <1>2, <1>3, <1>4, <1>5 DEF OwnerStep, OwnerCloses

\* The steps that touch a job are the submissions, the two ends of a run and
\* the release of the pool.
LEMMA JobSteps ==
  ASSUME TypeOK, JoinInv, [Next]_vars
  PROVE  \/ \E j \in Jobs : Submit(j)
         \/ \E s \in Slots : WorkerTake(s) \/ WorkerFinish(s)
         \/ FreePool
         \/ Quiet
<1>1. ASSUME NEW s \in Slots, WorkerWait(s) \/ WorkerExit(s) \/ SpuriousWakeup(s)
      PROVE  Quiet
  BY <1>1 DEF WorkerWait, WorkerExit, SpuriousWakeup, Quiet, queueVars, Running,
              TypeOK
<1>2. ASSUME NEW m \in QueueMaxes, SetQueueMax(m) PROVE Quiet
  BY <1>2 DEF SetQueueMax, Quiet, queueVars, Running
<1>3. CASE UNCHANGED vars
  BY <1>3 DEF vars, Quiet, queueVars, Running
<1> QED
  BY <1>1, <1>2, <1>3, MonitorQuiet, OwnerQuiet
     DEF Next, WorkerLoop, Terminated

-----------------------------------------------------------------------------
(* Every step keeps the invariant                                          *)

\* threadpool_submit appends a job that was never queued; a worker takes the
\* front; the release empties the queue.
LEMMA QueueStep ==
  ASSUME TypeOK, JoinInv, QueueInv, RunInv, [Next]_vars
  PROVE  QueueInv'
<1> USE DEF TypeOK, QueueInv
<1>1. ASSUME NEW j \in Jobs, SubmitRefused(j) \/ SubmitRejected(j)
      PROVE  QueueInv'
  BY <1>1 DEF SubmitRefused, SubmitRejected
<1>2. ASSUME NEW j \in Jobs, SubmitAccepted(j) PROVE QueueInv'
  <2>1. /\ status[j] = "new" /\ status' = [status EXCEPT ![j] = "queued"]
        /\ queue' = Append(queue, j)
    BY <1>2 DEF SubmitAccepted
  <2>2. /\ Len(queue') = Len(queue) + 1 /\ queue'[Len(queue) + 1] = j
        /\ \A i \in 1 .. Len(queue) : queue'[i] = queue[i] /\ queue[i] # j
    BY <2>1
  <2>3. \A k \in Jobs : status'[k] = "queued" =>
                           \E i \in 1 .. Len(queue') : queue'[i] = k
    BY <2>1, <2>2
  <2> QED
    BY <2>1, <2>2, <2>3
<1>3. ASSUME NEW s \in Slots, WorkerTake(s) PROVE QueueInv'
  <2>1. /\ queue # <<>> /\ queue' = Tail(queue)
        /\ status' = [status EXCEPT ![queue[1]] = "running"]
    BY <1>3 DEF WorkerTake
  <2>2. /\ Len(queue') = Len(queue) - 1 /\ Len(queue) \in Nat \ {0}
        /\ \A i \in 1 .. Len(queue') : queue'[i] = queue[i + 1]
        /\ \A i \in 1 .. Len(queue) : queue[i] \in Jobs
    BY <2>1
  <2>3. \A i \in 1 .. Len(queue') : queue[i + 1] # queue[1]
    BY <2>2
  <2>4. ASSUME NEW k \in Jobs, status'[k] = "queued"
        PROVE  \E i \in 1 .. Len(queue') : queue'[i] = k
    <3>1. status[k] = "queued" /\ k # queue[1]
      BY <2>1, <2>2, <2>4
    <3>2. PICK i \in 1 .. Len(queue) : queue[i] = k
      BY <3>1
    <3>3. i - 1 \in 1 .. Len(queue') /\ queue'[i - 1] = k
      BY <2>2, <3>1, <3>2
    <3> QED
      BY <3>3
  <2>5. \A i \in 1 .. Len(queue') : status'[queue'[i]] = "queued"
    BY <2>1, <2>2, <2>3
  <2>6. \A i, k \in 1 .. Len(queue') : queue'[i] = queue'[k] => i = k
    BY <2>2
  <2> QED
    BY <2>4, <2>5, <2>6
<1>4. ASSUME NEW s \in Slots, WorkerFinish(s) PROVE QueueInv'
  <2>1. s \in Running
    BY <1>4 DEF WorkerFinish, Running
  <2>2. job[s] \in Jobs /\ status[job[s]] = "running"
    BY <2>1 DEF RunInv
  <2> QED
    BY <1>4, <2>2 DEF WorkerFinish
<1>5. CASE FreePool
  BY <1>5 DEF FreePool
<1>6. CASE Quiet
  BY <1>6 DEF Quiet
<1> QED
  BY <1>1, <1>2, <1>3, <1>4, <1>5, <1>6, JobSteps DEF Submit

\* A job is held by one worker from dequeue to return.
LEMMA RunStep ==
  ASSUME TypeOK, JoinInv, QueueInv, RunInv, [Next]_vars
  PROVE  RunInv'
<1> USE DEF TypeOK, RunInv
<1>1. ASSUME NEW j \in Jobs, Submit(j) PROVE RunInv'
  <2>1. Running' = Running
    BY <1>1 DEF Submit, SubmitRefused, SubmitRejected, SubmitAccepted, SignalOne,
                Waiting, Running
  <2>2. /\ job' = job /\ status[j] = "new"
        /\ \E st \in {"refused", "queued"} : status' = [status EXCEPT ![j] = st]
    BY <1>1 DEF Submit, SubmitRefused, SubmitRejected, SubmitAccepted
  <2> QED
    BY <2>1, <2>2
<1>2. ASSUME NEW s \in Slots, WorkerTake(s) PROVE RunInv'
  <2>1. /\ s \notin Running /\ Running' = Running \cup {s}
        /\ queue # <<>> /\ queue[1] \in Jobs /\ status[queue[1]] = "queued"
        /\ job' = [job EXCEPT ![s] = queue[1]]
        /\ status' = [status EXCEPT ![queue[1]] = "running"]
    BY <1>2 DEF WorkerTake, Running, QueueInv
  <2>2. \A u \in Running : u \in Slots /\ job[u] # queue[1]
    BY <2>1 DEF Running
  <2>3. \A u \in Running' : job'[u] \in Jobs /\ status'[job'[u]] = "running"
    BY <2>1, <2>2
  <2>4. \A u, v \in Running' : job'[u] = job'[v] => u = v
    BY <2>1, <2>2
  <2>5. \A j \in Jobs : status'[j] = "running" => \E u \in Running' : job'[u] = j
    BY <2>1, <2>2
  <2> QED
    BY <2>3, <2>4, <2>5
<1>3. ASSUME NEW s \in Slots, WorkerFinish(s) PROVE RunInv'
  <2>1. /\ s \in Running /\ Running' = Running \ {s}
        /\ job' = [job EXCEPT ![s] = NoJob]
        /\ status' = [status EXCEPT ![job[s]] = "done"]
    BY <1>3 DEF WorkerFinish, Running
  <2>2. \A u \in Running' : u \in Slots /\ job'[u] = job[u] /\ job[u] # job[s]
    BY <2>1 DEF Running
  <2> QED
    BY <2>1, <2>2
<1>4. CASE FreePool
  <2>1. /\ Running' = Running /\ job' = job
        /\ \A j \in Jobs : status'[j] = "running" <=> status[j] = "running"
    BY <1>4 DEF FreePool, Running
  <2> QED
    BY <2>1
<1>5. CASE Quiet
  BY <1>5 DEF Quiet
<1> QED
  BY <1>1, <1>2, <1>3, <1>4, <1>5, JobSteps

\* Nothing but the steps of the owner moves an ending forward.
LEMMA EndFrame ==
  ASSUME EndInv, Quiet, alive' = alive \/ owner \notin {"join", "gone"},
         UNCHANGED <<ending, timed_out, join_slot, submit_closed, owner>>
  PROVE  EndInv'
BY DEF EndInv, Quiet

\* After a drain that did not time out no job can be accepted or started.
LEMMA EndJobs ==
  ASSUME TypeOK, JoinInv, EndInv,
         \/ \E j \in Jobs : Submit(j)
         \/ \E s \in Slots : WorkerTake(s) \/ WorkerFinish(s)
  PROVE  EndInv'
<1> USE DEF TypeOK, EndInv, slotVars, ownerVars
<1>1. ASSUME NEW j \in Jobs, SubmitRefused(j) \/ SubmitRejected(j) PROVE EndInv'
  BY <1>1 DEF SubmitRefused, SubmitRejected, Running
<1>2. ASSUME NEW j \in Jobs, SubmitAccepted(j) PROVE EndInv'
  <2>1. /\ ~submit_closed /\ owner # "gone"
        /\ UNCHANGED <<alive, ownerVars>>
        /\ status' = [status EXCEPT ![j] = "queued"]
    BY <1>2 DEF SubmitAccepted, PoolExists
  <2> QED
    BY <2>1
<1>3. ASSUME NEW s \in Slots, WorkerTake(s) PROVE EndInv'
  <2>1. /\ queue # <<>> /\ owner \notin {"join", "gone"}
        /\ Head(queue) \in Jobs
        /\ status' = [status EXCEPT ![Head(queue)] = "running"]
        /\ UNCHANGED <<alive, ending, timed_out, join_slot, submit_closed>>
        /\ owner' = owner \/ (owner = "drainwait" /\ owner' = "drain")
    BY <1>3 DEF WorkerTake, SignalDrain, JoinInv, PhaseInv
  <2> QED
    BY <2>1
<1>4. ASSUME NEW s \in Slots, WorkerFinish(s) PROVE EndInv'
  <2>1. /\ s \in Running /\ queue' = queue
        /\ status' = [status EXCEPT ![job[s]] = "done"]
        /\ UNCHANGED <<alive, ending, timed_out, join_slot, submit_closed>>
        /\ owner' = owner \/ (owner = "drainwait" /\ owner' = "drain")
    BY <1>4 DEF WorkerFinish, SignalDrain, Running
  <2> QED
    BY <2>1
<1> QED
  BY <1>1, <1>2, <1>3, <1>4 DEF Submit

\* The owner's calls: threadpool_create, threadpool_resize and the shutdowns.
LEMMA EndOwner ==
  ASSUME TypeOK, JoinInv, CountInv, QueueInv, EndInv,
         \/ OwnerStep \/ OwnerCloses \/ DrainTimeout \/ DrainSpurious
         \/ \E n \in ResizeTargets : Resize(n)
  PROVE  EndInv'
<1>0. Quiet \/ FreePool
  BY OwnerQuiet
<1> USE DEF TypeOK, EndInv, Quiet, slotVars
<1>1. CASE CreateWorkers \/ StartMonitor
  <2>1. ending = "none" /\ UNCHANGED <<queue, status>>
    BY <1>1 DEF CreateWorkers, StartMonitor, queueVars
  <2> QED
    BY <1>1, <2>1 DEF CreateWorkers, StartMonitor
<1>2. ASSUME NEW n \in ResizeTargets, Resize(n) PROVE EndInv'
  BY <1>2 DEF Resize, queueVars
<1>3. CASE ResizeJoined \/ CloseGraceful \/ CloseHard \/ StopMonitor
  BY <1>0, <1>3 DEF ResizeJoined, CloseGraceful, CloseHard, StopMonitor,
                    FreePool
<1>4. CASE JoinMonitor
  BY <1>0, <1>4 DEF JoinMonitor, FreePool
<1>5. CASE DrainCheck
  <2>1. Drained => queue = <<>> /\ Running = {}
    <3>1. Running \in SUBSET Slots
      BY DEF Running
    <3> QED
      BY <3>1, SlotSets, FS_EmptySet DEF Drained, CountInv, CountersExact
  <2> QED
    BY <1>0, <1>5, <2>1 DEF DrainCheck, FreePool
<1>6. CASE DrainTimeout \/ DrainSpurious
  BY <1>0, <1>6 DEF DrainTimeout, DrainSpurious, FreePool
<1>7. CASE RaiseShutdown
  BY <1>0, <1>7 DEF RaiseShutdown, FreePool, Slots
<1>8. CASE ShutdownSkip
  BY <1>0, <1>8 DEF ShutdownSkip, FreePool, Slots
<1>9. CASE ShutdownReap
  BY <1>0, <1>9 DEF ShutdownReap, FreePool, ownerVars
<1>10. CASE ShutdownClear
  BY <1>0, <1>10 DEF ShutdownClear, FreePool, Slots
<1>11. CASE FreePool
  <2>1. ending = "graceful" /\ ~timed_out =>
            \A j \in Jobs : status'[j] # "dropped"
    BY <1>11 DEF FreePool, QueueInv
  <2> QED
    BY <1>11, <2>1 DEF FreePool, Running
<1> QED
  BY <1>1, <1>2, <1>3, <1>4, <1>5, <1>6, <1>7, <1>8, <1>9, <1>10, <1>11
     DEF OwnerStep, OwnerCloses

\* Every step keeps the facts about an ending.
LEMMA EndStep ==
  ASSUME TypeOK, JoinInv, CountInv, QueueInv, EndInv, [Next]_vars
  PROVE  EndInv'
<1> USE DEF slotVars, ownerVars
<1>1. ASSUME MonitorStep PROVE EndInv'
  <2>1. owner \notin {"join", "gone"} \/ alive' = alive
    BY <1>1 DEF MonitorStep, MonitorExit, MonitorSkip, MonitorHigh, MonitorLow,
                MonitorMid, MonitorJoined, Samples, JoinInv, PhaseInv
  <2>2. UNCHANGED <<ending, timed_out, join_slot, submit_closed, owner>>
    BY <1>1 DEF MonitorStep, MonitorExit, MonitorSkip, MonitorHigh, MonitorLow,
                MonitorMid, MonitorJoined
  <2> QED
    BY <1>1, <2>1, <2>2, MonitorQuiet, EndFrame
<1>2. ASSUME NEW t \in Joiners, Join(t) PROVE EndInv'
  <2>1. owner \notin {"join", "gone"} \/ alive' = alive
    BY <1>2 DEF Join, Reap, ClearReaped, JoinInv, PhaseInv, Joiners
  <2>2. UNCHANGED <<ending, timed_out, join_slot, submit_closed, owner>>
    BY <1>2 DEF Join, Reap, ClearReaped
  <2> QED
    BY <1>2, <2>1, <2>2, MonitorQuiet, EndFrame
<1>3. ASSUME NEW s \in Slots, WorkerWait(s) \/ WorkerExit(s) \/ SpuriousWakeup(s)
      PROVE  EndInv'
  <2>1. Quiet
    BY <1>3 DEF WorkerWait, WorkerExit, SpuriousWakeup, Quiet, queueVars, Running,
                TypeOK
  <2> QED
    BY <1>3, <2>1, EndFrame DEF WorkerWait, WorkerExit, SpuriousWakeup
<1>4. ASSUME NEW m \in QueueMaxes, SetQueueMax(m) PROVE EndInv'
  BY <1>4, EndFrame DEF SetQueueMax, Quiet, queueVars, Running
<1>5. CASE UNCHANGED vars
  BY <1>5, EndFrame DEF vars, Quiet, queueVars, Running
<1> QED
  BY <1>1, <1>2, <1>3, <1>4, <1>5, EndJobs, EndOwner
     DEF Next, WorkerLoop, Terminated

\* The invariant holds in every reachable state of the pool.
LEMMA JobAlways == Spec => [](TypeOK /\ JoinInv /\ JobInv)
<1>1. Init => JobInv
  BY PoolAssumption DEF Init, JobInv, QueueInv, RunInv, EndInv, Running
<1>2. TypeOK /\ JoinInv /\ CountInv /\ JobInv /\ [Next]_vars => JobInv'
  BY QueueStep, RunStep, EndStep DEF JobInv
<1> QED
  BY <1>1, <1>2, JoinAlways, CountAlways, PTL DEF Spec

-----------------------------------------------------------------------------
(* The theorems                                                            *)

\* threadpool_shutdown_graceful that returns 0 has lost no accepted job,
\* whoever submitted, resized or was preempted meanwhile.
THEOREM GracefulLosesNothing == Spec => []DrainSound
<1>1. TypeOK /\ JoinInv /\ JobInv => DrainSound
  <2> SUFFICES ASSUME TypeOK, JobInv, owner = "gone", ending = "graceful",
                      ~timed_out, NEW j \in Jobs
               PROVE  status[j] \in {"new", "refused", "done"}
    BY DEF DrainSound
  <2>1. queue = <<>> /\ Running = {}
    BY DEF JobInv, EndInv
  <2>2. status[j] # "queued" /\ status[j] # "running"
    BY <2>1 DEF JobInv, QueueInv, RunInv
  <2>3. status[j] # "dropped"
    BY DEF JobInv, EndInv
  <2> QED
    BY <2>2, <2>3 DEF TypeOK, JobStates
<1> QED
  BY <1>1, JobAlways, PTL

\* Both streaks of the monitor are zero while samples are skipped, so that an
\* automatic resize follows another only after the window and a full streak.
THEOREM HysteresisIsKept == Spec => []HysteresisHolds
<1>1. Init => HysteresisHolds
  BY DEF Init, HysteresisHolds
<1>2. TypeOK /\ HysteresisHolds /\ [Next]_vars => HysteresisHolds'
  <2> SUFFICES ASSUME TypeOK, HysteresisHolds, [Next]_vars
               PROVE  HysteresisHolds'
    OBVIOUS
  <2> USE PoolAssumption DEF TypeOK, HysteresisHolds, sampleVars
  <2>1. CASE MonitorStep
    BY <2>1 DEF MonitorStep, MonitorExit, MonitorSkip, MonitorHigh, MonitorLow,
                MonitorMid, MonitorJoined, Samples
  <2>2. CASE UNCHANGED sampleVars
    BY <2>2
  <2>3. ASSUME NEW s \in Slots,
               WorkerLoop(s) \/ SpuriousWakeup(s) \/ WorkerFinish(s)
        PROVE  UNCHANGED sampleVars
    BY <2>3 DEF WorkerLoop, WorkerWait, WorkerExit, WorkerTake, SpuriousWakeup,
                WorkerFinish
  <2>4. ASSUME OwnerStep \/ OwnerCloses \/ DrainTimeout \/ DrainSpurious
        PROVE  UNCHANGED sampleVars
    BY <2>4 DEF OwnerStep, OwnerCloses, DrainTimeout, DrainSpurious,
       CreateWorkers, StartMonitor, ResizeJoined, StopMonitor, JoinMonitor,
       DrainCheck, RaiseShutdown, ShutdownSkip, ShutdownReap, ShutdownClear,
       FreePool, CloseGraceful, CloseHard
  <2>5. ASSUME \/ \E j \in Jobs : Submit(j)
               \/ \E m \in QueueMaxes : SetQueueMax(m)
               \/ \E t \in Joiners : Join(t)
               \/ \E n \in ResizeTargets : Resize(n)
        PROVE  UNCHANGED sampleVars
    BY <2>5 DEF Submit, SubmitRefused, SubmitRejected, SubmitAccepted,
                SetQueueMax, Join, Reap, ClearReaped, Resize
  <2>6. CASE UNCHANGED vars
    BY <2>6 DEF vars
  <2> QED
    BY <2>1, <2>2, <2>3, <2>4, <2>5, <2>6 DEF Next, Terminated
<1> QED
  BY <1>1, <1>2, TypeCorrect, PTL DEF Spec

-----------------------------------------------------------------------------
(* The pool implements JobService                                          *)

\* A submission is accepted or refused, as the service says.
LEMMA SubmitServes ==
  ASSUME TypeOK, JoinInv, NEW j \in Jobs, Submit(j)
  PROVE  Service!Accept(j) \/ Service!Refuse(j)
<1> USE DEF ownerVars, PoolExists
<1>1. CASE SubmitAccepted(j)
  BY <1>1 DEF SubmitAccepted, Service!Accept
<1>2. CASE SubmitRefused(j) \/ SubmitRejected(j)
  BY <1>2 DEF SubmitRefused, SubmitRejected, Service!Refuse
<1> QED
  BY <1>1, <1>2 DEF Submit

\* A dequeue starts the oldest accepted job.
LEMMA TakeServes ==
  ASSUME TypeOK, JoinInv, NEW s \in Slots, WorkerTake(s)
  PROVE  Service!Start
BY DEF WorkerTake, SignalDrain, JoinInv, PhaseInv, Service!Start

\* The return of a job finishes the one that its worker started.
LEMMA FinishServes ==
  ASSUME TypeOK, JoinInv, JobInv, NEW s \in Slots, WorkerFinish(s)
  PROVE  job[s] \in Jobs /\ Service!Finish(job[s])
<1>1. s \in Running
  BY DEF WorkerFinish, Running
<1>2. job[s] \in Jobs /\ status[job[s]] = "running"
  BY <1>1 DEF JobInv, RunInv
<1>3. UNCHANGED <<queue, ending, timed_out, shutdown, submit_closed>>
  BY DEF WorkerFinish
<1>4. owner' = owner \/ (owner = "drainwait" /\ owner' = "drain")
  BY DEF WorkerFinish, SignalDrain
<1> QED
  BY <1>2, <1>3, <1>4 DEF WorkerFinish, Service!Finish

\* free(tp) ends the service: clean after a drain, cut otherwise, and with no
\* job running in either case.
LEMMA FreeServes ==
  ASSUME TypeOK, JoinInv, JobInv, FreePool
  PROVE  Service!EndClean \/ Service!EndCut
<1>1. Running = {}
  <2>1. \A s \in Slots : ~alive[s]
    BY PoolAssumption DEF FreePool, JobInv, EndInv, Slots, TypeOK
  <2> QED
    BY <2>1 DEF JoinInv, SlotInv, Running
<1>2. Service!InStatus("running") = {}
  BY <1>1 DEF JobInv, RunInv, Service!InStatus
<1>3. /\ owner = "join" /\ owner' = "gone" /\ shutdown /\ queue' = <<>>
      /\ UNCHANGED <<ending, timed_out>>
  BY DEF FreePool, JoinInv, PhaseInv
<1>4. CASE ending = "graceful" /\ ~timed_out
  <2>1. queue = <<>>
    BY <1>3, <1>4 DEF JobInv, EndInv
  <2>2. \A j \in Jobs : status[j] # "queued"
    BY <2>1 DEF JobInv, QueueInv
  <2>3. status' = status
    BY <2>2 DEF FreePool, TypeOK
  <2> QED
    BY <1>2, <1>3, <1>4, <2>1, <2>2, <2>3 DEF Service!EndClean, Service!InStatus
<1>5. CASE ~(ending = "graceful" /\ ~timed_out)
  BY <1>2, <1>3, <1>5 DEF FreePool, Service!EndCut
<1> QED
  BY <1>4, <1>5

\* The pool closes when a graceful shutdown begins or when the hard flag is
\* raised in a pool still open; every other step that touches no job is
\* invisible to the service.
LEMMA QuietServes ==
  ASSUME TypeOK, JoinInv, JobInv, Quiet, [Next]_vars
  PROVE  Service!Close \/ FreePool \/ UNCHANGED Service!vars
<1> USE DEF Quiet, Service!vars
<1>1. CASE CloseGraceful
  <2>1. /\ ~shutdown /\ ~submit_closed /\ owner = "open"
        /\ submit_closed' /\ owner' = "stop"
    BY <1>1 DEF CloseGraceful, JoinInv, PhaseInv, JobInv, EndInv
  <2> QED
    BY <2>1 DEF Service!Close
<1>2. CASE RaiseShutdown
  <2>1. /\ ~shutdown /\ owner = "flag" /\ shutdown' /\ owner' = "join"
        /\ submit_closed' = submit_closed
    BY <1>2 DEF RaiseShutdown, JoinInv, PhaseInv
  <2> QED
    BY <2>1 DEF Service!Close
<1>3. ASSUME UNCHANGED <<shutdown, submit_closed, ending, timed_out>>,
             owner' = "gone" <=> owner = "gone"
      PROVE  UNCHANGED Service!vars
  BY <1>3
<1>4. CASE DrainTimeout
  BY <1>4 DEF DrainTimeout
<1>5. CASE \/ CreateWorkers \/ StartMonitor \/ CloseHard
  BY <1>5 DEF CreateWorkers, StartMonitor, CloseHard
<1>6. CASE \/ ResizeJoined \/ StopMonitor \/ JoinMonitor \/ DrainCheck
           \/ ShutdownSkip \/ ShutdownReap \/ ShutdownClear \/ DrainSpurious
  BY <1>3, <1>6 DEF ResizeJoined, StopMonitor, JoinMonitor, DrainCheck,
     ShutdownSkip, ShutdownReap, ShutdownClear, DrainSpurious, ownerVars
<1>7. ASSUME NEW n \in ResizeTargets, Resize(n) PROVE UNCHANGED Service!vars
  BY <1>3, <1>7 DEF Resize
<1>8. ASSUME NEW s \in Slots,
             WorkerLoop(s) \/ SpuriousWakeup(s) \/ WorkerFinish(s)
      PROVE  UNCHANGED Service!vars
  BY <1>3, <1>8 DEF WorkerLoop, WorkerWait, WorkerExit, WorkerTake,
     SpuriousWakeup, WorkerFinish, SignalDrain, ownerVars
<1>9. ASSUME MonitorStep PROVE UNCHANGED Service!vars
  BY <1>3, <1>9 DEF MonitorStep, MonitorExit, MonitorSkip, MonitorHigh,
     MonitorLow, MonitorMid, MonitorJoined, ownerVars
<1>10. ASSUME \/ \E j \in Jobs : Submit(j)
              \/ \E m \in QueueMaxes : SetQueueMax(m)
              \/ \E t \in Joiners : Join(t)
       PROVE  UNCHANGED Service!vars
  BY <1>3, <1>10 DEF Submit, SubmitRefused, SubmitRejected, SubmitAccepted,
                     SetQueueMax, Join, Reap, ClearReaped, ownerVars
<1>11. CASE UNCHANGED vars
  BY <1>3, <1>11 DEF vars, ownerVars
<1> QED
  BY <1>1, <1>2, <1>4, <1>5, <1>6, <1>7, <1>8, <1>9, <1>10, <1>11
     DEF Next, Terminated, OwnerStep, OwnerCloses

\* threadpool.c implements what threadpool.h promises: every behaviour of the
\* pool, with its workers, monitor, resizes and shutdowns, is a behaviour of
\* JobService, on which the model of the server rests.
THEOREM PoolImplementsService == Spec => ServesJobs
<1>1. Init => Service!Init
  BY DEF Init, Service!Init
<1>2. TypeOK /\ JoinInv /\ JobInv /\ [Next]_vars => [Service!Next]_(Service!vars)
  <2> SUFFICES ASSUME TypeOK, JoinInv, JobInv, [Next]_vars
               PROVE  Service!Next \/ UNCHANGED Service!vars
    OBVIOUS
  <2>1. ASSUME NEW j \in Jobs, Submit(j) PROVE Service!Next
    BY <2>1, SubmitServes DEF Service!Next
  <2>2. ASSUME NEW s \in Slots, WorkerTake(s) \/ WorkerFinish(s)
        PROVE  Service!Next
    BY <2>2, TakeServes, FinishServes DEF Service!Next
  <2>3. CASE FreePool
    BY <2>3, FreeServes DEF Service!Next
  <2>4. CASE Quiet
    BY <2>3, <2>4, QuietServes DEF Service!Next
  <2> QED
    BY <2>1, <2>2, <2>3, <2>4, JobSteps
<1> QED
  BY <1>1, <1>2, JobAlways, PTL DEF Spec, ServesJobs, Service!Spec

=============================================================================
