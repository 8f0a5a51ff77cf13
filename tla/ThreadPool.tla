------------------------------ MODULE ThreadPool ------------------------------
(***************************************************************************)
(* The worker pool of src/src/threadpool.c: a bounded FIFO of jobs, worker *)
(* threads in numbered slots, a monitor thread that grows and shrinks the  *)
(* pool, and the owner thread that creates it, resizes it and shuts it     *)
(* down, gracefully or at once.                                            *)
(*                                                                         *)
(* All shared fields are read and written under tp->mutex, so one action   *)
(* is one critical section.  Waiting on a condition variable, joining a    *)
(* thread and running a job happen outside the mutex and split the         *)
(* handlers into the steps below.  pthread_create may fail; a condition    *)
(* wait may end spuriously.                                                *)
(***************************************************************************)
EXTENDS Integers, Sequences, FiniteSets

CONSTANTS
    Jobs,               \* the connections (jobs) ever offered to the pool
    NoJob,              \* what an idle worker holds
    AbsMax,             \* TP_ABS_MAX, number of slots
    SoftMax,            \* TP_SOFT_MAX, cap of a resize
    Step,               \* TP_STEP, slots added or retired per sample
    HighWaterPct,       \* TP_HIGH_WATER_PCT
    LowWaterPct,        \* TP_LOW_WATER_PCT
    HighConsecutive,    \* TP_HIGH_CONSECUTIVE
    LowConsecutive,     \* TP_LOW_CONSECUTIVE
    HysteresisSamples,  \* TP_HYSTERESIS_SAMPLES
    QueueMaxDefault,    \* TP_QUEUE_MAX_DEFAULT
    Floor,              \* n_workers given to threadpool_create
    QueueMaxes,         \* values given to threadpool_set_queue_max
    ResizeTargets       \* values given to threadpool_resize

ASSUME PoolAssumption ==
    /\ AbsMax \in Nat /\ SoftMax \in Nat /\ Step \in Nat /\ Floor \in Nat
    /\ Floor > 0 /\ Floor <= AbsMax
    /\ SoftMax <= AbsMax /\ Step > 0
    /\ HighWaterPct \in Nat /\ LowWaterPct \in Nat
    /\ LowWaterPct < HighWaterPct
    /\ HighConsecutive \in Nat \ {0} /\ LowConsecutive \in Nat \ {0}
    /\ HysteresisSamples \in Nat
    /\ QueueMaxDefault \in Nat /\ QueueMaxes \subseteq Nat
    /\ ResizeTargets \subseteq Nat \ {0}
    /\ NoJob \notin Jobs

Slots == 0 .. AbsMax - 1

VARIABLES
    worker,             \* where the thread of a slot is
    job,                \* the job a worker holds between dequeue and return
    alive,              \* worker_alive
    retiring,           \* worker_retiring
    n_workers,
    active_workers,
    queue,              \* head .. tail; queue_depth is its length
    queue_max,
    rejected_total,
    shutdown,
    submit_closed,
    monitor,            \* where the monitor thread is
    monitor_should_exit,
    high_consecutive,   \* kept at its threshold once there: only >= is asked
    low_consecutive,    \* kept at its threshold once there
    skip_samples,
    retired,            \* slots a shrinking thread has still to join
    reaped,             \* pthread_join returned, worker_alive not yet cleared
    owner,              \* where the owner's call is
    ending,             \* how the pool is being ended
    timed_out,          \* the drain wait ended with ETIMEDOUT
    join_slot,          \* the loop variable of threadpool_shutdown
    status              \* what became of each job (history)

\* Fields of the queue and the outcome of the jobs.
queueVars == <<queue, status>>
\* Fields that count and place the worker threads.
slotVars == <<alive, retiring, n_workers>>
\* Fields only the monitor thread writes.
sampleVars == <<high_consecutive, low_consecutive, skip_samples>>
\* Fields only the owner thread writes.
ownerVars == <<owner, ending, timed_out, join_slot, shutdown, submit_closed,
               monitor_should_exit>>
limitVars == <<queue_max, rejected_total>>
joinVars == <<retired, reaped>>

vars == <<worker, job, active_workers, queueVars, slotVars, sampleVars,
          ownerVars, limitVars, joinVars, monitor>>

Joiners == {"monitor", "owner"}
WorkerStates == {"none", "lock", "wait", "run", "exit"}
MonitorStates == {"none", "sleep", "join", "exit"}
OwnerStates == {"create", "start", "open", "resize", "stop", "joinmon",
                "drain", "drainwait", "flag", "join", "gone"}
Endings == {"none", "failed", "hard", "graceful"}
JobStates == {"new", "queued", "running", "done", "refused", "dropped"}

Lesser(a, b) == IF a <= b THEN a ELSE b
Greater(a, b) == IF a >= b THEN a ELSE b

\* Mutant: a retiring slot counts as free before its thread is joined.
DeadOrRetiring == {s \in Slots : ~alive[s] \/ retiring[s]}

Dead == {s \in Slots : ~alive[s]}
Serving == {s \in Slots : alive[s] /\ ~retiring[s]}
Waiting == {s \in Slots : worker[s] = "wait"}
Running == {s \in Slots : worker[s] = "run"}

TypeOK ==
    /\ worker \in [Slots -> WorkerStates]
    /\ job \in [Slots -> Jobs \cup {NoJob}]
    /\ alive \in [Slots -> BOOLEAN]
    /\ retiring \in [Slots -> BOOLEAN]
    /\ n_workers \in Int
    /\ active_workers \in Int
    /\ queue \in Seq(Jobs)
    /\ queue_max \in Nat
    /\ rejected_total \in Nat
    /\ shutdown \in BOOLEAN
    /\ submit_closed \in BOOLEAN
    /\ monitor \in MonitorStates
    /\ monitor_should_exit \in BOOLEAN
    /\ high_consecutive \in 0 .. HighConsecutive
    /\ low_consecutive \in 0 .. LowConsecutive
    /\ skip_samples \in 0 .. HysteresisSamples
    /\ retired \in [Joiners -> SUBSET Slots]
    /\ reaped \in [Joiners -> BOOLEAN]
    /\ owner \in OwnerStates
    /\ ending \in Endings
    /\ timed_out \in BOOLEAN
    /\ join_slot \in 0 .. AbsMax
    /\ status \in [Jobs -> JobStates]

\* calloc'ed pool before threadpool_create starts its first worker.
Init ==
    /\ worker = [s \in Slots |-> "none"]
    /\ job = [s \in Slots |-> NoJob]
    /\ alive = [s \in Slots |-> FALSE]
    /\ retiring = [s \in Slots |-> FALSE]
    /\ n_workers = 0
    /\ active_workers = 0
    /\ queue = <<>>
    /\ queue_max = QueueMaxDefault
    /\ rejected_total = 0
    /\ shutdown = FALSE
    /\ submit_closed = FALSE
    /\ monitor = "none"
    /\ monitor_should_exit = FALSE
    /\ high_consecutive = 0
    /\ low_consecutive = 0
    /\ skip_samples = 0
    /\ retired = [t \in Joiners |-> {}]
    /\ reaped = [t \in Joiners |-> FALSE]
    /\ owner = "create"
    /\ ending = "none"
    /\ timed_out = FALSE
    /\ join_slot = 0
    /\ status = [j \in Jobs |-> "new"]

-----------------------------------------------------------------------------
(* Condition variables and the resize primitives, mutex held.              *)

\* Mutant: the broadcast is forgotten.
WakeNone == worker

\* pthread_cond_broadcast(cond_nonempty): every waiting worker will retry.
WakeAll == [s \in Slots |-> IF worker[s] = "wait" THEN "lock" ELSE worker[s]]

\* Mutant: the signal is forgotten.
SignalNone == UNCHANGED worker

\* pthread_cond_signal(cond_nonempty): one waiting worker, if there is one.
SignalOne ==
    \/ Waiting = {} /\ UNCHANGED worker
    \/ \E w \in Waiting : worker' = [worker EXCEPT ![w] = "lock"]

\* pthread_cond_broadcast(cond_queue_empty): the drain wait looks again.
SignalDrain(cond) ==
    owner' = IF cond /\ owner = "drainwait" THEN "drain" ELSE owner

\* threadpool_expand_locked: the lowest dead slots get a new thread, fewer
\* than asked for when a thread cannot be created.
Expand(target) ==
    \E A \in SUBSET Dead :
        /\ Cardinality(A) <= Lesser(target, AbsMax) - n_workers
        /\ \A a \in A, d \in Dead \ A : a < d
        /\ worker' = [s \in Slots |-> IF s \in A THEN "lock" ELSE worker[s]]
        /\ alive' = [s \in Slots |-> s \in A \/ alive[s]]
        /\ retiring' = [s \in Slots |-> s \notin A /\ retiring[s]]
        /\ n_workers' = n_workers + Cardinality(A)

\* threadpool_mark_retire_locked: the highest serving slots are told to go,
\* never below the floor, and thread t will join them.
MarkRetire(t, target, cap) ==
    \E M \in SUBSET Serving :
        /\ Cardinality(M) = Lesser(n_workers - Greater(target, Floor), cap)
        /\ \A m \in M, s \in Serving \ M : s < m
        /\ retiring' = [s \in Slots |-> s \in M \/ retiring[s]]
        /\ n_workers' = n_workers - Cardinality(M)
        /\ retired' = [retired EXCEPT ![t] = M]
        /\ worker' = WakeAll
        /\ UNCHANGED alive

\* threadpool_join_retired, pthread_join: the highest slot still listed.
Reap(t) ==
    /\ ~reaped[t]
    /\ \E s \in retired[t] :
        /\ \A r \in retired[t] : r <= s
        /\ worker[s] = "exit"
        /\ worker' = [worker EXCEPT ![s] = "none"]
    /\ reaped' = [reaped EXCEPT ![t] = TRUE]
    /\ UNCHANGED <<job, active_workers, queueVars, slotVars, sampleVars,
                   ownerVars, limitVars, retired, monitor>>

\* threadpool_join_retired, after the join: the slot is free again.
ClearReaped(t) ==
    /\ reaped[t]
    /\ \E s \in retired[t] :
        /\ \A r \in retired[t] : r <= s
        /\ alive' = [alive EXCEPT ![s] = FALSE]
        /\ retiring' = [retiring EXCEPT ![s] = FALSE]
        /\ retired' = [retired EXCEPT ![t] = @ \ {s}]
    /\ reaped' = [reaped EXCEPT ![t] = FALSE]
    /\ UNCHANGED <<worker, job, active_workers, queueVars, n_workers,
                   sampleVars, ownerVars, limitVars, monitor>>

-----------------------------------------------------------------------------
(* threadpool_submit and threadpool_set_queue_max, any thread.             *)

\* The pool exists and its pointer is still valid.
PoolExists == owner \notin {"create", "start", "gone"}

\* Closed pool, or no memory for the job: -1.
SubmitRefused(j) ==
    /\ PoolExists
    /\ status[j] = "new"
    /\ status' = [status EXCEPT ![j] = "refused"]
    /\ UNCHANGED <<worker, job, active_workers, queue, slotVars, sampleVars,
                   ownerVars, limitVars, joinVars, monitor>>

QueueFull == queue_max > 0 /\ Len(queue) >= queue_max

\* Open pool, queue at its limit: -1 and the rejection is counted.
SubmitRejected(j) ==
    /\ PoolExists
    /\ status[j] = "new"
    /\ ~shutdown /\ ~submit_closed
    /\ QueueFull
    /\ status' = [status EXCEPT ![j] = "refused"]
    /\ rejected_total' = rejected_total + 1
    /\ UNCHANGED <<worker, job, active_workers, queue, slotVars, sampleVars,
                   ownerVars, queue_max, joinVars, monitor>>

\* Appended at the tail and one waiting worker is signalled: 0.
SubmitAccepted(j) ==
    /\ PoolExists
    /\ status[j] = "new"
    /\ ~shutdown /\ ~submit_closed
    /\ ~QueueFull
    /\ queue' = Append(queue, j)
    /\ status' = [status EXCEPT ![j] = "queued"]
    /\ SignalOne
    /\ UNCHANGED <<job, active_workers, slotVars, sampleVars, ownerVars,
                   limitVars, joinVars, monitor>>

SetQueueMax(m) ==
    /\ owner = "open"
    /\ queue_max' = m
    /\ UNCHANGED <<worker, job, active_workers, queueVars, slotVars,
                   sampleVars, ownerVars, rejected_total, joinVars, monitor>>

-----------------------------------------------------------------------------
(* threadpool_worker_main                                                  *)

\* Loop test holds: sleep on cond_nonempty.
WorkerWait(s) ==
    /\ worker[s] = "lock"
    /\ queue = <<>> /\ ~shutdown /\ ~retiring[s]
    /\ worker' = [worker EXCEPT ![s] = "wait"]
    /\ UNCHANGED <<job, active_workers, queueVars, slotVars, sampleVars,
                   ownerVars, limitVars, joinVars, monitor>>

\* A condition wait may end without a signal.
SpuriousWakeup(s) ==
    /\ worker[s] = "wait"
    /\ worker' = [worker EXCEPT ![s] = "lock"]
    /\ UNCHANGED <<job, active_workers, queueVars, slotVars, sampleVars,
                   ownerVars, limitVars, joinVars, monitor>>

\* Mutant: a worker that leaves is taken off n_workers a second time.
WorkerExitCounted(s) ==
    /\ worker[s] = "lock"
    /\ shutdown \/ retiring[s]
    /\ worker' = [worker EXCEPT ![s] = "exit"]
    /\ n_workers' = n_workers - 1
    /\ UNCHANGED <<job, active_workers, queueVars, alive, retiring,
                   sampleVars, ownerVars, limitVars, joinVars, monitor>>

\* Shut down or retired: leave without touching the queue.
WorkerExit(s) ==
    /\ worker[s] = "lock"
    /\ shutdown \/ retiring[s]
    /\ worker' = [worker EXCEPT ![s] = "exit"]
    /\ UNCHANGED <<job, active_workers, queueVars, slotVars, sampleVars,
                   ownerVars, limitVars, joinVars, monitor>>

\* Dequeue the head and run it; the drain wait is told of an empty queue.
WorkerTake(s) ==
    /\ worker[s] = "lock"
    /\ queue # <<>> /\ ~shutdown /\ ~retiring[s]
    /\ worker' = [worker EXCEPT ![s] = "run"]
    /\ job' = [job EXCEPT ![s] = Head(queue)]
    /\ status' = [status EXCEPT ![Head(queue)] = "running"]
    /\ queue' = Tail(queue)
    /\ active_workers' = active_workers + 1
    /\ SignalDrain(Len(queue) = 1)
    /\ UNCHANGED <<slotVars, sampleVars, ending, timed_out, join_slot,
                   shutdown, submit_closed, monitor_should_exit, limitVars,
                   joinVars, monitor>>

\* fn(arg) returned; back under the mutex, then to the top of the loop.
WorkerFinish(s) ==
    /\ worker[s] = "run"
    /\ worker' = [worker EXCEPT ![s] = "lock"]
    /\ job' = [job EXCEPT ![s] = NoJob]
    /\ status' = [status EXCEPT ![job[s]] = "done"]
    /\ active_workers' = active_workers - 1
    /\ SignalDrain(queue = <<>> /\ active_workers = 1)
    /\ UNCHANGED <<queue, slotVars, sampleVars, ending, timed_out, join_slot,
                   shutdown, submit_closed, monitor_should_exit, limitVars,
                   joinVars, monitor>>

WorkerLoop(s) == WorkerWait(s) \/ WorkerExit(s) \/ WorkerTake(s)

-----------------------------------------------------------------------------
(* threadpool_monitor_main: one sample per wake-up.                        *)

MonitorExit ==
    /\ monitor = "sleep"
    /\ monitor_should_exit \/ shutdown
    /\ monitor' = "exit"
    /\ UNCHANGED <<worker, job, active_workers, queueVars, slotVars,
                   sampleVars, ownerVars, limitVars, joinVars>>

\* Mutant: the window is counted down without asking whether it is open.
MonitorSkipAlways ==
    /\ monitor = "sleep"
    /\ ~monitor_should_exit /\ ~shutdown
    /\ skip_samples' = skip_samples - 1
    /\ UNCHANGED <<worker, job, active_workers, queueVars, slotVars,
                   high_consecutive, low_consecutive, ownerVars, limitVars,
                   joinVars, monitor>>

\* Mutant: a sample inside the window still adds to the streak.
MonitorSkipCounts ==
    /\ monitor = "sleep"
    /\ ~monitor_should_exit /\ ~shutdown
    /\ skip_samples > 0
    /\ skip_samples' = skip_samples - 1
    /\ low_consecutive' = Lesser(low_consecutive + 1, LowConsecutive)
    /\ UNCHANGED <<worker, job, active_workers, queueVars, slotVars,
                   high_consecutive, ownerVars, limitVars, joinVars, monitor>>

MonitorSkip ==
    /\ monitor = "sleep"
    /\ ~monitor_should_exit /\ ~shutdown
    /\ skip_samples > 0
    /\ skip_samples' = skip_samples - 1
    /\ UNCHANGED <<worker, job, active_workers, queueVars, slotVars,
                   high_consecutive, low_consecutive, ownerVars, limitVars,
                   joinVars, monitor>>

\* A sample that counts.
Samples ==
    /\ monitor = "sleep"
    /\ ~monitor_should_exit /\ ~shutdown
    /\ skip_samples = 0

UtilPct == IF n_workers > 0 THEN (active_workers * 100) \div n_workers ELSE 0

HighStreak == Lesser(high_consecutive + 1, HighConsecutive)
LowStreak == Lesser(low_consecutive + 1, LowConsecutive)

MonitorHigh ==
    /\ Samples
    /\ UtilPct >= HighWaterPct
    /\ low_consecutive' = 0
    /\ \/ /\ HighStreak >= HighConsecutive /\ n_workers < SoftMax
          /\ Expand(Lesser(n_workers + Step, SoftMax))
          /\ skip_samples' = HysteresisSamples
          /\ high_consecutive' = 0
       \/ /\ ~(HighStreak >= HighConsecutive /\ n_workers < SoftMax)
          /\ high_consecutive' = HighStreak
          /\ UNCHANGED <<worker, slotVars, skip_samples>>
    /\ UNCHANGED <<job, active_workers, queueVars, ownerVars, limitVars,
                   joinVars, monitor>>

\* The slots marked are joined outside the mutex before the next sample.
MonitorLow ==
    /\ Samples
    /\ UtilPct < HighWaterPct /\ UtilPct <= LowWaterPct
    /\ high_consecutive' = 0
    /\ \/ /\ LowStreak >= LowConsecutive /\ n_workers > Floor
          /\ MarkRetire("monitor", n_workers - Step, Step)
          /\ skip_samples' = HysteresisSamples
          /\ low_consecutive' = 0
          /\ monitor' = "join"
       \/ /\ ~(LowStreak >= LowConsecutive /\ n_workers > Floor)
          /\ low_consecutive' = LowStreak
          /\ UNCHANGED <<worker, slotVars, skip_samples, retired, monitor>>
    /\ UNCHANGED <<job, active_workers, queueVars, ownerVars, limitVars,
                   reaped>>

MonitorMid ==
    /\ Samples
    /\ UtilPct < HighWaterPct /\ UtilPct > LowWaterPct
    /\ high_consecutive' = 0
    /\ low_consecutive' = 0
    /\ UNCHANGED <<worker, job, active_workers, queueVars, slotVars,
                   skip_samples, ownerVars, limitVars, joinVars, monitor>>

MonitorJoined ==
    /\ monitor = "join"
    /\ retired["monitor"] = {}
    /\ monitor' = "sleep"
    /\ UNCHANGED <<worker, job, active_workers, queueVars, slotVars,
                   sampleVars, ownerVars, limitVars, joinVars>>

MonitorStep == MonitorExit \/ MonitorSkip \/ MonitorHigh \/ MonitorLow
               \/ MonitorMid \/ MonitorJoined

-----------------------------------------------------------------------------
(* threadpool_create                                                       *)

\* Every worker of the floor, or the clean-up path of a partial start.
CreateWorkers ==
    /\ owner = "create"
    /\ Expand(Floor)
    /\ IF n_workers' = Floor
       THEN owner' = "start" /\ UNCHANGED ending
       ELSE owner' = "flag" /\ ending' = "failed"
    /\ UNCHANGED <<job, active_workers, queueVars, sampleVars, timed_out,
                   join_slot, shutdown, submit_closed, monitor_should_exit,
                   limitVars, joinVars, monitor>>

StartMonitor ==
    /\ owner = "start"
    /\ \/ monitor' = "sleep" /\ owner' = "open" /\ UNCHANGED ending
       \/ monitor' = "none" /\ owner' = "flag" /\ ending' = "failed"
    /\ UNCHANGED <<worker, job, active_workers, queueVars, slotVars,
                   sampleVars, timed_out, join_slot, shutdown, submit_closed,
                   monitor_should_exit, limitVars, joinVars>>

-----------------------------------------------------------------------------
(* threadpool_resize, called by the owner.                                 *)

\* Mutant: the cap is not applied.
ClampFloorOnly(n) == Greater(n, Floor)

ClampTarget(n) == Greater(Lesser(n, SoftMax), Floor)

Resize(n) ==
    /\ owner = "open"
    /\ ~shutdown /\ ~submit_closed
    /\ \/ /\ ClampTarget(n) > n_workers
          /\ Expand(ClampTarget(n))
          /\ UNCHANGED <<retired, owner>>
       \/ /\ ClampTarget(n) < n_workers
          /\ MarkRetire("owner", ClampTarget(n), AbsMax)
          /\ owner' = "resize"
    /\ UNCHANGED <<job, active_workers, queueVars, sampleVars, ending,
                   timed_out, join_slot, shutdown, submit_closed,
                   monitor_should_exit, limitVars, reaped, monitor>>

ResizeJoined ==
    /\ owner = "resize"
    /\ retired["owner"] = {}
    /\ owner' = "open"
    /\ UNCHANGED <<worker, job, active_workers, queueVars, slotVars,
                   sampleVars, ending, timed_out, join_slot, shutdown,
                   submit_closed, monitor_should_exit, limitVars, joinVars,
                   monitor>>

-----------------------------------------------------------------------------
(* threadpool_shutdown_graceful and threadpool_shutdown                    *)

\* Refuse new jobs first; the monitor may take a whole sample to stop.
CloseGraceful ==
    /\ owner = "open"
    /\ submit_closed' = TRUE
    /\ ending' = "graceful"
    /\ owner' = "stop"
    /\ UNCHANGED <<worker, job, active_workers, queueVars, slotVars,
                   sampleVars, timed_out, join_slot, shutdown,
                   monitor_should_exit, limitVars, joinVars, monitor>>

CloseHard ==
    /\ owner = "open"
    /\ ending' = "hard"
    /\ owner' = "stop"
    /\ UNCHANGED <<worker, job, active_workers, queueVars, slotVars,
                   sampleVars, timed_out, join_slot, shutdown, submit_closed,
                   monitor_should_exit, limitVars, joinVars, monitor>>

\* threadpool_stop_monitor: raise the flag, then join the monitor.
StopMonitor ==
    /\ owner = "stop"
    /\ monitor_should_exit' = TRUE
    /\ owner' = "joinmon"
    /\ UNCHANGED <<worker, job, active_workers, queueVars, slotVars,
                   sampleVars, ending, timed_out, join_slot, shutdown,
                   submit_closed, limitVars, joinVars, monitor>>

JoinMonitor ==
    /\ owner = "joinmon"
    /\ monitor = "exit"
    /\ monitor' = "none"
    /\ owner' = IF ending = "graceful" THEN "drain" ELSE "flag"
    /\ UNCHANGED <<worker, job, active_workers, queueVars, slotVars,
                   sampleVars, ending, timed_out, join_slot, shutdown,
                   submit_closed, monitor_should_exit, limitVars, joinVars>>

\* Mutant: jobs still queued are forgotten.
NoneActive == active_workers = 0

Drained == queue = <<>> /\ active_workers = 0

\* The test of the drain loop, mutex held.
DrainCheck ==
    /\ owner = "drain"
    /\ owner' = IF Drained THEN "flag" ELSE "drainwait"
    /\ UNCHANGED <<worker, job, active_workers, queueVars, slotVars,
                   sampleVars, ending, timed_out, join_slot, shutdown,
                   submit_closed, monitor_should_exit, limitVars, joinVars,
                   monitor>>

\* pthread_cond_timedwait returned ETIMEDOUT, whatever the queue holds now.
DrainTimeout ==
    /\ owner = "drainwait"
    /\ timed_out' = TRUE
    /\ owner' = "flag"
    /\ UNCHANGED <<worker, job, active_workers, queueVars, slotVars,
                   sampleVars, ending, join_slot, shutdown, submit_closed,
                   monitor_should_exit, limitVars, joinVars, monitor>>

\* The wait was signalled for nothing: the loop tests again.
DrainSpurious ==
    /\ owner = "drainwait"
    /\ owner' = "drain"
    /\ UNCHANGED <<worker, job, active_workers, queueVars, slotVars,
                   sampleVars, ending, timed_out, join_slot, shutdown,
                   submit_closed, monitor_should_exit, limitVars, joinVars,
                   monitor>>

\* threadpool_shutdown: the hard flag, every waiting worker woken.
RaiseShutdown ==
    /\ owner = "flag"
    /\ shutdown' = TRUE
    /\ worker' = WakeAll
    /\ owner' = "join"
    /\ UNCHANGED <<job, active_workers, queueVars, slotVars, sampleVars,
                   ending, timed_out, join_slot, submit_closed,
                   monitor_should_exit, limitVars, joinVars, monitor>>

\* The join loop: skip a dead slot, join a live one, clear its flag.
ShutdownSkip ==
    /\ owner = "join" /\ join_slot < AbsMax
    /\ ~alive[join_slot]
    /\ join_slot' = join_slot + 1
    /\ UNCHANGED <<worker, job, active_workers, queueVars, slotVars,
                   sampleVars, owner, ending, timed_out, shutdown,
                   submit_closed, monitor_should_exit, limitVars, joinVars,
                   monitor>>

ShutdownReap ==
    /\ owner = "join" /\ join_slot < AbsMax
    /\ alive[join_slot] /\ ~reaped["owner"]
    /\ worker[join_slot] = "exit"
    /\ worker' = [worker EXCEPT ![join_slot] = "none"]
    /\ reaped' = [reaped EXCEPT !["owner"] = TRUE]
    /\ UNCHANGED <<job, active_workers, queueVars, slotVars, sampleVars,
                   ownerVars, limitVars, retired, monitor>>

ShutdownClear ==
    /\ owner = "join" /\ join_slot < AbsMax
    /\ reaped["owner"]
    /\ alive' = [alive EXCEPT ![join_slot] = FALSE]
    /\ reaped' = [reaped EXCEPT !["owner"] = FALSE]
    /\ join_slot' = join_slot + 1
    /\ UNCHANGED <<worker, job, active_workers, queueVars, retiring,
                   n_workers, sampleVars, owner, ending, timed_out, shutdown,
                   submit_closed, monitor_should_exit, limitVars, retired,
                   monitor>>

\* threadpool_free_jobs and free(tp): jobs still queued are never run.
FreePool ==
    /\ owner = "join" /\ join_slot = AbsMax
    /\ owner' = "gone"
    /\ queue' = <<>>
    /\ status' = [j \in Jobs |-> IF status[j] = "queued" THEN "dropped"
                                                         ELSE status[j]]
    /\ UNCHANGED <<worker, job, active_workers, slotVars, sampleVars, ending,
                   timed_out, join_slot, shutdown, submit_closed,
                   monitor_should_exit, limitVars, joinVars, monitor>>

OwnerCloses == CloseGraceful \/ CloseHard

OwnerStep == CreateWorkers \/ StartMonitor \/ ResizeJoined \/ StopMonitor
             \/ JoinMonitor \/ DrainCheck \/ RaiseShutdown \/ ShutdownSkip
             \/ ShutdownReap \/ ShutdownClear \/ FreePool

Submit(j) == SubmitRefused(j) \/ SubmitRejected(j) \/ SubmitAccepted(j)

Join(t) == Reap(t) \/ ClearReaped(t)

\* threadpool_shutdown_graceful has returned and tp is free: nothing is left.
Terminated == owner = "gone" /\ UNCHANGED vars

Next ==
    \/ \E j \in Jobs : Submit(j)
    \/ \E m \in QueueMaxes : SetQueueMax(m)
    \/ \E s \in Slots : WorkerLoop(s) \/ SpuriousWakeup(s) \/ WorkerFinish(s)
    \/ MonitorStep
    \/ \E t \in Joiners : Join(t)
    \/ \E n \in ResizeTargets : Resize(n)
    \/ OwnerCloses
    \/ OwnerStep
    \/ DrainTimeout \/ DrainSpurious
    \/ Terminated

\* Threads that can run do run, a job that was started returns; nobody is
\* obliged to submit, to resize, to close the pool or to let the wait expire.
Fairness ==
    /\ \A s \in Slots : WF_vars(WorkerLoop(s)) /\ WF_vars(WorkerFinish(s))
    /\ WF_vars(MonitorStep)
    /\ \A t \in Joiners : WF_vars(Join(t))
    /\ WF_vars(OwnerStep)

Spec == Init /\ [][Next]_vars
FairSpec == Spec /\ Fairness

-----------------------------------------------------------------------------
(* Correctness                                                             *)

\* Work conservation.  While some worker sleeps on cond_nonempty, as many
\* serving workers are on their way to the queue as it has jobs: no wake-up
\* is lost, whether it was sent by threadpool_submit to a worker that another
\* thread overtook or to one that is being retired.
WorkConserving ==
    Waiting # {} =>
        Cardinality({s \in Serving : worker[s] = "lock"}) >= Len(queue)

\* The counters the monitor divides are right: active_workers counts the
\* workers between dequeue and return, retiring ones included, and n_workers
\* the live slots not told to go, across resizes that overlap a join.
CountersExact ==
    /\ active_workers = Cardinality(Running)
    /\ ~shutdown => n_workers = Cardinality(Serving)

\* While the pool is in use it never shrinks below its floor and never
\* grows above the larger of the floor and TP_SOFT_MAX, although the monitor
\* and threadpool_resize both resize it.
SizeBounds ==
    owner \notin {"create", "start", "flag", "join", "gone"} =>
        n_workers \in Floor .. Greater(Floor, SoftMax)

\* A slot free for threadpool_expand_locked has no thread that was not
\* joined, so no pthread_t is overwritten while its thread is live; and no
\* thread is joined twice, by monitor, resize or shutdown.
JoinedOnce ==
    /\ \A s \in Slots : ~alive[s] => worker[s] = "none"
    /\ retired["monitor"] \cap retired["owner"] = {}
    /\ \A t \in Joiners : \A s \in retired[t] :
           /\ retiring[s] /\ alive[s]
           /\ worker[s] = "none" => reaped[t]
    /\ owner = "join" => retired["monitor"] = {} /\ retired["owner"] = {}

\* threadpool_shutdown_graceful returns 0 only when every job that
\* threadpool_submit accepted has run to its end.
DrainSound ==
    owner = "gone" /\ ending = "graceful" /\ ~timed_out =>
        \A j \in Jobs : status[j] \in {"new", "refused", "done"}

\* During the hysteresis window after an automatic resize both streaks are
\* zero, so the next automatic resize needs a whole streak of samples that
\* were all taken after the window.
HysteresisHolds ==
    skip_samples > 0 => high_consecutive = 0 /\ low_consecutive = 0

\* An accepted job is run, unless the pool is ended without draining it.
AcceptedJobEnds ==
    \A j \in Jobs : status[j] = "queued" ~> status[j] \in {"done", "dropped"}

\* A shutdown that was begun comes to its end: nobody waits for ever for a
\* worker that sleeps, a monitor that joins or a drain nobody announces.
ShutdownReturns == ending # "none" ~> owner = "gone"

\* The pool keeps the promise of JobService.
Service == INSTANCE JobService WITH
    backlog <- queue,
    phase <- IF owner = "gone"
             THEN IF ending = "graceful" /\ ~timed_out THEN "clean" ELSE "cut"
             ELSE IF shutdown \/ submit_closed THEN "closed" ELSE "open"
ServesJobs == Service!Spec

=============================================================================
