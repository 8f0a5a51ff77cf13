---------------------------- MODULE ServerProofs ----------------------------
(***************************************************************************)
(* Proofs about Server, for every number of connections and signals: each  *)
(* accepted socket has one owner and is answered before it is closed, and  *)
(* the engine is up whenever a handler runs a statement.                   *)
(***************************************************************************)
EXTENDS Server, TLAPS

-----------------------------------------------------------------------------
(* The inductive invariant                                                 *)

JobStates == {"new", "queued", "running", "done", "refused", "dropped"}
Live == {"open", "closed"}
Ended == {"clean", "cut"}

PoolTypeOK ==
    /\ status \in [Conns -> JobStates]
    /\ backlog \in Seq(Conns)
    /\ phase \in Live \cup Ended

\* The queue of the pool holds jobs that wait, each once.
QueueInv ==
    /\ \A i \in 1 .. Len(backlog) : status[backlog[i]] = "queued"
    /\ \A i, j \in 1 .. Len(backlog) : backlog[i] = backlog[j] => i = j

\* handle_client runs as a job of the pool; it has something to write, and it
\* has written before it closes.
HandlerInv ==
    \A c \in Conns :
        /\ step[c] # "none" => status[c] = "running"
        /\ step[c] = "write" => resp[c] # "none"
        /\ step[c] = "close" => answer[c] # "none" \/ ~peer[c]

\* What became of a connection in the pool decides its socket.
SocketInv ==
    \A c \in Conns :
        /\ c = client_fd => status[c] = "new" /\ socket[c] = "open"
        /\ status[c] = "new" /\ c # client_fd => socket[c] \in {"none", "pending"}
        /\ status[c] \in {"queued", "running", "dropped"} => socket[c] = "open"
        /\ status[c] \in {"done", "refused"} => socket[c] = "closed"
        /\ socket[c] = "closed" => answer[c] # "none" \/ ~peer[c]

Serving == {"loop", "accept", "asleep", "submit", "leave", "drain", "drained"}

\* server_run keeps the engine from the first accept until the pool has ended,
\* and a pool without an engine runs nothing and can start nothing.
EngineInv ==
    /\ main \in Serving => engine = "up"
    /\ main = "drained" => phase \in Ended
    /\ phase \in Ended => \A c \in Conns : status[c] # "running"
    /\ engine = "down" => /\ \A c \in Conns : status[c] # "running"
                          /\ backlog = <<>> \/ phase \in Ended

ServerInv == /\ TypeOK /\ PoolTypeOK /\ QueueInv /\ HandlerInv /\ SocketInv
             /\ EngineInv

-----------------------------------------------------------------------------
(* Every step keeps the invariant: one lemma per part of it                *)

\* The initial state: nothing has been accepted and the engine is down.
LEMMA ServerInvInit == Init => ServerInv
<1> SUFFICES ASSUME Init PROVE ServerInv
  OBVIOUS
<1> USE ServerAssumption DEF Init, Pool!Init
<1>1. TypeOK
  <2>1. /\ flag \in BOOLEAN /\ listening \in BOOLEAN /\ missed \in BOOLEAN
        /\ peer \in [Conns -> BOOLEAN]
    OBVIOUS
  <2>2. /\ client_fd \in Conns \cup {NoConn}
        /\ main = "submit" <=> client_fd # NoConn
    OBVIOUS
  <2>3. signals \in 0 .. MaxSignals
    OBVIOUS
  <2> QED
    BY <2>1, <2>2, <2>3 DEF TypeOK
<1>2. PoolTypeOK
  BY DEF PoolTypeOK, JobStates, Live, Ended
<1>3. QueueInv
  BY DEF QueueInv
<1>4. HandlerInv /\ SocketInv /\ EngineInv
  BY DEF HandlerInv, SocketInv, EngineInv, Serving, Live, Ended
<1> QED
  BY <1>1, <1>2, <1>3, <1>4 DEF ServerInv

\* server_run, the handlers, clients and signals keep the types; server_run
\* holds a descriptor exactly while it submits it.
LEMMA TypeStep ==
  ASSUME TypeOK, PoolTypeOK, Next
  PROVE  TypeOK'
<1> USE ServerAssumption DEF TypeOK, PoolTypeOK,
        mainVars, clientVars, handlerVars, poolVars, signalVars
<1>1. CASE ClearFlag \/ Boot \/ BootFails \/ TestFlag \/ Sleep
           \/ AcceptFails
  BY <1>1 DEF ClearFlag, Boot, BootFails, TestFlag, Sleep, AcceptFails
<1>2. CASE StopEngine \/ Signal
  <2>1. CASE StopEngine
    BY <2>1 DEF StopEngine
  <2>2. CASE Signal
    <3>1. missed' = (missed \/ main = "accept") /\ flag' = TRUE
      BY <2>2 DEF Signal
    <3>2. missed' \in BOOLEAN /\ flag' \in BOOLEAN
      <4>1. (missed \/ main = "accept") \in BOOLEAN
        OBVIOUS
      <4> QED
        BY <3>1, <4>1
    <3>3. main' \in {main, "loop"} /\ (main' # main => main = "asleep")
      BY <2>2 DEF Signal
    <3>4. signals' \in 0 .. MaxSignals
      BY <2>2 DEF Signal
    <3> QED
      BY <2>2, <3>2, <3>3, <3>4 DEF Signal
  <2> QED
    BY <1>2, <2>1, <2>2
<1>3. ASSUME NEW c \in Conns, Accept(c) PROVE TypeOK'
  BY <1>3 DEF Accept, Pending
<1>4. CASE SubmitAccepted
  BY <1>4 DEF SubmitAccepted, Pool!Accept
<1>5. CASE SubmitRefused
  BY <1>5 DEF SubmitRefused, Pool!Refuse, Deliver
<1>6. CASE CloseListener
  BY <1>6 DEF CloseListener, Pool!Close
<1>7. CASE Drained
  BY <1>7 DEF Drained, Pool!EndClean, Pool!EndCut, Pool!InStatus
<1>8. CASE StartJob
  BY <1>8 DEF StartJob, Pool!Start
<1>9. ASSUME NEW c \in Conns, Handle(c) PROVE TypeOK'
  <2>1. CASE ReadRequest(c)
    BY <2>1 DEF ReadRequest
  <2>2. CASE Dispatch(c)
    BY <2>2 DEF Dispatch
  <2>3. CASE WriteResponse(c)
    BY <2>3 DEF WriteResponse, Deliver
  <2>4. CASE CloseClient(c)
    BY <2>4 DEF CloseClient, Pool!Finish
  <2> QED
    BY <1>9, <2>1, <2>2, <2>3, <2>4 DEF Handle
<1>10. ASSUME NEW c \in Conns, Connect(c) \/ HangUp(c) PROVE TypeOK'
  BY <1>10 DEF Connect, HangUp
<1>11. CASE Gone
  BY <1>11 DEF Gone, vars
<1> QED
  BY <1>1, <1>2, <1>3, <1>4, <1>5, <1>6, <1>7, <1>8, <1>9, <1>10, <1>11
     DEF Next, ServerRun

\* The pool as the server uses it keeps its types.
LEMMA PoolTypeStep ==
  ASSUME TypeOK, PoolTypeOK, Next
  PROVE  PoolTypeOK'
<1> USE ServerAssumption DEF TypeOK, PoolTypeOK,
        JobStates, Live, Ended,
        mainVars, clientVars, handlerVars, poolVars, signalVars
<1>1. CASE ClearFlag \/ Boot \/ BootFails \/ TestFlag \/ Sleep
           \/ AcceptFails
  BY <1>1 DEF ClearFlag, Boot, BootFails, TestFlag, Sleep, AcceptFails
<1>2. CASE StopEngine \/ Signal
  BY <1>2 DEF StopEngine, Signal
<1>3. ASSUME NEW c \in Conns, Accept(c) PROVE PoolTypeOK'
  BY <1>3 DEF Accept, Pending
<1>4. CASE SubmitAccepted
  BY <1>4 DEF SubmitAccepted, Pool!Accept
<1>5. CASE SubmitRefused
  BY <1>5 DEF SubmitRefused, Pool!Refuse, Deliver
<1>6. CASE CloseListener
  BY <1>6 DEF CloseListener, Pool!Close
<1>7. CASE Drained
  <2>1. CASE Pool!EndClean
    BY <1>7, <2>1 DEF Drained, Pool!EndClean
  <2>2. CASE Pool!EndCut
    <3>1. \A c \in Conns : status'[c] \in JobStates
      BY <2>2 DEF Pool!EndCut
    <3>2. status' \in [Conns -> JobStates]
      BY <2>2, <3>1 DEF Pool!EndCut
    <3> QED
      BY <2>2, <3>2 DEF Pool!EndCut
  <2> QED
    BY <1>7, <2>1, <2>2 DEF Drained
<1>8. CASE StartJob
  BY <1>8 DEF StartJob, Pool!Start
<1>9. ASSUME NEW c \in Conns, Handle(c) PROVE PoolTypeOK'
  <2>1. CASE ReadRequest(c)
    BY <2>1 DEF ReadRequest
  <2>2. CASE Dispatch(c)
    BY <2>2 DEF Dispatch
  <2>3. CASE WriteResponse(c)
    BY <2>3 DEF WriteResponse, Deliver
  <2>4. CASE CloseClient(c)
    BY <2>4 DEF CloseClient, Pool!Finish
  <2> QED
    BY <1>9, <2>1, <2>2, <2>3, <2>4 DEF Handle
<1>10. ASSUME NEW c \in Conns, Connect(c) \/ HangUp(c) PROVE PoolTypeOK'
  BY <1>10 DEF Connect, HangUp
<1>11. CASE Gone
  BY <1>11 DEF Gone, vars
<1> QED
  BY <1>1, <1>2, <1>3, <1>4, <1>5, <1>6, <1>7, <1>8, <1>9, <1>10, <1>11
     DEF Next, ServerRun

\* A connection is queued once, behind the others, and leaves from the front.
LEMMA QueueStep ==
  ASSUME TypeOK, PoolTypeOK, QueueInv, HandlerInv, Next
  PROVE  QueueInv'
<1> USE ServerAssumption DEF TypeOK, PoolTypeOK, QueueInv,
        HandlerInv,
        mainVars, clientVars, handlerVars, poolVars, signalVars
<1>1. CASE ClearFlag \/ Boot \/ BootFails \/ TestFlag \/ Sleep
           \/ AcceptFails
  BY <1>1 DEF ClearFlag, Boot, BootFails, TestFlag, Sleep, AcceptFails
<1>2. CASE StopEngine \/ Signal
  BY <1>2 DEF StopEngine, Signal
<1>3. ASSUME NEW c \in Conns, Accept(c) PROVE QueueInv'
  BY <1>3 DEF Accept, Pending
<1>4. CASE SubmitAccepted
  BY <1>4 DEF SubmitAccepted, Pool!Accept
<1>5. CASE SubmitRefused
  BY <1>5 DEF SubmitRefused, Pool!Refuse, Deliver
<1>6. CASE CloseListener
  BY <1>6 DEF CloseListener, Pool!Close
<1>7. CASE Drained
  BY <1>7 DEF Drained, Pool!EndClean, Pool!EndCut, Pool!InStatus
<1>8. CASE StartJob
  BY <1>8 DEF StartJob, Pool!Start
<1>9. ASSUME NEW c \in Conns, Handle(c) PROVE QueueInv'
  <2>1. CASE ReadRequest(c)
    BY <2>1 DEF ReadRequest
  <2>2. CASE Dispatch(c)
    BY <2>2 DEF Dispatch
  <2>3. CASE WriteResponse(c)
    BY <2>3 DEF WriteResponse, Deliver
  <2>4. CASE CloseClient(c)
    BY <2>4 DEF CloseClient, Pool!Finish
  <2> QED
    BY <1>9, <2>1, <2>2, <2>3, <2>4 DEF Handle
<1>10. ASSUME NEW c \in Conns, Connect(c) \/ HangUp(c) PROVE QueueInv'
  BY <1>10 DEF Connect, HangUp
<1>11. CASE Gone
  BY <1>11 DEF Gone, vars
<1> QED
  BY <1>1, <1>2, <1>3, <1>4, <1>5, <1>6, <1>7, <1>8, <1>9, <1>10, <1>11
     DEF Next, ServerRun

\* A handler belongs to a running job and answers before it closes.
LEMMA HandlerStep ==
  ASSUME TypeOK, PoolTypeOK, QueueInv, HandlerInv, Next
  PROVE  HandlerInv'
<1> USE ServerAssumption DEF TypeOK, PoolTypeOK, QueueInv,
        HandlerInv,
        mainVars, clientVars, handlerVars, poolVars, signalVars
<1>1. CASE ClearFlag \/ Boot \/ BootFails \/ TestFlag \/ Sleep
           \/ AcceptFails
  BY <1>1 DEF ClearFlag, Boot, BootFails, TestFlag, Sleep, AcceptFails
<1>2. CASE StopEngine \/ Signal
  BY <1>2 DEF StopEngine, Signal
<1>3. ASSUME NEW c \in Conns, Accept(c) PROVE HandlerInv'
  BY <1>3 DEF Accept, Pending
<1>4. CASE SubmitAccepted
  BY <1>4 DEF SubmitAccepted, Pool!Accept
<1>5. CASE SubmitRefused
  BY <1>5 DEF SubmitRefused, Pool!Refuse, Deliver
<1>6. CASE CloseListener
  BY <1>6 DEF CloseListener, Pool!Close
<1>7. CASE Drained
  BY <1>7 DEF Drained, Pool!EndClean, Pool!EndCut, Pool!InStatus
<1>8. CASE StartJob
  BY <1>8 DEF StartJob, Pool!Start
<1>9. ASSUME NEW c \in Conns, Handle(c) PROVE HandlerInv'
  <2>1. CASE ReadRequest(c)
    BY <2>1 DEF ReadRequest
  <2>2. CASE Dispatch(c)
    BY <2>2 DEF Dispatch
  <2>3. CASE WriteResponse(c)
    BY <2>3 DEF WriteResponse, Deliver
  <2>4. CASE CloseClient(c)
    BY <2>4 DEF CloseClient, Pool!Finish
  <2> QED
    BY <1>9, <2>1, <2>2, <2>3, <2>4 DEF Handle
<1>10. ASSUME NEW c \in Conns, Connect(c) \/ HangUp(c) PROVE HandlerInv'
  BY <1>10 DEF Connect, HangUp
<1>11. CASE Gone
  BY <1>11 DEF Gone, vars
<1> QED
  BY <1>1, <1>2, <1>3, <1>4, <1>5, <1>6, <1>7, <1>8, <1>9, <1>10, <1>11
     DEF Next, ServerRun

\* Main thread, queue and handlers pass the descriptor on, and the last owner
\* closes it.
LEMMA SocketStep ==
  ASSUME TypeOK, PoolTypeOK, QueueInv, HandlerInv, SocketInv, Next
  PROVE  SocketInv'
<1> USE ServerAssumption DEF TypeOK, PoolTypeOK, QueueInv,
        HandlerInv, SocketInv,
        mainVars, clientVars, handlerVars, poolVars, signalVars
<1>1. CASE ClearFlag \/ Boot \/ BootFails \/ TestFlag \/ Sleep
           \/ AcceptFails
  BY <1>1 DEF ClearFlag, Boot, BootFails, TestFlag, Sleep, AcceptFails
<1>2. CASE StopEngine \/ Signal
  BY <1>2 DEF StopEngine, Signal
<1>3. ASSUME NEW c \in Conns, Accept(c) PROVE SocketInv'
  <2>1. /\ client_fd = NoConn /\ c # NoConn /\ client_fd' = c
        /\ socket[c] = "pending" /\ socket' = [socket EXCEPT ![c] = "open"]
        /\ status' = status /\ answer' = answer /\ peer' = peer
    BY <1>3 DEF Accept, Pending
  <2>2. status[c] = "new"
    BY <2>1 DEF JobStates
  <2> QED
    BY <2>1, <2>2
<1>4. CASE SubmitAccepted
  BY <1>4 DEF SubmitAccepted, Pool!Accept
<1>5. CASE SubmitRefused
  BY <1>5 DEF SubmitRefused, Pool!Refuse, Deliver
<1>6. CASE CloseListener
  BY <1>6 DEF CloseListener, Pool!Close
<1>7. CASE Drained
  BY <1>7 DEF Drained, Pool!EndClean, Pool!EndCut, Pool!InStatus
<1>8. CASE StartJob
  BY <1>8 DEF StartJob, Pool!Start
<1>9. ASSUME NEW c \in Conns, Handle(c) PROVE SocketInv'
  <2>1. CASE ReadRequest(c)
    BY <2>1 DEF ReadRequest
  <2>2. CASE Dispatch(c)
    BY <2>2 DEF Dispatch
  <2>3. CASE WriteResponse(c)
    BY <2>3 DEF WriteResponse, Deliver
  <2>4. CASE CloseClient(c)
    BY <2>4 DEF CloseClient, Pool!Finish
  <2> QED
    BY <1>9, <2>1, <2>2, <2>3, <2>4 DEF Handle
<1>10. ASSUME NEW c \in Conns, Connect(c) \/ HangUp(c) PROVE SocketInv'
  BY <1>10 DEF Connect, HangUp
<1>11. CASE Gone
  BY <1>11 DEF Gone, vars
<1> QED
  BY <1>1, <1>2, <1>3, <1>4, <1>5, <1>6, <1>7, <1>8, <1>9, <1>10, <1>11
     DEF Next, ServerRun

\* The engine is stopped after the pool has ended and not before.
LEMMA EngineStep ==
  ASSUME TypeOK, PoolTypeOK, QueueInv, HandlerInv, EngineInv, Next
  PROVE  EngineInv'
<1> USE ServerAssumption DEF TypeOK, PoolTypeOK, QueueInv,
        HandlerInv, EngineInv, Serving, Live, Ended,
        mainVars, clientVars, handlerVars, poolVars, signalVars
<1>1. CASE ClearFlag \/ Boot \/ BootFails \/ TestFlag \/ Sleep
           \/ AcceptFails
  BY <1>1 DEF ClearFlag, Boot, BootFails, TestFlag, Sleep, AcceptFails
<1>2. CASE StopEngine \/ Signal
  BY <1>2 DEF StopEngine, Signal
<1>3. ASSUME NEW c \in Conns, Accept(c) PROVE EngineInv'
  BY <1>3 DEF Accept, Pending
<1>4. CASE SubmitAccepted
  BY <1>4 DEF SubmitAccepted, Pool!Accept
<1>5. CASE SubmitRefused
  BY <1>5 DEF SubmitRefused, Pool!Refuse, Deliver
<1>6. CASE CloseListener
  BY <1>6 DEF CloseListener, Pool!Close
<1>7. CASE Drained
  BY <1>7 DEF Drained, Pool!EndClean, Pool!EndCut, Pool!InStatus
<1>8. CASE StartJob
  BY <1>8 DEF StartJob, Pool!Start
<1>9. ASSUME NEW c \in Conns, Handle(c) PROVE EngineInv'
  <2>1. CASE ReadRequest(c)
    BY <2>1 DEF ReadRequest
  <2>2. CASE Dispatch(c)
    BY <2>2 DEF Dispatch
  <2>3. CASE WriteResponse(c)
    BY <2>3 DEF WriteResponse, Deliver
  <2>4. CASE CloseClient(c)
    BY <2>4 DEF CloseClient, Pool!Finish
  <2> QED
    BY <1>9, <2>1, <2>2, <2>3, <2>4 DEF Handle
<1>10. ASSUME NEW c \in Conns, Connect(c) \/ HangUp(c) PROVE EngineInv'
  BY <1>10 DEF Connect, HangUp
<1>11. CASE Gone
  BY <1>11 DEF Gone, vars
<1> QED
  BY <1>1, <1>2, <1>3, <1>4, <1>5, <1>6, <1>7, <1>8, <1>9, <1>10, <1>11
     DEF Next, ServerRun

\* Every step, and the stuttering step, keeps the whole invariant.
LEMMA ServerInvStep ==
  ASSUME ServerInv, [Next]_vars
  PROVE  ServerInv'
<1>1. CASE Next
  BY <1>1, TypeStep, PoolTypeStep, QueueStep, HandlerStep, SocketStep,
     EngineStep DEF ServerInv
<1>2. CASE UNCHANGED vars
  BY <1>2 DEF vars, mainVars, clientVars, handlerVars, poolVars, signalVars,
              ServerInv, TypeOK, PoolTypeOK, QueueInv, HandlerInv, SocketInv,
              EngineInv
<1> QED
  BY <1>1, <1>2

\* The invariant holds in every reachable state.
LEMMA ServerInvHolds == Spec => []ServerInv
<1>1. Init => ServerInv
  BY ServerInvInit
<1>2. ServerInv /\ [Next]_vars => ServerInv'
  BY ServerInvStep
<1> QED
  BY <1>1, <1>2, PTL DEF Spec

-----------------------------------------------------------------------------
(* The theorems                                                            *)

\* Every accepted descriptor is held by the main thread, the queue or one
\* handler until it is closed, unless a drain that timed out dropped it, and
\* a client that waits gets its answer before server.c closes the socket.
THEOREM DescriptorsOwned == Spec => []FdOwned
<1>1. ServerInv => FdOwned
  BY DEF ServerInv, FdOwned, SocketInv, TypeOK, PoolTypeOK, JobStates
<1> QED
  BY <1>1, ServerInvHolds, PTL

\* No statement of handle_client runs before engine_init or after
\* engine_shutdown, also when threadpool_shutdown_graceful has timed out.
THEOREM EngineUpForJobs == Spec => []EngineOutlivesJobs
<1>1. ServerInv => EngineOutlivesJobs
  BY DEF ServerInv, EngineOutlivesJobs, HandlerInv, EngineInv, TypeOK
<1> QED
  BY <1>1, ServerInvHolds, PTL

=============================================================================
