------------------------------- MODULE Server -------------------------------
(***************************************************************************)
(* The daemon: main.c and server.c around the pool, and handle_client with *)
(* the socket reads and writes of protocol.c.  The pool is taken as module *)
(* JobService, which ThreadPool implements; a job is a connection.  What a *)
(* request does inside router and engine is in DictService and Engine.     *)
(*                                                                         *)
(* A signal interrupts the main thread, as Linux delivers it.  A signal    *)
(* between the test of the flag and the sleep in accept interrupts         *)
(* nothing, so the two are separate steps.                                 *)
(***************************************************************************)
EXTENDS Integers, Sequences

CONSTANTS
    Conns,          \* connections clients make, each once
    NoConn,
    MaxSignals      \* bound: SIGINT and SIGTERM received

ASSUME ServerAssumption == NoConn \notin Conns /\ MaxSignals \in Nat

VARIABLES
    main,           \* where the main thread is
    flag,           \* s_shutdown_flag
    engine,         \* "up" between engine_init and engine_shutdown
    listening,      \* listen_fd is open
    client_fd,      \* the connection between accept and submit
    socket,         \* of a connection: none, pending, open, closed
    peer,           \* FALSE once the client has hung up
    step,           \* where handle_client is
    resp,           \* what it is going to write
    answer,         \* what the client received
    status,         \* the pool, as JobService has it
    backlog,
    phase,
    signals,        \* signals so far
    missed          \* history: one came just before accept

mainVars == <<main, flag, engine, listening, client_fd>>
clientVars == <<socket, peer, answer>>
handlerVars == <<step, resp>>
poolVars == <<status, backlog, phase>>
signalVars == <<signals, missed>>
vars == <<mainVars, clientVars, handlerVars, poolVars, signalVars>>

Pool == INSTANCE JobService WITH Jobs <- Conns

Pending == {c \in Conns : socket[c] = "pending"}

\* main has installed the handlers and calls server_run.
Init ==
    /\ main = "start" /\ flag = FALSE /\ engine = "down"
    /\ listening = FALSE /\ client_fd = NoConn
    /\ socket = [c \in Conns |-> "none"]
    /\ peer = [c \in Conns |-> TRUE]
    /\ answer = [c \in Conns |-> "none"]
    /\ step = [c \in Conns |-> "none"]
    /\ resp = [c \in Conns |-> "none"]
    /\ Pool!Init
    /\ signals = 0 /\ missed = FALSE

\* http_write_response and write: nothing arrives at a client that is gone,
\* and SIGPIPE is ignored.
Deliver(c, r) ==
    answer' = IF peer[c] THEN [answer EXCEPT ![c] = r] ELSE answer

-----------------------------------------------------------------------------
(* server_run                                                              *)

\* The flag is cleared first, with a signal that came earlier.
ClearFlag ==
    /\ main = "start"
    /\ flag' = FALSE
    /\ main' = "boot"
    /\ UNCHANGED <<engine, listening, client_fd, clientVars, handlerVars,
                   poolVars, signalVars>>

Boot ==
    /\ main = "boot"
    /\ engine' = "up" /\ listening' = TRUE
    /\ main' = "loop"
    /\ UNCHANGED <<flag, client_fd, clientVars, handlerVars, poolVars, signalVars>>

\* Engine, pool or socket could not be had: what was started is stopped.
BootFails ==
    /\ main = "boot"
    /\ main' = "failed"
    /\ UNCHANGED <<flag, engine, listening, client_fd, clientVars, handlerVars,
                   poolVars, signalVars>>

TestFlag ==
    /\ main = "loop"
    /\ main' = IF flag THEN "leave" ELSE "accept"
    /\ UNCHANGED <<flag, engine, listening, client_fd, clientVars, handlerVars,
                   poolVars, signalVars>>

Sleep ==
    /\ main = "accept" /\ Pending = {}
    /\ main' = "asleep"
    /\ UNCHANGED <<flag, engine, listening, client_fd, clientVars, handlerVars,
                   poolVars, signalVars>>

Accept(c) ==
    /\ main \in {"accept", "asleep"}
    /\ c \in Pending
    /\ socket' = [socket EXCEPT ![c] = "open"]
    /\ client_fd' = c
    /\ main' = "submit"
    /\ UNCHANGED <<flag, engine, listening, peer, answer, handlerVars, poolVars,
                   signalVars>>

\* Any error but EINTR.
AcceptFails ==
    /\ main \in {"accept", "asleep"}
    /\ main' = IF flag THEN "leave" ELSE "loop"
    /\ UNCHANGED <<flag, engine, listening, client_fd, clientVars, handlerVars,
                   poolVars, signalVars>>

\* Mutant: the main thread keeps the descriptor.
SubmitAcceptedKept ==
    /\ main = "submit"
    /\ Pool!Accept(client_fd)
    /\ main' = "loop"
    /\ UNCHANGED <<flag, engine, listening, client_fd, clientVars, handlerVars,
                   signalVars>>

SubmitAccepted ==
    /\ main = "submit"
    /\ Pool!Accept(client_fd)
    /\ client_fd' = NoConn
    /\ main' = "loop"
    /\ UNCHANGED <<flag, engine, listening, clientVars, handlerVars, signalVars>>

\* Mutant: the refused connection is answered and left open.
SubmitRefusedOpen ==
    /\ main = "submit"
    /\ Pool!Refuse(client_fd)
    /\ Deliver(client_fd, "queue_full")
    /\ client_fd' = NoConn
    /\ main' = "loop"
    /\ UNCHANGED <<flag, engine, listening, socket, peer, handlerVars, signalVars>>

\* 503 and close, by the main thread itself.
SubmitRefused ==
    /\ main = "submit"
    /\ Pool!Refuse(client_fd)
    /\ Deliver(client_fd, "queue_full")
    /\ socket' = [socket EXCEPT ![client_fd] = "closed"]
    /\ client_fd' = NoConn
    /\ main' = "loop"
    /\ UNCHANGED <<flag, engine, listening, peer, handlerVars, signalVars>>

\* Mutant: the engine goes first.
CloseListenerAndEngine ==
    /\ main = "leave"
    /\ listening' = FALSE
    /\ engine' = "down"
    /\ Pool!Close
    /\ main' = "drain"
    /\ UNCHANGED <<flag, client_fd, clientVars, handlerVars, signalVars>>

\* close(listen_fd), then the pool takes no more jobs.  Connections still
\* pending are reset by the system.
CloseListener ==
    /\ main = "leave"
    /\ listening' = FALSE
    /\ Pool!Close
    /\ main' = "drain"
    /\ UNCHANGED <<flag, engine, client_fd, clientVars, handlerVars, signalVars>>

\* threadpool_shutdown_graceful returns, with or without a timeout.
Drained ==
    /\ main = "drain"
    /\ Pool!EndClean \/ Pool!EndCut
    /\ main' = "drained"
    /\ UNCHANGED <<flag, engine, listening, client_fd, clientVars, handlerVars,
                   signalVars>>

StopEngine ==
    /\ main = "drained"
    /\ engine' = "down"
    /\ main' = "returned"
    /\ UNCHANGED <<flag, listening, client_fd, clientVars, handlerVars, poolVars,
                   signalVars>>

-----------------------------------------------------------------------------
(* handle_client, in a worker of the pool                                  *)

StartJob ==
    /\ Pool!Start
    /\ step' = [step EXCEPT ![Head(backlog)] = "read"]
    /\ UNCHANGED <<mainVars, clientVars, resp, signalVars>>

\* http_parse_request: complete and well formed, or not; a client that has
\* hung up may have sent everything before.
ReadRequest(c) ==
    /\ step[c] = "read"
    /\ \/ step' = [step EXCEPT ![c] = "dispatch"] /\ UNCHANGED resp
       \/ /\ step' = [step EXCEPT ![c] = "write"]
          /\ resp' = [resp EXCEPT ![c] = "bad_request"]
    /\ UNCHANGED <<mainVars, clientVars, poolVars, signalVars>>

\* router_dispatch
Dispatch(c) ==
    /\ step[c] = "dispatch"
    /\ \E r \in {"ok", "internal_error"} : resp' = [resp EXCEPT ![c] = r]
    /\ step' = [step EXCEPT ![c] = "write"]
    /\ UNCHANGED <<mainVars, clientVars, poolVars, signalVars>>

\* Mutant: a request that does not parse gets no answer.
WriteUnlessBad(c) ==
    /\ step[c] = "write"
    /\ IF resp[c] = "bad_request" THEN UNCHANGED answer ELSE Deliver(c, resp[c])
    /\ step' = [step EXCEPT ![c] = "close"]
    /\ UNCHANGED <<mainVars, socket, peer, resp, poolVars, signalVars>>

WriteResponse(c) ==
    /\ step[c] = "write"
    /\ Deliver(c, resp[c])
    /\ step' = [step EXCEPT ![c] = "close"]
    /\ UNCHANGED <<mainVars, socket, peer, resp, poolVars, signalVars>>

\* close(fd) and the return to the worker.
CloseClient(c) ==
    /\ step[c] = "close"
    /\ socket' = [socket EXCEPT ![c] = "closed"]
    /\ step' = [step EXCEPT ![c] = "none"]
    /\ Pool!Finish(c)
    /\ UNCHANGED <<mainVars, peer, answer, resp, signalVars>>

Handle(c) == ReadRequest(c) \/ Dispatch(c) \/ WriteResponse(c) \/ CloseClient(c)

-----------------------------------------------------------------------------
(* Clients and signals                                                     *)

\* Mutant: with SA_RESTART accept goes on sleeping.
SignalRestarts ==
    /\ signals < MaxSignals
    /\ main \notin {"returned", "failed"}
    /\ flag' = TRUE
    /\ signals' = signals + 1
    /\ missed' = (missed \/ main = "accept")
    /\ UNCHANGED <<main, engine, listening, client_fd, clientVars, handlerVars,
                   poolVars>>

\* on_sigint; accept returns with EINTR, and the loop goes on.
Signal ==
    /\ signals < MaxSignals
    /\ main \notin {"returned", "failed"}
    /\ flag' = TRUE
    /\ main' = IF main = "asleep" THEN "loop" ELSE main
    /\ signals' = signals + 1
    /\ missed' = (missed \/ main = "accept")
    /\ UNCHANGED <<engine, listening, client_fd, clientVars, handlerVars, poolVars>>

Connect(c) ==
    /\ listening /\ socket[c] = "none"
    /\ socket' = [socket EXCEPT ![c] = "pending"]
    /\ UNCHANGED <<mainVars, peer, answer, handlerVars, poolVars, signalVars>>

HangUp(c) ==
    /\ socket[c] \in {"pending", "open"} /\ peer[c]
    /\ peer' = [peer EXCEPT ![c] = FALSE]
    /\ UNCHANGED <<mainVars, socket, answer, handlerVars, poolVars, signalVars>>

ServerRun ==
    \/ ClearFlag \/ Boot \/ TestFlag \/ Sleep
    \/ (\E c \in Conns : Accept(c))
    \/ SubmitAccepted \/ SubmitRefused
    \/ CloseListener \/ Drained \/ StopEngine

\* The process has ended.
Gone == main \in {"returned", "failed"} /\ UNCHANGED vars

Next ==
    \/ ServerRun \/ BootFails \/ AcceptFails
    \/ StartJob
    \/ \E c \in Conns : Handle(c) \/ Connect(c) \/ HangUp(c)
    \/ Signal
    \/ Gone

Spec == Init /\ [][Next]_vars

\* The main thread and the workers keep running, and reads end.  Nobody has
\* to connect, to hang up or to send a signal.
FairSpec ==
    /\ Spec
    /\ WF_vars(ServerRun)
    /\ WF_vars(StartJob)
    /\ \A c \in Conns : WF_vars(Handle(c))

-----------------------------------------------------------------------------
(* Correctness                                                             *)

TypeOK ==
    /\ main \in {"start", "boot", "loop", "accept", "asleep", "submit", "leave",
                 "drain", "drained", "returned", "failed"}
    /\ flag \in BOOLEAN /\ listening \in BOOLEAN /\ missed \in BOOLEAN
    /\ engine \in {"up", "down"}
    /\ client_fd \in Conns \cup {NoConn}
    /\ main = "submit" <=> client_fd # NoConn
    /\ socket \in [Conns -> {"none", "pending", "open", "closed"}]
    /\ peer \in [Conns -> BOOLEAN]
    /\ step \in [Conns -> {"none", "read", "dispatch", "write", "close"}]
    /\ resp \in [Conns -> {"none", "ok", "bad_request", "internal_error"}]
    /\ answer \in [Conns -> {"none", "ok", "bad_request", "internal_error",
                             "queue_full"}]
    /\ signals \in 0 .. MaxSignals

\* handle_client runs its statements in an engine that is up, also when the
\* drain of the pool has timed out.
EngineOutlivesJobs == \A c \in Conns : step[c] = "dispatch" => engine = "up"

\* An accepted socket has one owner, who will close it: the main thread, which
\* holds one exactly while it submits (TypeOK), the queue or a handler.  Only
\* jobs that a timed-out drain dropped have none.  Nobody who waits for an
\* answer sees the connection closed without one: main thread and handlers
\* answer before they close, also a refusal and a request that does not parse.
FdOwned ==
    /\ TypeOK
    /\ \A c \in Conns :
           /\ (socket[c] = "open" /\ status[c] # "dropped")
                  <=> (c = client_fd \/ status[c] \in {"queued", "running"})
           /\ socket[c] = "closed" => answer[c] # "none" \/ ~peer[c]

\* A signal that accept can see ends server_run, and any signal does with
\* the next connection.
StopsOnSignal ==
    (flag /\ main # "start" /\ (missed => Pending # {}))
        ~> main \in {"returned", "failed"}

=============================================================================
