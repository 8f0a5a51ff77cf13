------------------------------ MODULE JobService ------------------------------
(***************************************************************************)
(* What src/include/threadpool.h promises to a caller, without threads: a  *)
(* job handed over is refused or accepted; accepted jobs start in the      *)
(* order of their acceptance and run once; once the service is closed      *)
(* nothing more is accepted; it ends only when no job is running, and if   *)
(* it ends clean (graceful shutdown returned 0) no accepted job was lost.  *)
(***************************************************************************)
EXTENDS Sequences

CONSTANT Jobs

VARIABLES
    status,     \* what became of each job
    backlog,    \* accepted jobs not yet started, oldest first
    phase       \* "open", "closed", then how it ended: "clean" or "cut"

vars == <<status, backlog, phase>>

InStatus(st) == {j \in Jobs : status[j] = st}

Init ==
    /\ status = [j \in Jobs |-> "new"]
    /\ backlog = <<>>
    /\ phase = "open"

Refuse(j) ==
    /\ status[j] = "new"
    /\ phase \in {"open", "closed"}
    /\ status' = [status EXCEPT ![j] = "refused"]
    /\ UNCHANGED <<backlog, phase>>

Accept(j) ==
    /\ status[j] = "new"
    /\ phase = "open"
    /\ status' = [status EXCEPT ![j] = "queued"]
    /\ backlog' = Append(backlog, j)
    /\ UNCHANGED phase

Start ==
    /\ backlog # <<>>
    /\ phase \in {"open", "closed"}
    /\ status' = [status EXCEPT ![Head(backlog)] = "running"]
    /\ backlog' = Tail(backlog)
    /\ UNCHANGED phase

Finish(j) ==
    /\ status[j] = "running"
    /\ status' = [status EXCEPT ![j] = "done"]
    /\ UNCHANGED <<backlog, phase>>

Close ==
    /\ phase = "open"
    /\ phase' = "closed"
    /\ UNCHANGED <<status, backlog>>

EndClean ==
    /\ phase = "closed"
    /\ InStatus("queued") = {} /\ InStatus("running") = {}
    /\ phase' = "clean"
    /\ UNCHANGED <<status, backlog>>

\* Hard shutdown or an expired drain: what is queued is dropped.
EndCut ==
    /\ phase = "closed"
    /\ InStatus("running") = {}
    /\ phase' = "cut"
    /\ status' = [j \in Jobs |-> IF status[j] = "queued" THEN "dropped"
                                                         ELSE status[j]]
    /\ backlog' = <<>>

Next ==
    \/ \E j \in Jobs : Refuse(j) \/ Accept(j) \/ Finish(j)
    \/ Start \/ Close \/ EndClean \/ EndCut

Spec == Init /\ [][Next]_vars

=============================================================================
