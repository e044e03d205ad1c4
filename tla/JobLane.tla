---- MODULE JobLane ----
(***************************************************************************)
(* What the IO lane promises whoever hands it a closure: an accepted job   *)
(* is started once, in the order of acceptance, and finishes once; a       *)
(* refused one never runs; the lane is reported quiet only once it is      *)
(* closed and every accepted job has finished.  IoExecutor implements      *)
(* this specification.                                                     *)
(***************************************************************************)
EXTENDS Sequences

CONSTANTS Jobs

VARIABLES
    fate,        \* what became of each job
    backlog,     \* accepted jobs not started, oldest first
    closed,      \* no further job is accepted
    quiet        \* the lane was reported quiet

vars == <<fate, backlog, closed, quiet>>

Init ==
    /\ fate = [j \in Jobs |-> "new"]
    /\ backlog = <<>>
    /\ closed = FALSE
    /\ quiet = FALSE

Accept(j) ==
    /\ fate[j] = "new" /\ ~closed
    /\ fate' = [fate EXCEPT ![j] = "queued"]
    /\ backlog' = Append(backlog, j)
    /\ UNCHANGED <<closed, quiet>>

Refuse(j) ==
    /\ fate[j] = "new" /\ closed
    /\ fate' = [fate EXCEPT ![j] = "refused"]
    /\ UNCHANGED <<backlog, closed, quiet>>

Start ==
    /\ backlog # <<>>
    /\ fate' = [fate EXCEPT ![Head(backlog)] = "running"]
    /\ backlog' = Tail(backlog)
    /\ UNCHANGED <<closed, quiet>>

Finish(j) ==
    /\ fate[j] = "running"
    /\ \E f \in {"done", "threw"} : fate' = [fate EXCEPT ![j] = f]
    /\ UNCHANGED <<backlog, closed, quiet>>

Close ==
    /\ closed' = TRUE
    /\ UNCHANGED <<fate, backlog, quiet>>

ReportQuiet ==
    /\ closed
    /\ \A j \in Jobs : fate[j] \notin {"queued", "running"}
    /\ quiet' = TRUE
    /\ UNCHANGED <<fate, backlog, closed>>

Next ==
    \/ \E j \in Jobs : Accept(j) \/ Refuse(j) \/ Finish(j)
    \/ Start \/ Close \/ ReportQuiet

Spec == Init /\ [][Next]_vars
====
