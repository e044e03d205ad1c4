---- MODULE BlockingVerb ----
(***************************************************************************)
(* What a blocking verb of the editor control promises its callers: one    *)
(* call at a time is run by the engine, a call returns "answered" only     *)
(* with the value the engine computed for that very call, and closing the  *)
(* channel releases every call the engine has not begun -- but never one   *)
(* it is running.  RequestChannel implements this specification.           *)
(***************************************************************************)
CONSTANTS
    Callers,     \* owner threads that may call the verb
    Results      \* values the engine may compute

VARIABLES
    call,        \* what each caller's current call is doing
    outcome,     \* what each caller's last call returned
    closed       \* the channel was abandoned

vars == <<call, outcome, closed>>

Answer(r)   == [kind |-> "answer", value |-> r]
NotServiced == [kind |-> "not_serviced"]
Answers     == {Answer(r) : r \in Results}
Phase(p)    == [kind |-> p]

Init ==
    /\ call = [c \in Callers |-> Phase("idle")]
    /\ outcome = [c \in Callers |-> NotServiced]
    /\ closed = FALSE

Invoke(c) ==
    /\ call[c] = Phase("idle")
    /\ call' = [call EXCEPT ![c] = Phase("waiting")]
    /\ UNCHANGED <<outcome, closed>>

Begin(c) ==
    /\ call[c] = Phase("waiting")
    /\ \A d \in Callers : call[d].kind \in {"idle", "waiting"}
    /\ call' = [call EXCEPT ![c] = Phase("running")]
    /\ UNCHANGED <<outcome, closed>>

\* The engine is done with c's call: a is an answer, or Phase("failed").
FinishWith(c, a) ==
    /\ call[c] = Phase("running")
    /\ call' = [call EXCEPT ![c] = a]
    /\ UNCHANGED <<outcome, closed>>

Finish(c) == \E a \in Answers \cup {Phase("failed")} : FinishWith(c, a)

\* The call is over: answered, failed, or never begun and the channel closed.
Release(c) ==
    /\ \/ call[c].kind \in {"answer", "failed"}
       \/ call[c] = Phase("waiting") /\ closed
    /\ call' = [call EXCEPT ![c] = Phase("idle")]
    /\ UNCHANGED closed

Return(c) ==
    /\ Release(c)
    /\ outcome' = [outcome EXCEPT ![c] =
                     IF call[c].kind = "answer" THEN call[c] ELSE NotServiced]

Close ==
    /\ closed' = TRUE
    /\ UNCHANGED <<call, outcome>>

Next ==
    \/ \E c \in Callers : Invoke(c) \/ Begin(c) \/ Finish(c) \/ Return(c)
    \/ Close

Spec == Init /\ [][Next]_vars
====
