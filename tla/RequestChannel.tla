---- MODULE RequestChannel ----
(***************************************************************************)
(* Request<Args,R> of window_engine/engine/app/runtime_channel.h: the      *)
(* blocking request/response primitive between owner threads and the       *)
(* engine thread.  A critical section of mutex_ is one action; cv_ is the  *)
(* set of callers asleep on it; the notify_all that follows an unlock is a *)
(* step of its own, so a wake-up can come late.                            *)
(*                                                                         *)
(* A servicer is a thread that may finish a claimed request: the engine    *)
(* thread alone for service(), also the IO lane's threads for              *)
(* claim()/publish().  Which of the two a channel uses is deferred.        *)
(***************************************************************************)
CONSTANTS
    Callers,     \* owner threads that may be inside call()
    Servicers,   \* threads that may complete a claimed request
    Results,     \* values a servicer may publish
    NoCaller,    \* "nobody"
    NoResult,    \* result_ before its first assignment
    Engine       \* the engine thread

ASSUME CallersAssumption == NoCaller \notin Callers
ASSUME ResultAssumption == \A c \in Callers, r \in Results : NoResult # <<c, r>>
ASSUME EngineAssumption == Engine \in Servicers

VARIABLES
    deferred,    \* TRUE: claim()/publish(); FALSE: service(); fixed
    state,       \* state_
    abandoned,   \* abandoned_
    args,        \* whose payload args_ holds
    result,      \* result_, tagged with the caller it was computed for
    pc,          \* where each caller is inside call_inout()
    asleep,      \* callers asleep on cv_
    sv,          \* what each servicer is doing
    serving,     \* the caller whose request is claimed
    teardown,    \* the thread that calls abandon()
    outcome      \* what each caller's last call returned

channel == <<state, abandoned, args, result, deferred>>
vars == <<channel, pc, asleep, sv, serving, teardown, outcome>>

States == {"Idle", "Requested", "InFlight", "Published", "Failed"}

Serviced(r) == [kind |-> "answer", value |-> r]
NotServiced == [kind |-> "not_serviced"]

Init ==
    /\ deferred \in BOOLEAN
    /\ state = "Idle" /\ abandoned = FALSE
    /\ args = NoCaller /\ result = NoResult
    /\ pc = [c \in Callers |-> "idle"]
    /\ asleep = {}
    /\ sv = [t \in Servicers |-> "idle"]
    /\ serving = NoCaller
    /\ teardown = "running"
    /\ outcome = [c \in Callers |-> NotServiced]

-----------------------------------------------------------------------------
(* The two predicates call_inout() waits on.                               *)

GateOpen == state = "Idle" \/ abandoned

\* Variant: abandon() wakes a caller whose request is being serviced.
SettledInFlight == state \in {"Published", "Failed"} \/ abandoned

Settled == state \in {"Published", "Failed"} \/ (abandoned /\ state = "Requested")

MayRun(c) ==
    \/ pc[c] = "gate" /\ GateOpen
    \/ pc[c] = "posted" /\ Settled

\* The verb is entered; the caller is about to take the lock.
Call(c) ==
    /\ pc[c] = "idle"
    /\ pc' = [pc EXCEPT ![c] = "gate"]
    /\ UNCHANGED <<channel, asleep, sv, serving, teardown, outcome>>

\* cv_.wait finds its predicate false and blocks.
Sleep(c) ==
    /\ pc[c] \in {"gate", "posted"} /\ c \notin asleep /\ ~MayRun(c)
    /\ asleep' = asleep \cup {c}
    /\ UNCHANGED <<channel, pc, sv, serving, teardown, outcome>>

\* Past the first wait on an abandoned channel: the call returns unserviced,
\* its payload never moved in.
Refuse(c) ==
    /\ pc[c] = "gate" /\ abandoned
    /\ pc' = [pc EXCEPT ![c] = "idle"]
    /\ outcome' = [outcome EXCEPT ![c] = NotServiced]
    /\ asleep' = asleep \ {c}
    /\ UNCHANGED <<channel, sv, serving, teardown>>

\* Past the first wait on an open channel: the payload moves in and the second
\* wait blocks at once, its predicate being false.
Post(c) ==
    /\ pc[c] = "gate" /\ GateOpen /\ ~abandoned
    /\ args' = c
    /\ state' = "Requested"
    /\ pc' = [pc EXCEPT ![c] = "posted"]
    /\ asleep' = asleep \cup {c}
    /\ UNCHANGED <<deferred, abandoned, result, sv, serving, teardown, outcome>>

\* What a leaving caller returns.
TakenOutcome(c) ==
    [outcome EXCEPT ![c] =
        IF state = "Published" THEN Serviced(result[2]) ELSE NotServiced]

\* Past the second wait: take the result if there is one, take the payload back,
\* reopen the channel and wake the callers queued at the gate, all in one hold
\* of the lock.
Take(c) ==
    /\ pc[c] = "posted" /\ Settled
    /\ outcome' = TakenOutcome(c)
    /\ args' = NoCaller
    /\ state' = "Idle"
    /\ pc' = [pc EXCEPT ![c] = "idle"]
    /\ asleep' = {}
    /\ UNCHANGED <<deferred, abandoned, result, sv, serving, teardown>>

-----------------------------------------------------------------------------
(* The servicing side.                                                     *)

\* service()'s first critical section, or claim(): Requested -> InFlight.
\* claim() also moves the payload out to the servicer.
Claim(t) ==
    /\ deferred \/ t = Engine
    /\ sv[t] = "idle"
    /\ state = "Requested"
    /\ state' = "InFlight"
    /\ serving' = args
    /\ args' = IF deferred THEN NoCaller ELSE args
    /\ sv' = [sv EXCEPT ![t] = "working"]
    /\ UNCHANGED <<deferred, abandoned, result, pc, asleep, teardown, outcome>>

\* service()'s second critical section, or publish(): a no-op on the channel
\* unless the request is still InFlight.
Publish(t, r) ==
    /\ sv[t] = "working"
    /\ IF state = "InFlight"
         THEN /\ result' = <<serving, r>>
              /\ state' = "Published"
         ELSE UNCHANGED <<result, state>>
    /\ sv' = [sv EXCEPT ![t] = "notify"]
    /\ UNCHANGED <<deferred, abandoned, args, pc, asleep, serving, teardown, outcome>>

\* service()'s catch block: fn threw. claim()/publish() has no such path.
Fail(t) ==
    /\ ~deferred
    /\ sv[t] = "working"
    /\ state' = IF state = "InFlight" THEN "Failed" ELSE state
    /\ sv' = [sv EXCEPT ![t] = "notify"]
    /\ UNCHANGED <<deferred, abandoned, args, result, pc, asleep, serving, teardown, outcome>>

\* Variant: the result is published and nobody is told.
NotifyForgotten(t) ==
    /\ sv[t] = "notify"
    /\ sv' = [sv EXCEPT ![t] = "idle"]
    /\ UNCHANGED <<channel, pc, asleep, serving, teardown, outcome>>

\* The notify_all after publish() or service() released the lock.
Notify(t) ==
    /\ sv[t] = "notify"
    /\ sv' = [sv EXCEPT ![t] = "idle"]
    /\ asleep' = {}
    /\ UNCHANGED <<channel, pc, serving, teardown, outcome>>

\* Variant: abandon() also resets the cycle.
AbandonResets ==
    /\ teardown = "running"
    /\ abandoned' = TRUE
    /\ state' = "Idle"
    /\ teardown' = "notify"
    /\ UNCHANGED <<deferred, args, result, pc, asleep, sv, serving, outcome>>

\* abandon(): the flag under the lock, then the notify.
Abandon ==
    /\ teardown = "running"
    /\ abandoned' = TRUE
    /\ teardown' = "notify"
    /\ UNCHANGED <<deferred, state, args, result, pc, asleep, sv, serving, outcome>>

\* Variant: abandon() wakes nobody.
AbandonNotifyForgotten ==
    /\ teardown = "notify"
    /\ teardown' = "done"
    /\ UNCHANGED <<channel, pc, asleep, sv, serving, outcome>>

AbandonNotify ==
    /\ teardown = "notify"
    /\ teardown' = "done"
    /\ asleep' = {}
    /\ UNCHANGED <<channel, pc, sv, serving, outcome>>

-----------------------------------------------------------------------------
CallerStep(c) == Sleep(c) \/ Refuse(c) \/ Post(c) \/ Take(c)
Complete(t)   == Fail(t) \/ (\E r \in Results : Publish(t, r))

Next ==
    \/ \E c \in Callers : Call(c) \/ CallerStep(c)
    \/ \E t \in Servicers : Claim(t) \/ Complete(t) \/ Notify(t)
    \/ Abandon \/ AbandonNotify

Spec == Init /\ [][Next]_vars

\* The scheduler runs every started thread. A sleeping caller runs only once it
\* has been notified: the spurious wake-ups Next allows are never relied on.
AwakeFairness == \A c \in Callers : WF_vars(c \notin asleep /\ CallerStep(c))

\* The servicer of a claimed request finishes and notifies; abandon() notifies.
ServicerFairness ==
    /\ \A t \in Servicers : WF_vars(Complete(t)) /\ WF_vars(Notify(t))
    /\ WF_vars(AbandonNotify)

\* Nothing obliges the engine loop to go on offering to service, nor anybody to
\* call or to abandon the channel.
FairSpec == Spec /\ AwakeFairness /\ ServicerFairness

-----------------------------------------------------------------------------
TypeOK ==
    /\ deferred \in BOOLEAN
    /\ state \in States
    /\ abandoned \in BOOLEAN
    /\ args \in Callers \cup {NoCaller}
    /\ result \in (Callers \X Results) \cup {NoResult}
    /\ pc \in [Callers -> {"idle", "gate", "posted"}]
    /\ asleep \subseteq Callers
    /\ sv \in [Servicers -> {"idle", "working", "notify"}]
    /\ serving \in Callers \cup {NoCaller}
    /\ teardown \in {"running", "notify", "done"}
    /\ outcome \in [Callers -> {NotServiced} \cup {Serviced(r) : r \in Results}]

\* While a servicer works on a claimed request its caller stays parked and the
\* request stays InFlight, abandoned or not: the payload the servicer holds by
\* reference is never reclaimed underneath it (runtime_channel.h:193-196).
PayloadHeldWhileServiced ==
    \A t \in Servicers : sv[t] = "working" =>
        /\ state = "InFlight"
        /\ serving \in Callers /\ pc[serving] = "posted"
        /\ ~deferred => args = serving

\* One cycle at a time: the caller past the gate is the only one, and the
\* channel is busy exactly while there is one (runtime_channel.h:162-165).
OneCycle ==
    /\ \A c, d \in Callers : pc[c] = "posted" /\ pc[d] = "posted" => c = d
    /\ state = "Idle" <=> \A c \in Callers : pc[c] # "posted"

\* A result waiting to be taken was computed for the caller parked on it: an
\* answer never reaches the call that follows the one it was made for.
AnswerIsForItsCaller ==
    state = "Published" => result # NoResult /\ pc[result[1]] = "posted"

\* A payload is in the channel only while its caller is parked, and an in-out
\* caller finds its own payload there when it leaves (runtime_channel.h:206).
PayloadComesBack ==
    /\ args # NoCaller => pc[args] = "posted"
    /\ ~deferred => \A c \in Callers : pc[c] = "posted" => args = c

\* No two servicers work on the channel at once, and an InFlight request always
\* has the servicer that owes it an answer.
OneServicer ==
    /\ \A t, u \in Servicers : sv[t] = "working" /\ sv[u] = "working" => t = u
    /\ state = "InFlight" => \E t \in Servicers : sv[t] = "working"

\* No wake-up is lost: a caller asleep although it may run has a notify on the
\* way -- from a servicer, from abandon(), or from the call that will leave.
NoLostWakeup ==
    \A c \in asleep : MayRun(c) =>
        \/ \E t \in Servicers : sv[t] = "notify"
        \/ teardown = "notify"

\* abandon() releases every caller: with the engine loop gone for good, each
\* call still returns once teardown has abandoned the channel -- unserviced if it
\* was not claimed, with its servicer's answer if it was (runtime_channel.h:331-341).
TeardownReleases == \A c \in Callers : (pc[c] # "idle" /\ abandoned) ~> pc[c] = "idle"

\* If the engine loop keeps offering to service, a posted request is answered and
\* its caller leaves, without abandon().
PostedIsAnswered ==
    WF_vars(\E t \in Servicers : Claim(t)) => \A c \in Callers : pc[c] = "posted" ~> pc[c] = "idle"

-----------------------------------------------------------------------------
(* The channel implements BlockingVerb.                                    *)

PostedPhase ==
    IF state = "Published" THEN Serviced(result[2])
    ELSE [kind |-> IF state = "InFlight" THEN "running"
                   ELSE IF state = "Failed" THEN "failed" ELSE "waiting"]

CallPhase(c) ==
    IF pc[c] = "posted" THEN PostedPhase
    ELSE [kind |-> IF pc[c] = "gate" THEN "waiting" ELSE "idle"]

Verb == INSTANCE BlockingVerb WITH
            call <- [c \in Callers |-> CallPhase(c)],
            closed <- abandoned

\* Every step of the channel is a step of the abstract verb or invisible to it.
ImplementsBlockingVerb == Verb!Spec
====
