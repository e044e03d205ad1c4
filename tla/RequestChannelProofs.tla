---- MODULE RequestChannelProofs ----
(***************************************************************************)
(* The safety of RequestChannel for any set of callers, servicers and      *)
(* results: IInv is inductive, and every safety invariant the runs check   *)
(* follows from it.                                                        *)
(***************************************************************************)
EXTENDS RequestChannel, TLAPS

\* A posted request always has a payload in the channel, so the claim that picks
\* it up knows whose call it is.
RequestedHasPayload == state = "Requested" => args # NoCaller

\* Only a caller inside a call sleeps on the condition variable.
SleepersAreInside == \A c \in asleep : pc[c] # "idle"

IInv ==
    /\ TypeOK
    /\ PayloadHeldWhileServiced
    /\ OneCycle
    /\ AnswerIsForItsCaller
    /\ PayloadComesBack
    /\ OneServicer
    /\ NoLostWakeup
    /\ RequestedHasPayload
    /\ SleepersAreInside

USE CallersAssumption, ResultAssumption, EngineAssumption

\* The initial state satisfies the invariant: the channel is Idle and nobody is
\* inside a call.
LEMMA InitInvariant == Init => IInv
  BY DEF Init, IInv, TypeOK, States, PayloadHeldWhileServiced, OneCycle,
         AnswerIsForItsCaller, PayloadComesBack, OneServicer, NoLostWakeup,
         RequestedHasPayload, SleepersAreInside

\* Every step keeps the state well typed.
LEMMA TypePreserved == IInv /\ [Next]_vars => TypeOK'
  <1> SUFFICES ASSUME IInv, [Next]_vars PROVE TypeOK'
    OBVIOUS
  <1> USE DEF IInv, TypeOK, States, channel
  <1>1. ASSUME NEW c \in Callers, Call(c) \/ Sleep(c) \/ Refuse(c) \/ Post(c)
        PROVE  TypeOK'
    BY <1>1 DEF Call, Sleep, Refuse, Post
  <1>2. ASSUME NEW c \in Callers, Take(c) PROVE TypeOK'
    <2>1. outcome' \in [Callers -> {NotServiced} \cup {Serviced(r) : r \in Results}]
      BY <1>2 DEF Take, TakenOutcome, AnswerIsForItsCaller
    <2> QED BY <1>2, <2>1 DEF Take
  <1>3. ASSUME NEW t \in Servicers, Claim(t) PROVE TypeOK'
    BY <1>3 DEF Claim
  <1>4. ASSUME NEW t \in Servicers, NEW r \in Results, Publish(t, r) PROVE TypeOK'
    BY <1>4 DEF Publish, PayloadHeldWhileServiced
  <1>5. ASSUME NEW t \in Servicers, Fail(t) \/ Notify(t) PROVE TypeOK'
    BY <1>5 DEF Fail, Notify
  <1>6. CASE Abandon \/ AbandonNotify
    BY <1>6 DEF Abandon, AbandonNotify
  <1>7. CASE UNCHANGED vars
    BY <1>7 DEF vars
  <1> QED
    BY <1>1, <1>2, <1>3, <1>4, <1>5, <1>6, <1>7 DEF Next, CallerStep, Complete

\* What each step does to the channel's own bookkeeping: the part of the
\* invariant that ties the caller parked on the channel to its state, its
\* payload, its result and its servicer.
Bookkeeping ==
    /\ PayloadHeldWhileServiced
    /\ OneCycle
    /\ AnswerIsForItsCaller
    /\ PayloadComesBack
    /\ OneServicer
    /\ RequestedHasPayload

\* Every step keeps caller, payload, result and servicer in step.
LEMMA BookkeepingPreserved == IInv /\ [Next]_vars => Bookkeeping'
  <1> SUFFICES ASSUME IInv, [Next]_vars PROVE Bookkeeping'
    OBVIOUS
  <1> USE DEF IInv, TypeOK, States, channel, Bookkeeping, PayloadHeldWhileServiced,
              OneCycle, AnswerIsForItsCaller, PayloadComesBack, OneServicer,
              RequestedHasPayload
  <1>1. ASSUME NEW c \in Callers, Call(c) \/ Sleep(c) \/ Refuse(c) PROVE Bookkeeping'
    BY <1>1 DEF Call, Sleep, Refuse
  <1>2. ASSUME NEW c \in Callers, Post(c) PROVE Bookkeeping'
    <2>1. state = "Idle" /\ \A d \in Callers : pc[d] # "posted"
      BY <1>2 DEF Post, GateOpen
    <2> QED BY <1>2, <2>1 DEF Post
  <1>3. ASSUME NEW c \in Callers, Take(c) PROVE Bookkeeping'
    <2>1. /\ state # "InFlight"
          /\ \A t \in Servicers : sv[t] # "working"
          /\ \A d \in Callers : d # c => pc[d] # "posted"
      BY <1>3 DEF Take, Settled
    <2> QED BY <1>3, <2>1 DEF Take
  <1>4. ASSUME NEW t \in Servicers, Claim(t) PROVE Bookkeeping'
    <2>1. /\ args \in Callers /\ pc[args] = "posted"
          /\ \A u \in Servicers : sv[u] # "working"
      BY <1>4 DEF Claim
    <2> QED BY <1>4, <2>1 DEF Claim
  <1>5. ASSUME NEW t \in Servicers, NEW r \in Results, Publish(t, r) PROVE Bookkeeping'
    <2>1. /\ state = "InFlight" /\ serving \in Callers /\ pc[serving] = "posted"
          /\ \A u \in Servicers : u # t => sv[u] # "working"
      BY <1>5 DEF Publish
    <2>2. result' = <<serving, r>> /\ result'[1] = serving /\ result' # NoResult
      BY <1>5, <2>1 DEF Publish
    <2> QED BY <1>5, <2>1, <2>2 DEF Publish
  <1>6. ASSUME NEW t \in Servicers, Fail(t) PROVE Bookkeeping'
    <2>1. /\ state = "InFlight"
          /\ \A u \in Servicers : u # t => sv[u] # "working"
      BY <1>6 DEF Fail
    <2> QED BY <1>6, <2>1 DEF Fail
  <1>7. ASSUME NEW t \in Servicers, Notify(t) PROVE Bookkeeping'
    BY <1>7 DEF Notify
  <1>8. CASE Abandon \/ AbandonNotify
    BY <1>8 DEF Abandon, AbandonNotify
  <1>9. CASE UNCHANGED vars
    BY <1>9 DEF vars
  <1> QED
    BY <1>1, <1>2, <1>3, <1>4, <1>5, <1>6, <1>7, <1>8, <1>9
    DEF Next, CallerStep, Complete

\* Every step keeps a notify on the way for each sleeping caller that may run.
LEMMA WakeupPreserved == IInv /\ [Next]_vars => (NoLostWakeup /\ SleepersAreInside)'
  <1> SUFFICES ASSUME IInv, [Next]_vars PROVE (NoLostWakeup /\ SleepersAreInside)'
    OBVIOUS
  <1> USE DEF IInv, TypeOK, States, channel, NoLostWakeup, SleepersAreInside,
              MayRun, GateOpen, Settled
  <1>1. ASSUME NEW c \in Callers, Call(c) \/ Sleep(c) \/ Refuse(c)
        PROVE  (NoLostWakeup /\ SleepersAreInside)'
    BY <1>1 DEF Call, Sleep, Refuse
  <1>2. ASSUME NEW c \in Callers, Post(c) PROVE (NoLostWakeup /\ SleepersAreInside)'
    BY <1>2 DEF Post
  <1>3. ASSUME NEW c \in Callers, Take(c) PROVE (NoLostWakeup /\ SleepersAreInside)'
    BY <1>3 DEF Take
  <1>4. ASSUME NEW t \in Servicers, Claim(t) PROVE (NoLostWakeup /\ SleepersAreInside)'
    BY <1>4 DEF Claim
  <1>5. ASSUME NEW t \in Servicers, NEW r \in Results, Publish(t, r)
        PROVE  (NoLostWakeup /\ SleepersAreInside)'
    <2>1. sv'[t] = "notify"
      BY <1>5 DEF Publish
    <2> QED BY <1>5, <2>1 DEF Publish
  <1>6. ASSUME NEW t \in Servicers, Fail(t) PROVE (NoLostWakeup /\ SleepersAreInside)'
    <2>1. sv'[t] = "notify"
      BY <1>6 DEF Fail
    <2> QED BY <1>6, <2>1 DEF Fail
  <1>7. ASSUME NEW t \in Servicers, Notify(t)
        PROVE  (NoLostWakeup /\ SleepersAreInside)'
    BY <1>7 DEF Notify
  <1>8. CASE Abandon \/ AbandonNotify
    BY <1>8 DEF Abandon, AbandonNotify
  <1>9. CASE UNCHANGED vars
    BY <1>9 DEF vars
  <1> QED
    BY <1>1, <1>2, <1>3, <1>4, <1>5, <1>6, <1>7, <1>8, <1>9
    DEF Next, CallerStep, Complete

\* The inductive invariant holds in every reachable state.
THEOREM Invariance == Spec => []IInv
  <1>1. IInv /\ [Next]_vars => IInv'
    BY TypePreserved, BookkeepingPreserved, WakeupPreserved DEF IInv, Bookkeeping
  <1> QED BY InitInvariant, <1>1, PTL DEF Spec

\* The state of the channel is always well typed: no call ever returns, and no
\* result ever holds, anything but a value a servicer published.
THEOREM TypeCorrect == Spec => []TypeOK
  <1>1. IInv => TypeOK
    BY DEF IInv
  <1> QED BY Invariance, <1>1, PTL

\* A caller is never released from under the servicer that works on its request,
\* not even by abandon(); so no servicer ever touches a reclaimed payload.
THEOREM PayloadSafe == Spec => []PayloadHeldWhileServiced
  <1>1. IInv => PayloadHeldWhileServiced
    BY DEF IInv
  <1> QED BY Invariance, <1>1, PTL

\* One call at a time is past the gate, and every published answer is taken by
\* the call it was computed for.
THEOREM AnswersMatchCalls == Spec => [](OneCycle /\ OneServicer /\ AnswerIsForItsCaller)
  <1>1. IInv => OneCycle /\ OneServicer /\ AnswerIsForItsCaller
    BY DEF IInv
  <1> QED BY Invariance, <1>1, PTL

\* A payload moved into the channel is moved back to the caller it came from.
THEOREM PayloadReturned == Spec => []PayloadComesBack
  <1>1. IInv => PayloadComesBack
    BY DEF IInv
  <1> QED BY Invariance, <1>1, PTL

\* No wake-up of the condition variable is ever lost.
THEOREM WakeupsKept == Spec => []NoLostWakeup
  <1>1. IInv => NoLostWakeup
    BY DEF IInv
  <1> QED BY Invariance, <1>1, PTL

-----------------------------------------------------------------------------
(* Refinement: each step of the channel is a step of the blocking verb, or     *)
(* leaves what the verb shows unchanged.                                       *)

\* The caller parked on the channel is the one whose phase the channel's state
\* gives; every other caller is idle or waiting.
PhaseMap == [c \in Callers |-> CallPhase(c)]

LEMMA StepRefines == IInv /\ IInv' /\ [Next]_vars => [Verb!Next]_(Verb!vars)
  <1> SUFFICES ASSUME IInv, IInv', [Next]_vars PROVE [Verb!Next]_(Verb!vars)
    OBVIOUS
  <1> USE DEF IInv, TypeOK, States, channel, Verb!vars, Verb!Phase, Verb!NotServiced,
              NotServiced
  <1>1. ASSUME NEW c \in Callers, Call(c) PROVE Verb!Invoke(c)
    BY <1>1 DEF Call, Verb!Invoke, CallPhase, PostedPhase
  <1>2. ASSUME NEW c \in Callers, Sleep(c) PROVE UNCHANGED Verb!vars
    BY <1>2 DEF Sleep, CallPhase, PostedPhase
  <1>3. ASSUME NEW c \in Callers, Refuse(c) PROVE Verb!Return(c)
    BY <1>3 DEF Refuse, Verb!Return, Verb!Release, CallPhase, PostedPhase
  <1>4. ASSUME NEW c \in Callers, Post(c) PROVE UNCHANGED Verb!vars
    <2>1. \A d \in Callers : pc[d] # "posted"
      BY <1>4 DEF Post, GateOpen, OneCycle
    <2> QED BY <1>4, <2>1 DEF Post, CallPhase, PostedPhase
  <1>5. ASSUME NEW c \in Callers, Take(c) PROVE Verb!Return(c)
    <2>1. \A d \in Callers : d # c => pc[d] # "posted"
      BY <1>5 DEF Take, OneCycle
    <2>2. state \in {"Published", "Failed", "Requested"}
      BY <1>5 DEF Take, Settled
    <2>3. CASE state = "Published"
      BY <1>5, <2>1, <2>3 DEF Take, Settled, TakenOutcome, CallPhase, PostedPhase, Serviced,
           Verb!Return, Verb!Release, Verb!Answer
    <2>4. CASE state # "Published"
      BY <1>5, <2>1, <2>2, <2>4 DEF Take, Settled, TakenOutcome, CallPhase, PostedPhase,
           Serviced, Verb!Return, Verb!Release, Verb!Answer
    <2> QED BY <2>3, <2>4
  <1>6. ASSUME NEW t \in Servicers, Claim(t)
        PROVE  \E c \in Callers : Verb!Begin(c)
    <2>1. args \in Callers /\ pc[args] = "posted"
      BY <1>6 DEF Claim, RequestedHasPayload, PayloadComesBack
    <2>2. \A d \in Callers : d # args => pc[d] # "posted"
      BY <2>1 DEF OneCycle
    <2>3. Verb!Begin(args)
      BY <1>6, <2>1, <2>2 DEF Claim, Verb!Begin, CallPhase, PostedPhase
    <2> QED BY <2>1, <2>3
  <1>7. ASSUME NEW t \in Servicers, NEW r \in Results, Publish(t, r)
        PROVE  \E c \in Callers : Verb!Finish(c)
    <2>1. state = "InFlight" /\ serving \in Callers /\ pc[serving] = "posted"
      BY <1>7 DEF Publish, PayloadHeldWhileServiced
    <2>2. \A d \in Callers : d # serving => pc[d] # "posted"
      BY <2>1 DEF OneCycle
    <2>3. state' = "Published" /\ result'[2] = r
      BY <1>7, <2>1 DEF Publish
    <2>4. PhaseMap' = [PhaseMap EXCEPT ![serving] = Verb!Answer(r)]
      BY <1>7, <2>1, <2>2, <2>3 DEF Publish, PhaseMap, CallPhase, PostedPhase, Serviced, Verb!Answer
    <2>5. PhaseMap[serving] = Verb!Phase("running")
      BY <2>1 DEF PhaseMap, CallPhase, PostedPhase
    <2>6. Verb!Answer(r) \in Verb!Answers
      BY DEF Verb!Answers
    <2>7. UNCHANGED <<outcome, abandoned>>
      BY <1>7 DEF Publish
    <2>8. Verb!Finish(serving)
      BY <2>4, <2>5, <2>6, <2>7 DEF Verb!Finish, Verb!FinishWith, PhaseMap
    <2> QED BY <2>1, <2>8
  <1>8. ASSUME NEW t \in Servicers, Fail(t)
        PROVE  \E c \in Callers : Verb!Finish(c)
    <2>1. state = "InFlight" /\ serving \in Callers /\ pc[serving] = "posted"
      BY <1>8 DEF Fail, PayloadHeldWhileServiced
    <2>2. \A d \in Callers : d # serving => pc[d] # "posted"
      BY <2>1 DEF OneCycle
    <2>3. PhaseMap' = [PhaseMap EXCEPT ![serving] = Verb!Phase("failed")]
      BY <1>8, <2>1, <2>2 DEF Fail, PhaseMap, CallPhase, PostedPhase, Serviced
    <2>4. Verb!Finish(serving)
      BY <1>8, <2>1, <2>3 DEF Fail, PhaseMap, CallPhase, PostedPhase, Verb!Finish, Verb!FinishWith, Verb!Answers
    <2> QED BY <2>1, <2>4
  <1>9. ASSUME NEW t \in Servicers, Notify(t) PROVE UNCHANGED Verb!vars
    BY <1>9 DEF Notify, CallPhase, PostedPhase
  <1>10. CASE Abandon
    <2>1. Verb!Close
      BY <1>10 DEF Abandon, Verb!Close, CallPhase, PostedPhase
    <2> QED BY <2>1 DEF Verb!Next
  <1>11. CASE AbandonNotify
    BY <1>11 DEF AbandonNotify, CallPhase, PostedPhase
  <1>12. CASE UNCHANGED vars
    BY <1>12 DEF vars, CallPhase, PostedPhase
  <1> QED
    BY <1>1, <1>2, <1>3, <1>4, <1>5, <1>6, <1>7, <1>8, <1>9, <1>10, <1>11, <1>12
    DEF Next, CallerStep, Complete, Verb!Next

\* RequestChannel implements BlockingVerb: one call is run at a time, a call is
\* answered only with its own answer, and closing never releases a running call.
THEOREM Refinement == Spec => ImplementsBlockingVerb
  <1>1. Init => Verb!Init
    BY DEF Init, Verb!Init, CallPhase, PostedPhase, Verb!Phase, NotServiced, Verb!NotServiced
  <1> QED BY <1>1, StepRefines, Invariance, PTL DEF Spec, Verb!Spec, ImplementsBlockingVerb
====
