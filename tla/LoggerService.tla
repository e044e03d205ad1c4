---- MODULE LoggerService ----
(***************************************************************************)
(* wz::diag::LoggerServiceLane (diagnostics/logger_service.cpp) composed   *)
(* with the Logger its reporter logs into, and the runtime that tears both *)
(* down (editor_runtime.cpp).  The lane is one more producer of the logger.*)
(*                                                                         *)
(* A diagnostic record is one occurrence of one id.  The lane's channel is *)
(* the ring Logger has: claimed slots, some of them not Ready yet.         *)
(***************************************************************************)
EXTENDS Logger

CONSTANTS
    Lane,            \* the lane's thread, a producer of the logger
    Publishers,      \* threads that detect diagnostics
    Flushers,        \* threads that call flush_now()
    Owner,           \* the one of them that tears the runtime down
    ChannelCapacity, \* slots of the channel
    Workloads        \* bound: how many pushes, records, waits, flushes and teardowns
                     \* the other threads begin, how often the cadence wakes the
                     \* lane; a behaviour starts with one of them

Work == {"pushes", "records", "waits", "flushes", "cadences", "teardowns"}

ASSUME LaneAssumption == Lane \in Producers /\ Owner \in Flushers
ASSUME PublishersAssumption == IsFiniteSet(Publishers)
ASSUME BoundsAssumption ==
    ChannelCapacity \in Nat /\ Workloads \subseteq [Work -> Nat]

VARIABLES
    slots, popped,   \* the channel: its claimed slots, TRUE when Ready; how many are popped
    publish,         \* where each publisher is, and the slot it claimed
    drops,           \* channel_drops_
    state,           \* DiagnosticState: occurrences and losses, and how much of each is reported
    lane,            \* worker_main(): where it is, served and stopping
    live, reporting, \* running_, reporting_
    request, done,   \* flush_request_, flush_done_
    flush,           \* where each flusher is, and its target
    teardown,        \* how far RuntimeTeardown is
    left,            \* of each kind of work, how much is yet to begin
    published,       \* history: records published
    owed             \* history: slots Ready without a gap when each flush was requested

channel == <<slots, popped, publish, drops, published>>
flushing == <<request, done, flush, owed>>
laneVars == <<channel, flushing, state, lane, live, reporting, teardown, left>>
vars == <<loggerVars, laneVars>>

Init ==
    /\ LoggerInit
    /\ slots = <<>> /\ popped = 0 /\ drops = 0
    /\ publish = [p \in Publishers |-> [at |-> "out", slot |-> 0]]
    /\ state = [count |-> 0, reported |-> 0, lost |-> 0, lostReported |-> 0]
    /\ lane = [at |-> "wait", served |-> 0, stopping |-> FALSE]
    /\ live = TRUE /\ reporting = TRUE /\ request = 0 /\ done = 0
    /\ flush = [f \in Flushers |-> [at |-> "out", target |-> 0]]
    /\ teardown = "running"
    /\ left \in Workloads /\ published = 0
    /\ owed = [f \in Flushers |-> {}]

-----------------------------------------------------------------------------
(* publish(), from any thread. *)

ClaimSlot(p) ==
    /\ publish[p].at = "out" /\ live /\ left.records > 0
    /\ left' = [left EXCEPT !.records = @ - 1] /\ published' = published + 1
    /\ IF Len(slots) - popped < ChannelCapacity
         THEN /\ slots' = Append(slots, FALSE)
              /\ publish' = [publish EXCEPT ![p] = [at |-> "write", slot |-> Len(slots) + 1]]
         ELSE /\ publish' = [publish EXCEPT ![p].at = "drop"]
              /\ UNCHANGED slots
    /\ UNCHANGED <<loggerVars, popped, drops, flushing, state, lane, live, reporting, teardown>>

FillSlot(p) ==
    /\ publish[p].at = "write"
    /\ slots' = [slots EXCEPT ![publish[p].slot] = TRUE]
    /\ publish' = [publish EXCEPT ![p].at = "out"]
    /\ UNCHANGED <<loggerVars, popped, drops, flushing, state, lane, live, reporting, teardown, left, published>>

\* channel_drops_.fetch_add
CountDrop(p) ==
    /\ publish[p].at = "drop"
    /\ drops' = drops + 1
    /\ publish' = [publish EXCEPT ![p].at = "out"]
    /\ UNCHANGED <<loggerVars, slots, popped, flushing, state, lane, live, reporting, teardown, left, published>>

PublishStep(p) == FillSlot(p) \/ CountDrop(p)

-----------------------------------------------------------------------------
(* flush_now() *)

ReadyPrefix == {i \in DOMAIN slots : \A j \in 1 .. i : slots[j]}

Request(f) ==
    /\ flush[f].at = "out"
    /\ request' = request + 1
    /\ flush' = [flush EXCEPT ![f] = [at |-> "test", target |-> request + 1]]
    /\ owed' = [owed EXCEPT ![f] = ReadyPrefix]
    /\ UNCHANGED <<loggerVars, channel, done, state, lane, live, reporting>>

FlushNow(f) ==
    /\ f # Owner /\ live /\ left.flushes > 0
    /\ Request(f)
    /\ left' = [left EXCEPT !.flushes = @ - 1]
    /\ UNCHANGED teardown

\* flushed_cv_.wait: the predicate holds, or the flusher sleeps.
FlushTest(f) ==
    /\ flush[f].at = "test"
    /\ flush' = [flush EXCEPT ![f].at = IF done >= flush[f].target THEN "out" ELSE "asleep"]
    /\ UNCHANGED <<loggerVars, channel, request, done, owed, state, lane, live, reporting,
                   teardown, left>>

-----------------------------------------------------------------------------
(* worker_main() *)

LaneAt(at) == lane' = [lane EXCEPT !.at = at]
LaneKeeps == UNCHANGED <<slots, publish, published, request, owed, live, reporting, teardown, left>>

\* wait_for() ends on the cadence, on a flush or on teardown.
WakeUp ==
    /\ lane.at = "wait"
    /\ \/ (request > done \/ ~live) /\ UNCHANGED left
       \/ left.cadences > 0 /\ left' = [left EXCEPT !.cadences = @ - 1]
    /\ lane' = [at |-> "drain", served |-> request, stopping |-> ~live]
    /\ UNCHANGED <<loggerVars, channel, flushing, state, live, reporting, teardown>>

\* while (try_pop) ingest: it ends at an empty channel and at a hole alike.
Ingest ==
    /\ lane.at = "drain"
    /\ IF popped < Len(slots) /\ slots[popped + 1]
         THEN /\ popped' = popped + 1 /\ state' = [state EXCEPT !.count = @ + 1]
              /\ UNCHANGED lane
         ELSE LaneAt("drops") /\ UNCHANGED <<popped, state>>
    /\ UNCHANGED <<loggerVars, drops, done, flush>> /\ LaneKeeps

\* Variant: a load, not an exchange
LoadDrops == state' = [state EXCEPT !.lost = @ + drops] /\ UNCHANGED drops

TakeDrops == state' = [state EXCEPT !.lost = @ + drops] /\ drops' = 0

NoteDrops ==
    /\ lane.at = "drops" /\ TakeDrops
    /\ LaneAt("check")
    /\ UNCHANGED <<loggerVars, popped, done, flush>> /\ LaneKeeps

CheckReporting ==
    /\ lane.at = "check"
    /\ LaneAt(IF reporting THEN "entry" ELSE "ack")
    /\ UNCHANGED <<loggerVars, popped, drops, done, flush, state>> /\ LaneKeeps

\* report_diagnostics(): a line for what is new, then a line for what was lost.
News == IF lane.at = "entry" THEN state.count > state.reported ELSE state.lost > state.lostReported
NextLine == IF lane.at \in {"entry", "entryLogged"} THEN "loss" ELSE "ack"

LogLine ==
    /\ lane.at \in {"entry", "loss"}
    /\ IF News THEN Count(Lane) /\ LaneAt(IF lane.at = "entry" THEN "entryLogged" ELSE "lossLogged")
               ELSE LaneAt(NextLine) /\ UNCHANGED loggerVars
    /\ UNCHANGED <<popped, drops, done, flush, state>> /\ LaneKeeps

\* The push has returned, true or false: mark_reported().
LineLogged ==
    /\ lane.at \in {"entryLogged", "lossLogged"} /\ push[Lane].at = "out"
    /\ state' = IF lane.at = "entryLogged" THEN [state EXCEPT !.reported = state.count]
                                           ELSE [state EXCEPT !.lostReported = state.lost]
    /\ LaneAt(NextLine)
    /\ UNCHANGED <<loggerVars, popped, drops, done, flush>> /\ LaneKeeps

\* Variant: every request made so far is acknowledged
AckLatest ==
    /\ lane.at = "ack"
    /\ done' = request
    /\ LaneAt("notify")
    /\ UNCHANGED <<loggerVars, popped, drops, flush, state>> /\ LaneKeeps

\* flush_done_ = served: the requests seen before the drain began
Ack ==
    /\ lane.at = "ack"
    /\ done' = lane.served
    /\ LaneAt("notify")
    /\ UNCHANGED <<loggerVars, popped, drops, flush, state>> /\ LaneKeeps

\* Variant: nobody is told
NobodyTold == UNCHANGED flush

FlushersTold == flush' = [f \in Flushers |->
                   IF flush[f].at = "asleep" THEN [flush[f] EXCEPT !.at = "test"] ELSE flush[f]]

LaneNotify ==
    /\ lane.at = "notify" /\ FlushersTold
    /\ LaneAt(IF lane.stopping THEN "exited" ELSE "wait")
    /\ UNCHANGED <<loggerVars, popped, drops, done, state>> /\ LaneKeeps

LaneStep ==
    WakeUp \/ Ingest \/ NoteDrops \/ CheckReporting \/ LogLine \/ LineLogged \/ Ack \/ LaneNotify

-----------------------------------------------------------------------------
(* ~RuntimeTeardown(): quiesce(), and afterwards the lane is destroyed and the  *)
(* logger shut down, in either order (the header allows both).                  *)

Teardown(from, to) == teardown = from /\ teardown' = to

BeginQuiesce ==
    /\ Teardown("running", "finalReport") /\ left.teardowns > 0
    /\ Request(Owner)
    /\ left' = [left EXCEPT !.teardowns = @ - 1]

SilenceReporter ==
    /\ Teardown("finalReport", "silenced") /\ flush[Owner].at = "out"
    /\ reporting' = FALSE
    /\ UNCHANGED <<loggerVars, channel, flushing, state, lane, live, left>>

\* Variant: quiesce() flushes once
NoBarrier ==
    /\ Teardown("silenced", "barrier")
    /\ UNCHANGED <<loggerVars, channel, flushing, state, lane, live, reporting, left>>

Barrier == Teardown("silenced", "barrier") /\ Request(Owner) /\ UNCHANGED left

Quiesced ==
    /\ Teardown("barrier", "quiesced") /\ flush[Owner].at = "out"
    /\ UNCHANGED <<loggerVars, channel, flushing, state, lane, live, reporting, left>>

\* ~LoggerServiceLane(): the sink is uninstalled and nobody is inside it.
StopLane ==
    /\ teardown = "quiesced" /\ live
    /\ \A p \in Publishers : publish[p].at = "out"
    /\ \A f \in Flushers : flush[f].at = "out"
    /\ live' = FALSE
    /\ UNCHANGED <<loggerVars, channel, flushing, state, lane, reporting, teardown, left>>

ShutdownLogger ==
    /\ teardown = "quiesced" /\ owner = "up"
    /\ owner' = "closing"
    /\ UNCHANGED <<queue, running, inFlight, push, worker, wait, log, promised, gaveUp, laneVars>>

TeardownStep == SilenceReporter \/ Barrier \/ Quiesced

-----------------------------------------------------------------------------
AppPush(p) ==
    /\ p # Lane /\ left.pushes > 0
    /\ Count(p)
    /\ left' = [left EXCEPT !.pushes = @ - 1]
    /\ UNCHANGED <<channel, flushing, state, lane, live, reporting, teardown>>

LoggerStep ==
    /\ \/ \E p \in Producers : PushStep(p)
       \/ WorkerStep \/ StopStep
       \/ \E w \in Waiters : WaitStep(w)
    /\ UNCHANGED laneVars

WaitUntilIdle(w) ==
    /\ BeginWait(w) /\ left.waits > 0
    /\ left' = [left EXCEPT !.waits = @ - 1]
    /\ UNCHANGED <<channel, flushing, state, lane, live, reporting, teardown>>

Next ==
    \/ LoggerStep \/ LaneStep \/ TeardownStep
    \/ \E p \in Producers : AppPush(p)
    \/ \E w \in Waiters : WaitUntilIdle(w)
    \/ \E p \in Publishers : ClaimSlot(p) \/ PublishStep(p)
    \/ \E f \in Flushers : FlushNow(f) \/ FlushTest(f)
    \/ BeginQuiesce \/ StopLane \/ ShutdownLogger

Spec == Init /\ [][Next]_vars

\* Every started thread runs on; nothing obliges anybody to log, to publish, to
\* flush, to wait or to tear down.
Fairness ==
    /\ \A p \in Producers : WF_vars(PushStep(p) /\ UNCHANGED laneVars)
    /\ WF_vars(WorkerStep /\ UNCHANGED laneVars) /\ WF_vars(StopStep /\ UNCHANGED laneVars)
    /\ \A w \in Waiters : WF_vars(WaitStep(w) /\ UNCHANGED laneVars)
    /\ \A p \in Publishers : WF_vars(PublishStep(p))
    /\ \A f \in Flushers : WF_vars(FlushTest(f))
    /\ WF_vars(LaneStep) /\ WF_vars(TeardownStep)

FairSpec == Spec /\ Fairness

-----------------------------------------------------------------------------
\* After quiesce() has returned the reporter never runs again, so the logger may
\* be freed while the lane still lives -- though a cadence cycle may have loaded
\* reporting_ as true long before (logger_service.cpp:79-94).
QuiesceSilences ==
    teardown = "quiesced" => lane.at \notin {"entry", "entryLogged", "loss", "lossLogged"}

\* When flush_now() may return, all that was Ready without a gap when it was
\* requested has been folded in: the cycle that acknowledges it began later.
FlushDrains ==
    \A f \in Flushers :
        flush[f].at # "out" /\ done >= flush[f].target => owed[f] \subseteq 1 .. popped

\* The destructor folds in every record published before it, and every loss is
\* counted exactly once (logger_service.cpp:97-106, logger_service.h:71-75).
EveryOccurrenceCounted == lane.at = "exited" => state.count + state.lost = published

\* flush_now() returns, so quiesce() does.
FlushReturns == \A f \in Flushers : flush[f].at # "out" ~> flush[f].at = "out"
====
