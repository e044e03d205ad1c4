---- MODULE Logger ----
(***************************************************************************)
(* wz::logging: LoggerState (logging/logger_state.cpp), its LoggerQueue    *)
(* and the MPSCRingBuffer underneath.  Any thread pushes without a lock;   *)
(* one worker pops, dispatches to the sinks and counts down; threads wait  *)
(* for the count to reach zero; stop() closes, joins and frees.            *)
(*                                                                         *)
(* A message is the ring position its producer claimed.  A ring cell holds *)
(* the Ready message in it, or Hole.                                       *)
(***************************************************************************)
EXTENDS Integers, Sequences, FiniteSets

CONSTANTS
    Producers,   \* threads that log
    Waiters,     \* threads that call wait_until_idle()
    Capacity,    \* cells of the ring
    Hole         \* an Empty cell

ASSUME ThreadsAssumption == IsFiniteSet(Producers)
ASSUME RingAssumption == Capacity \in Nat \ {0} /\ Hole \notin Nat

VARIABLES
    accepting, running,  \* accepting_, running_
    inFlight,            \* in_flight_
    ring, head, tail,    \* MPSCRingBuffer
    push,                \* each producer inside push(): where, the head it read, its message
    worker,              \* where run() is, and the message in its hand
    wait,                \* each waiter: where, and the count it waits to change
    owner,               \* where stop() and the delete are
    log,                 \* history: messages dispatched, in order
    promised,            \* history: messages whose push() returned true before stop()
    gaveUp               \* history: the final drain ran out of patience with a producer

queue == <<accepting, ring, head, tail>>
loggerVars == <<queue, running, inFlight, push, worker, wait, owner, log, promised, gaveUp>>

Cell(i) == i % Capacity
Outside == [at |-> "out", head |-> 0, msg |-> 0]

LoggerInit ==
    /\ accepting = TRUE /\ running = TRUE /\ inFlight = 0
    /\ ring = [i \in 0 .. Capacity - 1 |-> Hole] /\ head = 0 /\ tail = 0
    /\ push = [p \in Producers |-> Outside]
    /\ worker = [at |-> "poll", draining |-> FALSE, msg |-> 0]
    /\ wait = [w \in Waiters |-> [at |-> "out", value |-> 0]]
    /\ owner = "up"
    /\ log = <<>> /\ promised = {} /\ gaveUp = FALSE

-----------------------------------------------------------------------------
(* push(), from any thread. *)

GoOn(p, at) == push' = [push EXCEPT ![p].at = at]

\* The level passed the filter and the logger is there: the message is counted
\* before it is offered to the queue.
Count(p) ==
    /\ push[p].at = "out" /\ owner # "down"
    /\ inFlight' = inFlight + 1
    /\ GoOn(p, "check")
    /\ UNCHANGED <<queue, running, worker, wait, owner, log, promised, gaveUp>>

CheckAccepting(p) ==
    /\ push[p].at = "check"
    /\ GoOn(p, IF accepting THEN "head" ELSE "drop")
    /\ UNCHANGED <<queue, running, inFlight, worker, wait, owner, log, promised, gaveUp>>

LoadHead(p) ==
    /\ push[p].at = "head"
    /\ push' = [push EXCEPT ![p] = [at |-> "claim", head |-> head, msg |-> 0]]
    /\ UNCHANGED <<queue, running, inFlight, worker, wait, owner, log, promised, gaveUp>>

\* Variant: one message too many fits
ClaimOneMore(p) ==
    /\ push[p].at = "claim"
    /\ IF tail - push[p].head > Capacity
         THEN GoOn(p, "drop") /\ UNCHANGED tail
         ELSE /\ tail' = tail + 1
              /\ push' = [push EXCEPT ![p] = [at |-> "write", head |-> 0, msg |-> tail]]
    /\ UNCHANGED <<accepting, ring, head, running, inFlight, worker, wait,
                   owner, log, promised, gaveUp>>

\* The load of tail, the test for full and the CAS. A CAS that fails only reads
\* a head at least as fresh again.
Claim(p) ==
    /\ push[p].at = "claim"
    /\ IF tail - push[p].head >= Capacity
         THEN GoOn(p, "drop") /\ UNCHANGED tail
         ELSE /\ tail' = tail + 1
              /\ push' = [push EXCEPT ![p] = [at |-> "write", head |-> 0, msg |-> tail]]
    /\ UNCHANGED <<accepting, ring, head, running, inFlight, worker, wait,
                   owner, log, promised, gaveUp>>

\* The value is written and the cell is Ready; push() returns true.
Publish(p) ==
    /\ push[p].at = "write"
    /\ ring' = [ring EXCEPT ![Cell(push[p].msg)] = push[p].msg]
    /\ push' = [push EXCEPT ![p] = Outside]
    /\ promised' = IF owner = "up" THEN promised \cup {push[p].msg} ELSE promised
    /\ UNCHANGED <<accepting, head, tail, running, inFlight, worker, wait,
                   owner, log, gaveUp>>

\* Variant: the count is taken back silently
DropSilently(p) ==
    /\ push[p].at = "drop"
    /\ inFlight' = inFlight - 1
    /\ push' = [push EXCEPT ![p] = Outside]
    /\ UNCHANGED <<queue, running, worker, wait, owner, log, promised, gaveUp>>

\* The queue refused the message: the count is taken back.
Drop(p) ==
    /\ push[p].at = "drop"
    /\ inFlight' = inFlight - 1
    /\ push' = [push EXCEPT ![p] = [Outside EXCEPT !.at = IF inFlight = 1 THEN "notify" ELSE "out"]]
    /\ UNCHANGED <<queue, running, worker, wait, owner, log, promised, gaveUp>>

\* in_flight_.notify_all(): each thread asleep on it looks at it again.
WakeAll == wait' = [w \in Waiters |->
                      IF wait[w].at = "asleep" THEN [wait[w] EXCEPT !.at = "compare"] ELSE wait[w]]

DropNotify(p) ==
    /\ push[p].at = "notify"
    /\ WakeAll
    /\ GoOn(p, "out")
    /\ UNCHANGED <<queue, running, inFlight, worker, owner, log, promised, gaveUp>>

PushStep(p) ==
    CheckAccepting(p) \/ LoadHead(p) \/ Claim(p) \/ Publish(p) \/ Drop(p) \/ DropNotify(p)

-----------------------------------------------------------------------------
(* run(), the worker. *)

WorkerAt(at) == worker' = [worker EXCEPT !.at = at]
Ready == ring[Cell(head)] # Hole
MidPush(m) == \E p \in Producers : push[p].at = "write" /\ push[p].msg = m

\* The test of running_: the loop, or the final drain.
Poll ==
    /\ worker.at = "poll"
    /\ worker' = [worker EXCEPT !.at = "pop", !.draining = ~running]
    /\ UNCHANGED <<queue, running, inFlight, push, wait, owner, log, promised, gaveUp>>

\* try_pop() of a Ready cell: the cell is emptied, then the head moves on.
Pop ==
    \/ /\ worker.at = "pop" /\ Ready
       /\ worker' = [worker EXCEPT !.at = "popped", !.msg = ring[Cell(head)]]
       /\ ring' = [ring EXCEPT ![Cell(head)] = Hole] /\ UNCHANGED head
    \/ /\ worker.at = "popped"
       /\ head' = head + 1
       /\ WorkerAt("dispatch") /\ UNCHANGED ring

PopReady ==
    /\ Pop
    /\ UNCHANGED <<accepting, tail, running, inFlight, push, wait, owner, log, promised, gaveUp>>

\* Variant: the final drain ends at the first hole
AtAHole ==
    /\ worker.at = "pop" /\ ~Ready
    /\ WorkerAt(IF worker.draining THEN "last" ELSE "poll")
    /\ UNCHANGED gaveUp

\* try_pop() returned false: the loop backs off and polls again; the final drain
\* ends on an empty ring, retries while it is not, and gives up in the end.
AtNothing ==
    /\ worker.at = "pop" /\ ~Ready
    /\ IF ~worker.draining THEN WorkerAt("poll") /\ UNCHANGED gaveUp
       ELSE WorkerAt("last") /\ gaveUp' = MidPush(head)

PopNothing ==
    /\ AtNothing
    /\ UNCHANGED <<queue, running, inFlight, push, wait, owner, log, promised>>

WhenCounted == IF worker.draining THEN "pop" ELSE IF inFlight = 1 THEN "notify" ELSE "poll"

\* Variant: the message is counted down before it is dispatched
CountedFirst ==
    \/ /\ worker.at = "dispatch"
       /\ inFlight' = inFlight - 1 /\ UNCHANGED log
       /\ WorkerAt("uncount")
    \/ /\ worker.at = "uncount"
       /\ log' = Append(log, worker.msg) /\ UNCHANGED inFlight
       /\ WorkerAt(IF worker.draining THEN "pop" ELSE "notify")

\* dispatch(), then the count. Only the loop notifies; the drain does at its end.
Handle ==
    \/ /\ worker.at = "dispatch"
       /\ log' = Append(log, worker.msg) /\ UNCHANGED inFlight
       /\ WorkerAt("uncount")
    \/ /\ worker.at = "uncount"
       /\ inFlight' = inFlight - 1 /\ UNCHANGED log
       /\ WorkerAt(WhenCounted)

Dispatch ==
    /\ Handle
    /\ UNCHANGED <<queue, running, push, wait, owner, promised, gaveUp>>

WorkerNotify ==
    /\ worker.at \in {"notify", "last"}
    /\ WakeAll
    /\ WorkerAt(IF worker.at = "last" THEN "exited" ELSE "poll")
    /\ UNCHANGED <<queue, running, inFlight, push, owner, log, promised, gaveUp>>

WorkerStep == Poll \/ PopReady \/ PopNothing \/ Dispatch \/ WorkerNotify

-----------------------------------------------------------------------------
(* wait_until_idle(), and the owner's shutdown_logger(). *)

BeginWait(w) ==
    /\ wait[w].at = "out" /\ owner = "up"
    /\ wait' = [wait EXCEPT ![w].at = "load"]
    /\ UNCHANGED <<queue, running, inFlight, push, worker, owner, log, promised, gaveUp>>

LoadCount(w) ==
    /\ wait[w].at = "load"
    /\ wait' = [wait EXCEPT ![w] = [at |-> IF inFlight = 0 THEN "out" ELSE "compare",
                                    value |-> inFlight]]
    /\ UNCHANGED <<queue, running, inFlight, push, worker, owner, log, promised, gaveUp>>

\* in_flight_.wait(v): asleep while the count is still v
Compare(w) ==
    /\ wait[w].at = "compare"
    /\ wait' = [wait EXCEPT ![w].at = IF inFlight = wait[w].value THEN "asleep" ELSE "load"]
    /\ UNCHANGED <<queue, running, inFlight, push, worker, owner, log, promised, gaveUp>>

WaitStep(w) == LoadCount(w) \/ Compare(w)

CloseQueue ==
    /\ owner = "closing"
    /\ accepting' = FALSE /\ owner' = "stopping"
    /\ UNCHANGED <<ring, head, tail, running, inFlight, push, worker, wait, log, promised, gaveUp>>

StopRunning ==
    /\ owner = "stopping"
    /\ running' = FALSE /\ owner' = "joining"
    /\ UNCHANGED <<queue, inFlight, push, worker, wait, log, promised, gaveUp>>

\* The worker is joined and the state deleted.  The caller of shutdown_logger()
\* sees to it that nobody is inside the logger any more.
Delete ==
    /\ owner = "joining" /\ worker.at = "exited"
    /\ \A p \in Producers : push[p].at = "out"
    /\ \A w \in Waiters : wait[w].at = "out"
    /\ owner' = "down"
    /\ UNCHANGED <<queue, running, inFlight, push, worker, wait, log, promised, gaveUp>>

StopStep == CloseQueue \/ StopRunning \/ Delete

-----------------------------------------------------------------------------
(* Correctness. *)

\* Every message is dispatched at most once and in the order of the claims,
\* whatever producers claim, publish and drop meanwhile, round and round the ring.
InClaimOrder == \A i \in DOMAIN log : log[i] = i - 1

\* wait_until_idle() is a barrier: at a count of zero nothing that was accepted is
\* still on its way to the sinks (logger_state.h: "accepted but not yet dispatched").
IdleIsABarrier == inFlight = 0 => Len(log) = tail

\* stop() loses nothing: a message accepted before stop() was called has been
\* dispatched when the worker is gone, unless the drain gave up on a producer
\* that never came back (logger_state.cpp:195-210).
NothingLostAtShutdown ==
    worker.at = "exited" /\ ~gaveUp => \A m \in promised : m < Len(log)

\* A wait returns, unless the worker left a message behind: one whose producer
\* passed the test of accepting_ before stop() and claimed its cell too late.
Stranded == worker.at = "exited" /\ head # tail
IdleWaitReturns == \A w \in Waiters : wait[w].at # "out" ~> (wait[w].at = "out" \/ Stranded)
====
