---- MODULE IoExecutor ----
(***************************************************************************)
(* The IO lane, src/io/io_executor.cpp: dedicated blocking threads over a  *)
(* queue guarded by one mutex.  A hold of mutex_ is one action; cv_ and    *)
(* idle_cv_ are the workers and the quiescer asleep on them; a notify that *)
(* follows an unlock is a step of its own.  A job may throw.               *)
(***************************************************************************)
EXTENDS Sequences, FiniteSets, Integers

CONSTANTS
    Workers,     \* threads_
    Jobs,        \* closures, each posted at most once
    NoJob        \* a worker that holds no closure

ASSUME NoJobAssumption == NoJob \notin Jobs
ASSUME WorkersAssumption == IsFiniteSet(Workers) /\ Workers # {}

VARIABLES
    queue,       \* queue_
    accepting,   \* accepting_
    running,     \* running_
    inFlight,    \* in_flight_
    wpc,         \* where each worker is in worker_main()
    held,        \* the closure in each worker's local `job`
    asleep,      \* workers asleep on cv_
    fate,        \* what became of each job
    posting,     \* jobs whose post() still owes its notify_one
    quiescer,    \* the thread inside quiesce()
    dtor         \* the thread inside ~IoExecutor()

lane == <<queue, accepting, running, inFlight>>
threads == <<wpc, held, asleep>>
vars == <<lane, threads, fate, posting, quiescer, dtor>>

Init ==
    /\ queue = <<>> /\ accepting = TRUE /\ running = TRUE /\ inFlight = 0
    /\ wpc = [w \in Workers |-> "wait"]
    /\ held = [w \in Workers |-> NoJob]
    /\ asleep = {}
    /\ fate = [j \in Jobs |-> "new"]
    /\ posting = {}
    /\ quiescer = "idle" /\ dtor = "idle"

-----------------------------------------------------------------------------
(* post()                                                                  *)

Accept(j) ==
    /\ fate[j] = "new" /\ dtor # "done"
    /\ accepting
    /\ queue' = Append(queue, j)
    /\ fate' = [fate EXCEPT ![j] = "queued"]
    /\ posting' = posting \cup {j}
    /\ UNCHANGED <<accepting, running, inFlight, threads, quiescer, dtor>>

Refuse(j) ==
    /\ fate[j] = "new" /\ dtor # "done"
    /\ ~accepting
    /\ fate' = [fate EXCEPT ![j] = "refused"]
    /\ UNCHANGED <<lane, threads, posting, quiescer, dtor>>

\* cv_.notify_one(): some worker asleep on cv_, if there is one.
NotifyOne(j) ==
    /\ j \in posting
    /\ posting' = posting \ {j}
    /\ IF asleep = {} THEN UNCHANGED asleep
                      ELSE \E w \in asleep : asleep' = asleep \ {w}
    /\ UNCHANGED <<lane, wpc, held, fate, quiescer, dtor>>

-----------------------------------------------------------------------------
(* worker_main()                                                           *)

MayRun(w) == ~running \/ queue # <<>>

Sleep(w) ==
    /\ wpc[w] = "wait" /\ w \notin asleep
    /\ ~MayRun(w)
    /\ asleep' = asleep \cup {w}
    /\ UNCHANGED <<lane, wpc, held, fate, posting, quiescer, dtor>>

\* Variant: the closure is copied and left in the queue.
TakeWithoutPop(w) ==
    /\ wpc[w] = "wait" /\ queue # <<>>
    /\ held' = [held EXCEPT ![w] = Head(queue)]
    /\ inFlight' = inFlight + 1
    /\ wpc' = [wpc EXCEPT ![w] = "run"]
    /\ asleep' = asleep \ {w}
    /\ fate' = [fate EXCEPT ![Head(queue)] = "running"]
    /\ UNCHANGED <<queue, accepting, running, posting, quiescer, dtor>>

\* The wait is over and the queue holds a job: pop it and count it, in one hold
\* of the lock.
Take(w) ==
    /\ wpc[w] = "wait" /\ queue # <<>>
    /\ held' = [held EXCEPT ![w] = Head(queue)]
    /\ queue' = Tail(queue)
    /\ inFlight' = inFlight + 1
    /\ wpc' = [wpc EXCEPT ![w] = "run"]
    /\ asleep' = asleep \ {w}
    /\ fate' = [fate EXCEPT ![Head(queue)] = "running"]
    /\ UNCHANGED <<accepting, running, posting, quiescer, dtor>>

\* The job ends, returning or throwing, and its closure is dropped.
Run(w) ==
    /\ wpc[w] = "run"
    /\ \E f \in {"done", "threw"} : fate' = [fate EXCEPT ![held[w]] = f]
    /\ held' = [held EXCEPT ![w] = NoJob]
    /\ wpc' = [wpc EXCEPT ![w] = "leave"]
    /\ UNCHANGED <<lane, asleep, posting, quiescer, dtor>>

\* Variant: an exception skips the decrement.
LeaveUnlessThrown(w) ==
    /\ wpc[w] = "leave"
    /\ \/ inFlight' = inFlight - 1
       \/ (\E j \in Jobs : fate[j] = "threw") /\ UNCHANGED inFlight
    /\ wpc' = [wpc EXCEPT ![w] = "notify"]
    /\ UNCHANGED <<queue, accepting, running, held, asleep, fate, posting,
                   quiescer, dtor>>

\* ~InFlightScope(), its hold of the lock, on either way out of the job.
Leave(w) ==
    /\ wpc[w] = "leave"
    /\ inFlight' = inFlight - 1
    /\ wpc' = [wpc EXCEPT ![w] = "notify"]
    /\ UNCHANGED <<queue, accepting, running, held, asleep, fate, posting,
                   quiescer, dtor>>

\* Its notify_all on idle_cv_.
NotifyIdle(w) ==
    /\ wpc[w] = "notify"
    /\ wpc' = [wpc EXCEPT ![w] = "wait"]
    /\ quiescer' = IF quiescer = "asleep" THEN "waiting" ELSE quiescer
    /\ UNCHANGED <<lane, held, asleep, fate, posting, dtor>>

\* The wait is over and the queue is empty: the thread leaves.
Exit(w) ==
    /\ wpc[w] = "wait" /\ ~running /\ queue = <<>>
    /\ wpc' = [wpc EXCEPT ![w] = "exited"]
    /\ asleep' = asleep \ {w}
    /\ UNCHANGED <<lane, held, fate, posting, quiescer, dtor>>

-----------------------------------------------------------------------------
(* quiesce()                                                               *)

Quiesce ==
    /\ quiescer = "idle" /\ dtor = "idle"
    /\ accepting' = FALSE
    /\ quiescer' = "waiting"
    /\ UNCHANGED <<queue, running, inFlight, threads, fate, posting, dtor>>

Drained == queue = <<>> /\ inFlight = 0

QuiesceSleep ==
    /\ quiescer = "waiting" /\ ~Drained
    /\ quiescer' = "asleep"
    /\ UNCHANGED <<lane, threads, fate, posting, dtor>>

QuiesceReturn ==
    /\ quiescer = "waiting" /\ Drained
    /\ quiescer' = "returned"
    /\ UNCHANGED <<lane, threads, fate, posting, dtor>>

-----------------------------------------------------------------------------
(* ~IoExecutor(), never while quiesce() is running in its owner.           *)

Stop ==
    /\ dtor = "idle" /\ quiescer \in {"idle", "returned"}
    /\ accepting' = FALSE /\ running' = FALSE
    /\ dtor' = "notify"
    /\ UNCHANGED <<queue, inFlight, threads, fate, posting, quiescer>>

\* Variant: a notify_one.
NotifyOneWorker ==
    /\ dtor = "notify"
    /\ dtor' = "join"
    /\ IF asleep = {} THEN UNCHANGED asleep
                      ELSE \E w \in asleep : asleep' = asleep \ {w}
    /\ UNCHANGED <<lane, wpc, held, fate, posting, quiescer>>

\* The destructor's notify_all on cv_.
NotifyAll ==
    /\ dtor = "notify"
    /\ dtor' = "join"
    /\ asleep' = {}
    /\ UNCHANGED <<lane, wpc, held, fate, posting, quiescer>>

Join ==
    /\ dtor = "join"
    /\ \A w \in Workers : wpc[w] = "exited"
    /\ dtor' = "done"
    /\ UNCHANGED <<lane, threads, fate, posting, quiescer>>

-----------------------------------------------------------------------------
AwakeStep(w) == w \notin asleep /\ (Sleep(w) \/ Take(w) \/ Exit(w))
BusyStep(w)  == Run(w) \/ Leave(w) \/ NotifyIdle(w)
PostStep(j)  == Accept(j) \/ Refuse(j) \/ NotifyOne(j)

WorkerNext == \E w \in Workers :
                Sleep(w) \/ Take(w) \/ Exit(w) \/ BusyStep(w)

Next ==
    \/ \E j \in Jobs : PostStep(j)
    \/ WorkerNext
    \/ Quiesce \/ QuiesceSleep \/ QuiesceReturn
    \/ Stop \/ NotifyAll \/ Join

Spec == Init /\ [][Next]_vars

\* Every started thread keeps running and a job eventually ends; a sleeping
\* worker runs only once notified, so a spurious wake-up is never relied on.
\* Nothing obliges anybody to post, to quiesce or to destroy.
Fairness ==
    /\ \A w \in Workers : WF_vars(AwakeStep(w)) /\ WF_vars(BusyStep(w))
    /\ \A j \in Jobs : WF_vars(NotifyOne(j))
    /\ WF_vars(QuiesceSleep \/ QuiesceReturn)
    /\ WF_vars(NotifyAll) /\ WF_vars(Join)

FairSpec == Spec /\ Fairness

-----------------------------------------------------------------------------
TypeOK ==
    /\ queue \in Seq(Jobs)
    /\ accepting \in BOOLEAN /\ running \in BOOLEAN
    /\ inFlight \in Nat
    /\ wpc \in [Workers -> {"wait", "run", "leave", "notify", "exited"}]
    /\ held \in [Workers -> Jobs \cup {NoJob}]
    /\ asleep \subseteq Workers
    /\ fate \in [Jobs -> {"new", "queued", "refused", "running", "done", "threw"}]
    /\ posting \subseteq Jobs
    /\ quiescer \in {"idle", "waiting", "asleep", "returned"}
    /\ dtor \in {"idle", "notify", "join", "done"}

\* quiesce() is a barrier: once it has returned no worker is inside a job or
\* still holds one's closure, and none is queued -- however many jobs are posted
\* afterwards (io_executor.cpp:58-61).
QuiesceIsABarrier ==
    quiescer = "returned" =>
        /\ queue = <<>>
        /\ \A w \in Workers : held[w] = NoJob
        /\ \A j \in Jobs : fate[j] \notin {"queued", "running"}

\* Destruction drains: when the join is over every accepted job has run
\* (io_executor.h, "a closure posted before shutdown always runs").
DestructionDrains == dtor = "done" => \A j \in Jobs : fate[j] \notin {"queued", "running"}

\* A single notify_one per post is enough: while a worker sleeps, every queued
\* job has an awake worker at the wait or a notify on its way, so no job sits
\* behind a busy thread next to a sleeping one.
NoJobLeftAsleep ==
    asleep # {} =>
        Len(queue) =< Cardinality(posting)
                      + Cardinality({w \in Workers \ asleep : wpc[w] = "wait"})
                      + (IF dtor = "notify" THEN Cardinality(asleep) ELSE 0)

\* quiesce() returns, whether the jobs it waits out return or throw.
QuiesceReturns == quiescer = "waiting" ~> quiescer = "returned"

\* The destructor returns.
DestructorReturns == dtor = "notify" ~> dtor = "done"

\* Every step is a step of the abstract lane: accepted jobs start once each, in
\* order, and the lane is reported quiet only when it is.
Lane == INSTANCE JobLane WITH backlog <- queue,
                              closed <- ~accepting,
                              quiet <- quiescer = "returned"
ImplementsJobLane == Lane!Spec
====
