---- MODULE ForkJoin ----
(***************************************************************************)
(* The fork-join counter of wz::tasks: run(), wait() and the completion of *)
(* a task (src/tasks/task.cpp, task_scheduler.cpp and                      *)
(* window_engine/tasks/task.h).                                            *)
(*                                                                         *)
(* One Counter, on the stack of its one waiter: the engine thread (main)   *)
(* blocks in wait(); a task fibre parks and lets its worker go on.  Each   *)
(* atomic operation on the counter is one action: every access to it is an *)
(* acquire, a release or both.  The serial path, without a pool, is left   *)
(* out.                                                                    *)
(* The tasks that it joins are alike, so a worker's program counter stands *)
(* for its task.  Deques and wake-ups are abstracted: any idle worker may  *)
(* take a queued task, a resumable fibre first.                            *)
(***************************************************************************)
EXTENDS Naturals, FiniteSets

CONSTANTS
    Workers,     \* the pool's threads
    MaxTasks     \* bound: tasks run against the counter in a behaviour

ASSUME WorkersAssumption == IsFiniteSet(Workers) /\ Workers # {}
ASSUME TasksAssumption == MaxTasks \in Nat

VARIABLES
    main,        \* whether the engine thread waits, or a task fibre: chosen once
    outstanding, \* outstanding_
    waiter,      \* waiter_
    budget,      \* tasks that may still be run against the counter
    queued,      \* tasks in the deques and the injection queue
    wpc,         \* where the waiter is; "gone" once the counter's frame is
    unsent,      \* tasks armed and not yet submitted, in run()
    seen,        \* wait_on_main()'s v
    wk,          \* where each worker is
    v, w,        \* complete()'s v and w, on each worker
    resumable    \* entries of resumable_ (all of them the waiting fibre)

vars == <<main, outstanding, waiter, budget, queued, wpc, unsent, seen, wk, v, w, resumable>>
counter == <<outstanding, waiter>>
locals == <<v, w>>

Null == "null"
Fibre == "fibre"
Done == "kDone"

Working == {"body", "load", "loop", "claimed"}     \* its task's count is outstanding
Touching == {"load", "loop", "claimed", "restore"} \* complete() will touch the counter
Waiting == {"load", "wait", "blocked", "parking", "parked"}

Init ==
    /\ main \in BOOLEAN
    /\ outstanding = 0 /\ waiter = Null
    /\ budget = MaxTasks /\ queued = 0
    /\ wpc = "run" /\ unsent = 0 /\ seen = 0
    /\ v = [k \in Workers |-> 0] /\ w = [k \in Workers |-> Null]
    /\ resumable = 0
    /\ IF main THEN wk = [k \in Workers |-> "idle"]
               ELSE \E k \in Workers : wk = [l \in Workers |-> IF l = k THEN Fibre ELSE "idle"]

-----------------------------------------------------------------------------
(* The waiter.  A fibre runs only while some worker is switched to it. *)

Runs == main \/ \E k \in Workers : wk[k] = Fibre

\* run(c, n, ...): arm's fetch_add.
Arm(n) ==
    /\ Runs /\ wpc = "run" /\ n <= budget
    /\ budget' = budget - n
    /\ outstanding' = outstanding + n
    /\ unsent' = n
    /\ wpc' = IF outstanding = 0 THEN "reset" ELSE "submit"
    /\ UNCHANGED <<main, waiter, queued, seen, wk, locals, resumable>>

\* Variant: arm() leaves the slot as the last finisher left it.
KeepSlot ==
    /\ Runs /\ wpc = "reset"
    /\ wpc' = "submit"
    /\ UNCHANGED <<main, counter, budget, queued, unsent, seen, wk, locals, resumable>>

\* arm() found the counter drained: the parking slot is cleared.
Reset ==
    /\ Runs /\ wpc = "reset"
    /\ waiter' = Null
    /\ wpc' = "submit"
    /\ UNCHANGED <<main, outstanding, budget, queued, unsent, seen, wk, locals, resumable>>

Submit ==
    /\ Runs /\ wpc = "submit"
    /\ queued' = queued + 1
    /\ unsent' = unsent - 1
    /\ wpc' = IF unsent = 1 THEN "run" ELSE "submit"
    /\ UNCHANGED <<main, counter, budget, seen, wk, locals, resumable>>

Wait ==
    /\ Runs /\ wpc = "run"
    /\ wpc' = "load"
    /\ UNCHANGED <<main, counter, budget, queued, unsent, seen, wk, locals, resumable>>

\* The load of either wait loop.
WaitLoad ==
    /\ Runs /\ wpc = "load"
    /\ seen' = outstanding
    /\ wpc' = IF outstanding = 0 THEN "run" ELSE IF main THEN "wait" ELSE "parking"
    /\ UNCHANGED <<main, counter, budget, queued, unsent, wk, locals, resumable>>

\* Variant: blocks without comparing the count with the one it loaded.
BlockBlindly ==
    /\ main /\ wpc = "wait"
    /\ wpc' = "blocked"
    /\ UNCHANGED <<main, counter, budget, queued, unsent, seen, wk, locals, resumable>>

\* outstanding_.wait(v): compare and block in one step.
Block ==
    /\ main /\ wpc = "wait"
    /\ wpc' = IF outstanding = seen THEN "blocked" ELSE "load"
    /\ UNCHANGED <<main, counter, budget, queued, unsent, seen, wk, locals, resumable>>

\* The waiter's frame, and the counter in it, is gone; a fibre's task ends.
Return ==
    /\ Runs /\ wpc = "run" /\ outstanding = 0
    /\ wpc' = "gone"
    /\ wk' = [k \in Workers |-> IF wk[k] = Fibre THEN "idle" ELSE wk[k]]
    /\ UNCHANGED <<main, counter, budget, queued, unsent, seen, locals, resumable>>

WaiterStep == (\E n \in 1..MaxTasks : Arm(n)) \/ Reset \/ Submit \/ Wait \/ WaitLoad
              \/ Block \/ Return

-----------------------------------------------------------------------------
(* A worker. *)

\* Variant: a fibre that registered is made resumable as well.
RegisterAndPush(k) ==
    /\ wk[k] = Fibre /\ wpc = "parking"
    /\ wpc' = "parked"
    /\ wk' = [wk EXCEPT ![k] = "idle"]
    /\ waiter' = IF waiter = Null THEN Fibre ELSE waiter
    /\ resumable' = resumable + 1
    /\ UNCHANGED <<main, outstanding, budget, queued, unsent, seen, locals>>

\* run_fiber() after the fibre switched out to park: the registration.
Register(k) ==
    /\ wk[k] = Fibre /\ wpc = "parking"
    /\ wpc' = "parked"
    /\ wk' = [wk EXCEPT ![k] = "idle"]
    /\ \/ waiter = Null /\ waiter' = Fibre /\ UNCHANGED resumable
       \/ waiter # Null /\ resumable' = resumable + 1 /\ UNCHANGED waiter
    /\ UNCHANGED <<main, outstanding, budget, queued, unsent, seen, locals>>

\* try_run_one(): a resumable fibre first.
Resume(k) ==
    /\ wk[k] = "idle" /\ resumable > 0
    /\ resumable' = resumable - 1
    /\ wk' = [wk EXCEPT ![k] = Fibre]
    /\ wpc' = "load"
    /\ UNCHANGED <<main, counter, budget, queued, unsent, seen, locals>>

Take(k) ==
    /\ wk[k] = "idle" /\ resumable = 0 /\ queued > 0
    /\ queued' = queued - 1
    /\ wk' = [wk EXCEPT ![k] = "body"]
    /\ UNCHANGED <<main, counter, budget, wpc, unsent, seen, locals, resumable>>

\* A task's body runs one more task against the counter it is counted in.
Spawn(k) ==
    /\ wk[k] = "body" /\ budget > 0
    /\ budget' = budget - 1
    /\ outstanding' = outstanding + 1
    /\ queued' = queued + 1
    /\ UNCHANGED <<main, waiter, wpc, unsent, seen, wk, locals, resumable>>

BodyEnds(k) ==
    /\ wk[k] = "body"
    /\ wk' = [wk EXCEPT ![k] = "load"]
    /\ UNCHANGED <<main, counter, budget, queued, wpc, unsent, seen, locals, resumable>>

\* Variant: the count drops before the waiter is claimed.
LoadAndDrop(k) ==
    /\ wk[k] = "load"
    /\ outstanding' = outstanding - 1
    /\ v' = [v EXCEPT ![k] = outstanding]
    /\ wk' = [wk EXCEPT ![k] = IF outstanding = 1 THEN "loop" ELSE "idle"]
    /\ UNCHANGED <<main, waiter, budget, queued, wpc, unsent, seen, w, resumable>>

Load(k) ==
    /\ wk[k] = "load"
    /\ v' = [v EXCEPT ![k] = outstanding]
    /\ wk' = [wk EXCEPT ![k] = "loop"]
    /\ UNCHANGED <<main, counter, budget, queued, wpc, unsent, seen, w, resumable>>

\* The prospective finisher claims the parked fibre.
Claim(k) ==
    /\ wk[k] = "loop" /\ v[k] = 1
    /\ w' = [w EXCEPT ![k] = waiter]
    /\ waiter' = Done
    /\ wk' = [wk EXCEPT ![k] = "claimed"]
    /\ UNCHANGED <<main, outstanding, budget, queued, wpc, unsent, seen, v, resumable>>

\* Variant: zero is stored blindly.
PublishBlindly(k) ==
    /\ wk[k] = "claimed"
    /\ outstanding' = 0
    /\ wk' = [wk EXCEPT ![k] = "handoff"]
    /\ UNCHANGED <<main, waiter, budget, queued, wpc, unsent, seen, locals, resumable>>

\* ... and publishes zero, unless the counter was armed again meanwhile.
Publish(k) ==
    /\ wk[k] = "claimed"
    /\ \/ /\ outstanding = 1 /\ outstanding' = 0
          /\ wk' = [wk EXCEPT ![k] = "handoff"]
          /\ UNCHANGED v
       \/ /\ outstanding # 1 /\ v' = [v EXCEPT ![k] = outstanding]
          /\ wk' = [wk EXCEPT ![k] = "restore"]
          /\ UNCHANGED outstanding
    /\ UNCHANGED <<main, waiter, budget, queued, wpc, unsent, seen, w, resumable>>

\* Makes the claimed fibre resumable, if one was.
GiveBack(k) ==
    /\ resumable' = IF w[k] = Fibre THEN resumable + 1 ELSE resumable
    /\ w' = [w EXCEPT ![k] = Null]

Handoff(k) ==
    /\ wk[k] = "handoff"
    /\ GiveBack(k)
    /\ wpc' = IF wpc = "blocked" THEN "load" ELSE wpc
    /\ wk' = [wk EXCEPT ![k] = "idle"]
    /\ UNCHANGED <<main, counter, budget, queued, unsent, seen, v>>

Restore(k) ==
    /\ wk[k] = "restore"
    /\ waiter' = Null
    /\ GiveBack(k)
    /\ wk' = [wk EXCEPT ![k] = "loop"]
    /\ UNCHANGED <<main, outstanding, budget, queued, wpc, unsent, seen, v>>

\* The plain decrement; a failed CAS reloads v.
Decrement(k) ==
    /\ wk[k] = "loop" /\ v[k] # 1
    /\ \/ /\ outstanding = v[k] /\ outstanding' = v[k] - 1
          /\ wk' = [wk EXCEPT ![k] = "idle"]
          /\ UNCHANGED v
       \/ /\ outstanding # v[k] /\ v' = [v EXCEPT ![k] = outstanding]
          /\ UNCHANGED <<outstanding, wk>>
    /\ UNCHANGED <<main, waiter, budget, queued, wpc, unsent, seen, w, resumable>>

Works(k) == Register(k) \/ Resume(k) \/ Take(k) \/ BodyEnds(k) \/ Load(k) \/ Claim(k)
            \/ Publish(k) \/ Handoff(k) \/ Restore(k) \/ Decrement(k)

Next == WaiterStep \/ \E k \in Workers : Works(k) \/ Spawn(k)

\* A thread that can step does, and a task's body ends.  Nothing obliges the
\* waiter to run more tasks or to return.
Fairness ==
    /\ WF_vars(Reset \/ Submit \/ WaitLoad \/ Block)
    /\ \A k \in Workers : WF_vars(Works(k))

Spec == Init /\ [][Next]_vars
FairSpec == Spec /\ Fairness
-----------------------------------------------------------------------------
TypeOK ==
    /\ main \in BOOLEAN
    /\ outstanding \in Nat /\ waiter \in {Null, Fibre, Done}
    /\ budget \in Nat /\ queued \in Nat /\ resumable \in Nat
    /\ wpc \in Waiting \union {"run", "reset", "submit", "gone"}
    /\ unsent \in Nat /\ seen \in Nat
    /\ wk \in [Workers -> Working \union {"idle", "handoff", "restore", Fibre}]
    /\ v \in [Workers -> Nat] /\ w \in [Workers -> {Null, Fibre, Done}]

\* The workers whose task is counted and taken from its queue.
Counted == {k \in Workers : wk[k] \in Working \union {"restore"}}

\* The count is the tasks armed and not completed: a lost or doubled count is
\* a wait() that returns early or never.
CountIsExact == outstanding = unsent + queued + Cardinality(Counted)

\* wait() returns only when every task run against the counter is done, however
\* many batches and spawned tasks it joins (task.h, "several run() batches").
JoinIsComplete == [][wpc = "load" /\ wpc' = "run" => queued = 0 /\ Counted = {}]_vars

\* Once the waiter has returned and its frame is gone, no completion reads or
\* writes the counter (the lifetime hazard of TaskScheduler::complete).
NoTouchAfterFree == wpc = "gone" => \A k \in Workers : wk[k] \notin Touching

\* The workers switched to the fibre, and those that have claimed it.
Switched == {k \in Workers : wk[k] = Fibre}
Claimants == {k \in Workers : w[k] = Fibre}

\* The waiting fibre is in exactly one place: running, registered, claimed or
\* resumable.  Twice would run one stack on two threads, nowhere would hang it.
FibreInOnePlace ==
    Cardinality(Switched) + Cardinality(Claimants) + resumable + (IF waiter = Fibre THEN 1 ELSE 0)
    = (IF main \/ wpc = "gone" THEN 0 ELSE 1)

\* While a task is outstanding the parking slot holds the mark of a drained counter
\* only in passing: between a finisher's claim and its publish or unwind, or before
\* arm() has cleared it.  A mark left behind would send every fibre that parks on a
\* counter used again straight back to its worker (task.h:96-109).
SlotIsFresh ==
    outstanding > 0 /\ waiter = Done =>
        wpc = "reset" \/ \E k \in Workers : wk[k] \in {"claimed", "restore"}

\* A wait() ends once the tasks do: no notification, claim or park is lost, and
\* a parked fibre never keeps the worker it needs.
WaitReturns == wpc \in Waiting ~> wpc = "run"
====
