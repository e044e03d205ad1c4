---- MODULE TaskPool ----
(***************************************************************************)
(* How the workers of the task pool find work, sleep and stop:             *)
(* src/tasks/task_scheduler.cpp with its injection queue,                  *)
(* window_engine/containers/mpsc_queue.h.                                  *)
(*                                                                         *)
(* Threads outside the pool submit through the injection queue, which one  *)
(* worker at a time drains into its own deque; a worker's tasks submit to  *)
(* its deque directly, and wait for what they submitted by parking.        *)
(* A deque is atomic here (WorkStealingDeque refines WorkDeque), and so is *)
(* the join of a task with its children (ForkJoin).  The 64 further tries  *)
(* before a worker locks repeat the first one and are left out.            *)
(***************************************************************************)
EXTENDS Integers, Sequences, FiniteSets, SequencesExt

CONSTANTS
    Workers,     \* the pool's threads
    Submitters,  \* threads outside the pool that run() tasks
    None,        \* no worker
    TaskLimit    \* bound: tasks in a behaviour

ASSUME WorkersAssumption == Workers # {} /\ None \notin Workers \cup Submitters
ASSUME LimitAssumption == TaskLimit \in Nat

VARIABLES
    running,     \* running_
    mutex,       \* who holds mutex_ beyond one action
    resumable,   \* resumable_, by task
    nodes,       \* injection_: every node linked in so far, [task, by, born]
    linked,      \* the nodes whose predecessor points to them
    head,        \* the node head points to; 0 is the dummy
    token,       \* injection_drain_lock_
    deque,       \* deques_
    wk,          \* where each worker is
    cur,         \* the task a worker runs or moves; 0 for none
    seen,        \* the head it loaded
    scan,        \* the deques it has yet to look into
    sub,         \* where each submitter is
    made,        \* tasks submitted: 1..made
    parent,      \* the task that submitted each, 0 for none
    parked,      \* tasks that wait for their children
    done         \* tasks completed

injection == <<nodes, linked, head>>
locals == <<cur, seen, scan>>
fate == <<parent, parked, done>>
poolVars == <<running, mutex, resumable, injection, token, deque, wk, locals, sub, made, fate>>

Ids == 1..TaskLimit
NoId == 0

PoolInit ==
    /\ running = TRUE /\ mutex = None /\ resumable = <<>>
    /\ nodes = <<>> /\ linked = {} /\ head = 0
    /\ token = FALSE
    /\ deque = [k \in Workers |-> <<>>]
    /\ wk = [k \in Workers |-> "top"]
    /\ cur = [k \in Workers |-> NoId] /\ seen = [k \in Workers |-> 0]
    /\ scan = [k \in Workers |-> {}]
    /\ sub = [u \in Submitters |-> "idle"]
    /\ made = 0 /\ parent = [t \in Ids |-> NoId]
    /\ parked = {} /\ done = {}

Go(k, to) == wk' = [wk EXCEPT ![k] = to]

\* cv_.notify_one(), by worker k on its way to `to`, or by an outsider (k = None).
Sleepers == {k \in Workers : wk[k] = "asleep"}

NotifyOne(k, to) ==
    LET moved == [l \in Workers |-> IF l = k THEN to ELSE wk[l]]
    IN  IF Sleepers = {} THEN wk' = moved
        ELSE \E l \in Sleepers : wk' = [moved EXCEPT ![l] = "woken"]

-----------------------------------------------------------------------------
(* The injection queue.                                                    *)

\* A thread outside the pool submits: tail.exchange.
Exchange(u) ==
    /\ running /\ sub[u] = "idle" /\ made < TaskLimit
    /\ made' = made + 1
    /\ nodes' = Append(nodes, [task |-> made + 1, by |-> u, born |-> head])
    /\ sub' = [sub EXCEPT ![u] = "link"]
    /\ UNCHANGED <<running, mutex, resumable, linked, head, token, deque, wk, locals, fate>>

\* prev->next.store
Link(u) ==
    /\ sub[u] = "link"
    /\ linked' = linked \cup {CHOOSE n \in DOMAIN nodes :
                                nodes[n].by = u /\ n \notin linked}
    /\ sub' = [sub EXCEPT ![u] = "notify"]
    /\ UNCHANGED <<running, mutex, resumable, nodes, head, token, deque, wk, locals, made, fate>>

\* Variant: nobody is woken.
NotifyNobody(u) ==
    /\ sub[u] = "notify" /\ mutex = None
    /\ sub' = [sub EXCEPT ![u] = "idle"]
    /\ UNCHANGED <<running, mutex, resumable, injection, token, deque, wk, locals, made, fate>>

\* submit()'s wake-up.
Notify(u) ==
    /\ sub[u] = "notify" /\ mutex = None
    /\ NotifyOne(None, "asleep")
    /\ sub' = [sub EXCEPT ![u] = "idle"]
    /\ UNCHANGED <<running, mutex, resumable, injection, token, deque, locals, made, fate>>

\* What empty() may answer, with the head it loaded before the tail: a tail node
\* allocated after that head was freed may have its address.
SaysEmpty(h, answer) ==
    IF answer THEN Len(nodes) = h \/ (nodes # <<>> /\ Last(nodes).born > h)
              ELSE Len(nodes) # h

-----------------------------------------------------------------------------
(* A worker looks for work: try_run_one().                                 *)

\* The loop's head, then pop_resumable().
TakeResumable(k) ==
    /\ wk[k] = "top" /\ running /\ mutex = None
    /\ IF resumable = <<>>
       THEN Go(k, "drain") /\ UNCHANGED <<resumable, cur>>
       ELSE /\ cur' = [cur EXCEPT ![k] = Head(resumable)]
            /\ resumable' = Tail(resumable)
            /\ Go(k, "body")
    /\ UNCHANGED <<running, mutex, injection, token, deque, seen, scan, sub, made, fate>>

\* drain_injection(): empty()'s two loads.
DrainHead(k) ==
    /\ wk[k] = "drain"
    /\ seen' = [seen EXCEPT ![k] = head]
    /\ Go(k, "drainTail")
    /\ UNCHANGED <<running, mutex, resumable, injection, token, deque, cur, scan, sub, made, fate>>

DrainTail(k) ==
    /\ wk[k] = "drainTail"
    /\ \E empty \in BOOLEAN :
        SaysEmpty(seen[k], empty) /\ Go(k, IF empty THEN "pop" ELSE "token")
    /\ seen' = [seen EXCEPT ![k] = 0]
    /\ UNCHANGED <<running, mutex, resumable, injection, token, deque, cur, scan, sub, made, fate>>

\* Variant: the token is taken without looking whether it is free.
TakeTokenBlindly(k) ==
    /\ wk[k] = "token"
    /\ token' = TRUE
    /\ Go(k, "draining")
    /\ UNCHANGED <<running, mutex, resumable, injection, deque, locals, sub, made, fate>>

TakeToken(k) ==
    /\ wk[k] = "token"
    /\ token' = TRUE
    /\ Go(k, IF token THEN "pop" ELSE "draining")
    /\ UNCHANGED <<running, mutex, resumable, injection, deque, locals, sub, made, fate>>

\* try_pop(): the loads of head and of its next,
DrainRead(k) ==
    /\ wk[k] = "draining"
    /\ IF head + 1 \in linked
       THEN /\ cur' = [cur EXCEPT ![k] = nodes[head + 1].task]
            /\ seen' = [seen EXCEPT ![k] = head]
            /\ Go(k, "advance")
       ELSE Go(k, "release") /\ UNCHANGED <<cur, seen>>
    /\ UNCHANGED <<running, mutex, resumable, injection, token, deque, scan, sub, made, fate>>

\* ... the store of head,
DrainAdvance(k) ==
    /\ wk[k] = "advance"
    /\ head' = seen[k] + 1
    /\ seen' = [seen EXCEPT ![k] = 0]
    /\ Go(k, "own")
    /\ UNCHANGED <<running, mutex, resumable, nodes, linked, token, deque, cur, scan, sub, made, fate>>

\* ... and the push into the worker's own deque.
DrainPush(k) ==
    /\ wk[k] = "own"
    /\ deque' = [deque EXCEPT ![k] = Append(@, cur[k])]
    /\ cur' = [cur EXCEPT ![k] = NoId]
    /\ Go(k, "draining")
    /\ UNCHANGED <<running, mutex, resumable, injection, token, seen, scan, sub, made, fate>>

ReleaseToken(k) ==
    /\ wk[k] = "release"
    /\ token' = FALSE
    /\ Go(k, "pop")
    /\ UNCHANGED <<running, mutex, resumable, injection, deque, locals, sub, made, fate>>

\* pop_or_steal(): the own deque's back,
Pop(k) ==
    /\ wk[k] = "pop"
    /\ IF deque[k] = <<>>
       THEN /\ scan' = [scan EXCEPT ![k] = Workers \ {k}]
            /\ Go(k, "steal")
            /\ UNCHANGED <<deque, cur>>
       ELSE /\ cur' = [cur EXCEPT ![k] = Last(deque[k])]
            /\ deque' = [deque EXCEPT ![k] = Front(@)]
            /\ Go(k, "body")
            /\ UNCHANGED scan
    /\ UNCHANGED <<running, mutex, resumable, injection, token, seen, sub, made, fate>>

\* ... then the front of the others, in whatever order.
Steal(k) ==
    /\ wk[k] = "steal"
    /\ \/ /\ scan[k] = {}
          /\ Go(k, "lock")
          /\ UNCHANGED <<deque, cur, scan>>
       \/ \E victim \in scan[k] :
            IF deque[victim] = <<>>
            THEN /\ scan' = [scan EXCEPT ![k] = @ \ {victim}]
                 /\ UNCHANGED <<deque, cur, wk>>
            ELSE /\ cur' = [cur EXCEPT ![k] = Head(deque[victim])]
                 /\ deque' = [deque EXCEPT ![victim] = Tail(@)]
                 /\ scan' = [scan EXCEPT ![k] = {}]
                 /\ Go(k, "body")
    /\ UNCHANGED <<running, mutex, resumable, injection, token, seen, sub, made, fate>>

-----------------------------------------------------------------------------
(* A worker goes to sleep.                                                 *)

\* The lock, running_ again, and has_any_work() as far as the resumable list.
Lock(k) ==
    /\ wk[k] = "lock" /\ mutex = None
    /\ IF running /\ resumable = <<>>
       THEN mutex' = k /\ Go(k, "check")
       ELSE Go(k, IF running THEN "top" ELSE "out") /\ UNCHANGED mutex
    /\ UNCHANGED <<running, resumable, injection, token, deque, locals, sub, made, fate>>

CheckHead(k) ==
    /\ wk[k] = "check"
    /\ seen' = [seen EXCEPT ![k] = head]
    /\ Go(k, "checkTail")
    /\ UNCHANGED <<running, mutex, resumable, injection, token, deque, cur, scan, sub, made, fate>>

CheckTail(k) ==
    /\ wk[k] = "checkTail"
    /\ \E empty \in BOOLEAN :
        /\ SaysEmpty(seen[k], empty)
        /\ IF empty
           THEN /\ scan' = [scan EXCEPT ![k] = Workers]
                /\ Go(k, "checkDeques") /\ UNCHANGED mutex
           ELSE mutex' = None /\ Go(k, "top") /\ UNCHANGED scan
    /\ seen' = [seen EXCEPT ![k] = 0]
    /\ UNCHANGED <<running, resumable, injection, token, deque, cur, sub, made, fate>>

\* The deques, in whatever order; cv_.wait() when all are empty.
CheckDeques(k) ==
    /\ wk[k] = "checkDeques"
    /\ \/ /\ scan[k] = {}
          /\ mutex' = None /\ Go(k, "asleep")
          /\ UNCHANGED scan
       \/ \E victim \in scan[k] :
            IF deque[victim] = <<>>
            THEN scan' = [scan EXCEPT ![k] = @ \ {victim}] /\ UNCHANGED <<mutex, wk>>
            ELSE scan' = [scan EXCEPT ![k] = {}] /\ mutex' = None /\ Go(k, "top")
    /\ UNCHANGED <<running, resumable, injection, token, deque, cur, seen, sub, made, fate>>

\* cv_.wait() returns once it has the mutex; nothing is tested before the next round.
Wake(k) ==
    /\ wk[k] = "woken" /\ mutex = None
    /\ Go(k, "top")
    /\ UNCHANGED <<running, mutex, resumable, injection, token, deque, locals, sub, made, fate>>

WakeSpuriously(k) ==
    /\ wk[k] = "asleep"
    /\ Go(k, "woken")
    /\ UNCHANGED <<running, mutex, resumable, injection, token, deque, locals, sub, made, fate>>

-----------------------------------------------------------------------------
(* A worker runs a task.                                                   *)

Children(t) == {c \in 1..made : parent[c] = t}

\* The body submits a task to this worker's deque,
Spawn(k) ==
    /\ wk[k] = "body" /\ made < TaskLimit
    /\ made' = made + 1
    /\ parent' = [parent EXCEPT ![made + 1] = cur[k]]
    /\ deque' = [deque EXCEPT ![k] = Append(@, made + 1)]
    /\ Go(k, "notify")
    /\ UNCHANGED <<running, mutex, resumable, injection, token, locals, sub, parked, done>>

\* ... with its wake-up,
NotifySpawn(k) ==
    /\ wk[k] = "notify" /\ mutex = None
    /\ NotifyOne(k, "body")
    /\ UNCHANGED <<running, mutex, resumable, injection, token, deque, locals, sub, made, fate>>

\* ... parks while a child of it is outstanding,
Park(k) ==
    /\ wk[k] = "body" /\ ~(Children(cur[k]) \subseteq done)
    /\ parked' = parked \cup {cur[k]}
    /\ cur' = [cur EXCEPT ![k] = NoId]
    /\ Go(k, "top")
    /\ UNCHANGED <<running, mutex, resumable, injection, token, deque, seen, scan, sub, made,
                   parent, done>>

\* ... or ends.  The last child of a parked task brings its fibre back.
Complete(k) ==
    /\ wk[k] = "body" /\ Children(cur[k]) \subseteq done
    /\ done' = done \cup {cur[k]}
    /\ LET p == parent[cur[k]]
       IN  IF p \in parked /\ Children(p) \subseteq done'
           THEN /\ cur' = [cur EXCEPT ![k] = p] /\ parked' = parked \ {p}
                /\ Go(k, "resume")
           ELSE /\ cur' = [cur EXCEPT ![k] = NoId] /\ UNCHANGED parked
                /\ Go(k, "top")
    /\ UNCHANGED <<running, mutex, resumable, injection, token, deque, seen, scan, sub, made,
                   parent>>

\* push_resumable()
Resume(k) ==
    /\ wk[k] = "resume" /\ mutex = None
    /\ resumable' = Append(resumable, cur[k])
    /\ cur' = [cur EXCEPT ![k] = NoId]
    /\ NotifyOne(k, "top")
    /\ UNCHANGED <<running, mutex, injection, token, deque, seen, scan, sub, made, fate>>

-----------------------------------------------------------------------------
(* The destructor, whose contract is that no work is in flight.            *)

Idle == done = 1..made /\ \A u \in Submitters : sub[u] = "idle"

\* Variant: running_ is cleared and everyone woken without the lock.
StopUnlocked ==
    /\ running /\ Idle
    /\ running' = FALSE
    /\ wk' = [k \in Workers |-> IF k \in Sleepers THEN "woken" ELSE wk[k]]
    /\ UNCHANGED <<mutex, resumable, injection, token, deque, locals, sub, made, fate>>

Stop ==
    /\ running /\ Idle /\ mutex = None
    /\ running' = FALSE
    /\ wk' = [k \in Workers |-> IF k \in Sleepers THEN "woken" ELSE wk[k]]
    /\ UNCHANGED <<mutex, resumable, injection, token, deque, locals, sub, made, fate>>

Exit(k) ==
    /\ wk[k] = "top" /\ ~running
    /\ Go(k, "out")
    /\ UNCHANGED <<running, mutex, resumable, injection, token, deque, locals, sub, made, fate>>

-----------------------------------------------------------------------------
Look(k) ==
    \/ TakeResumable(k) \/ DrainHead(k) \/ DrainTail(k) \/ TakeToken(k)
    \/ DrainRead(k) \/ DrainAdvance(k) \/ DrainPush(k) \/ ReleaseToken(k)
    \/ Pop(k) \/ Steal(k)

Doze(k) == Lock(k) \/ CheckHead(k) \/ CheckTail(k) \/ CheckDeques(k) \/ Wake(k) \/ Exit(k)

Work(k) == Spawn(k) \/ NotifySpawn(k) \/ Park(k) \/ Complete(k) \/ Resume(k)

Submit(u) == Link(u) \/ Notify(u)

PoolNext ==
    \/ \E k \in Workers : Look(k) \/ Doze(k) \/ Work(k) \/ WakeSpuriously(k)
    \/ \E u \in Submitters : Exchange(u) \/ Submit(u)
    \/ Stop

PoolSpec == PoolInit /\ [][PoolNext]_poolVars

\* Threads that can take a step again and again take one: strongly fair, because the
\* mutex a thread waits for is free only now and then while sleepers wake spuriously.
\* Nobody need submit or stop the pool, nor wake up without being notified.
PoolFairness ==
    /\ \A k \in Workers : SF_poolVars(Look(k) \/ Doze(k) \/ Work(k))
    /\ \A u \in Submitters : SF_poolVars(Submit(u))

FairPoolSpec == PoolSpec /\ PoolFairness

-----------------------------------------------------------------------------
\* Where a task is: in the injection queue, in a worker's hands (a node being popped
\* is still in the queue), in a deque, on the resumable list or parked.
Places(t) ==
    Cardinality({n \in DOMAIN nodes : n > head /\ nodes[n].task = t})
    + Cardinality({k \in Workers : cur[k] = t /\ wk[k] # "advance"})
    + Cardinality(UNION {{k} \X {i \in DOMAIN deque[k] : deque[k][i] = t} : k \in Workers})
    + Cardinality({i \in DOMAIN resumable : resumable[i] = t})
    + Cardinality({t} \cap parked)

\* A task is in one place until it completes, and nowhere after: it is not lost and
\* not run twice on its way from queue to deque to worker to list, with every worker
\* a possible consumer of the single-consumer queue.
EachTaskInOnePlace ==
    \A t \in 1..made : Places(t) = IF t \in done THEN 0 ELSE 1

\* A submitted task completes.
SubmittedCompletes == \A t \in Ids : made >= t ~> t \in done

\* The destructor returns: every worker leaves its loop.
DestructorReturns == ~running ~> \A k \in Workers : wk[k] = "out"
====
