---- MODULE IoExecutorProofs ----
(***************************************************************************)
(* The IO lane for any number of threads and jobs: quiesce() is a barrier, *)
(* destruction drains, and the lane implements JobLane.                    *)
(***************************************************************************)
EXTENDS IoExecutor, FiniteSetTheorems, SequenceTheorems, TLAPS

\* The queue holds the queued jobs, each once.
QueueHoldsQueued ==
    /\ \A i \in 1 .. Len(queue) : fate[queue[i]] = "queued"
    /\ \A i, k \in 1 .. Len(queue) : queue[i] = queue[k] => i = k
    /\ \A j \in Jobs : fate[j] = "queued" => \E i \in 1 .. Len(queue) : queue[i] = j

\* The workers that run hold the running jobs, each its own; no other worker
\* holds a closure.
WorkersHoldRunning ==
    /\ \A w \in Workers : IF wpc[w] = "run" THEN held[w] \in Jobs /\ fate[held[w]] = "running"
                                            ELSE held[w] = NoJob
    /\ \A v, w \in Workers : wpc[v] = "run" /\ held[v] = held[w] => v = w
    /\ \A j \in Jobs : fate[j] = "running" => \E w \in Workers : wpc[w] = "run" /\ held[w] = j

\* in_flight_ counts the workers between a pop and the end of the scope guard.
Busy == {w \in Workers : wpc[w] \in {"run", "leave"}}
CountIsBusy == inFlight = Cardinality(Busy)

\* How far the shutdown is: whoever has begun it has closed the lane, and a
\* worker leaves, or quiesce() returns, only on a queue that stays empty.
ShutdownInOrder ==
    /\ quiescer # "idle" \/ ~running => ~accepting
    /\ running <=> dtor = "idle"
    /\ \A w \in Workers : wpc[w] = "exited" => ~running /\ queue = <<>>
    /\ dtor = "done" => \A w \in Workers : wpc[w] = "exited"
    /\ quiescer = "returned" => queue = <<>> /\ Busy = {}

Inductive ==
    TypeOK /\ QueueHoldsQueued /\ WorkersHoldRunning /\ CountIsBusy /\ ShutdownInOrder

USE NoJobAssumption, WorkersAssumption

-----------------------------------------------------------------------------
(* Sequences and counts. *)

\* A job appended to the queue comes last and moves nothing.
LEMMA Appended ==
    ASSUME queue \in Seq(Jobs), NEW j \in Jobs
    PROVE  /\ Append(queue, j) \in Seq(Jobs)
           /\ Len(Append(queue, j)) = Len(queue) + 1 /\ Len(queue) \in Nat
           /\ \A i \in 1 .. Len(queue) : Append(queue, j)[i] = queue[i] /\ queue[i] \in Jobs
           /\ Append(queue, j)[Len(queue) + 1] = j
  <1>1. Len(queue) \in Nat /\ \A i \in 1 .. Len(queue) : queue[i] \in Jobs OBVIOUS
  <1> QED BY <1>1, AppendProperties

\* A pop takes the first job and moves the others up.
LEMMA Popped ==
    ASSUME queue \in Seq(Jobs), queue # <<>>
    PROVE  /\ Tail(queue) \in Seq(Jobs)
           /\ Len(queue) \in Nat \ {0} /\ Len(Tail(queue)) = Len(queue) - 1
           /\ \A i \in 1 .. Len(Tail(queue)) : Tail(queue)[i] = queue[i + 1]
           /\ Head(queue) = queue[1] /\ Head(queue) \in Jobs
           /\ \A i \in 1 .. Len(queue) : queue[i] \in Jobs
  <1>1. Len(queue) \in Nat /\ \A i \in 1 .. Len(queue) : queue[i] \in Jobs OBVIOUS
  <1>2. Len(queue) # 0 BY EmptySeq
  <1>3. Head(queue) = queue[1] OBVIOUS
  <1> QED BY <1>1, <1>2, <1>3, HeadTailProperties

\* A thread enters or leaves the counted region.
LEMMA Counted ==
    ASSUME CountIsBusy, NEW w \in Workers
    PROVE  /\ w \notin Busy /\ Busy' = Busy \cup {w} /\ inFlight' = inFlight + 1 => CountIsBusy'
           /\ w \in Busy /\ Busy' = Busy \ {w} /\ inFlight' = inFlight - 1 => CountIsBusy' /\ inFlight' \in Nat
           /\ Busy' = Busy /\ inFlight' = inFlight => CountIsBusy'
           /\ inFlight = 0 => Busy = {}
  <1>1. IsFiniteSet(Busy) BY FS_Subset DEF Busy
  <1>2. Cardinality(Busy) \in Nat BY <1>1, FS_CardinalityType
  <1>3. w \notin Busy => Cardinality(Busy \cup {w}) = Cardinality(Busy) + 1
        BY <1>1, FS_AddElement
  <1>4. w \in Busy => Cardinality(Busy \ {w}) = Cardinality(Busy) - 1 /\ Cardinality(Busy \ {w}) \in Nat
        BY <1>1, FS_RemoveElement, FS_CardinalityType
  <1>5. inFlight = 0 => Busy = {} BY <1>1, FS_EmptySet DEF CountIsBusy
  <1>6. ASSUME w \notin Busy, Busy' = Busy \cup {w}, inFlight' = inFlight + 1 PROVE CountIsBusy'
        BY <1>3, <1>6 DEF CountIsBusy
  <1>7. ASSUME w \in Busy, Busy' = Busy \ {w}, inFlight' = inFlight - 1
        PROVE  CountIsBusy' /\ inFlight' \in Nat
        BY <1>4, <1>7 DEF CountIsBusy
  <1>8. ASSUME Busy' = Busy, inFlight' = inFlight PROVE CountIsBusy'
        BY <1>8 DEF CountIsBusy
  <1> QED BY <1>5, <1>6, <1>7, <1>8

-----------------------------------------------------------------------------
(* The inductive invariant. *)

LEMMA InductiveInit == Init => Inductive
  <1> SUFFICES ASSUME Init PROVE Inductive OBVIOUS
  <1>1. TypeOK BY DEF Init, TypeOK
  <1>2. QueueHoldsQueued /\ WorkersHoldRunning
        BY DEF Init, QueueHoldsQueued, WorkersHoldRunning
  <1>3. Busy = {} BY DEF Init, Busy
  <1>4. CountIsBusy /\ ShutdownInOrder
        BY <1>3, FS_EmptySet DEF Init, CountIsBusy, ShutdownInOrder
  <1> QED BY <1>1, <1>2, <1>4 DEF Inductive

\* A post puts a job behind the others.
LEMMA AcceptKeeps == ASSUME Inductive, NEW j \in Jobs, Accept(j) PROVE Inductive'
  <1> USE DEF Inductive
  <1>1. TypeOK' BY Appended DEF Accept, TypeOK, threads
  <1>2. QueueHoldsQueued'
        BY Appended DEF Accept, TypeOK, QueueHoldsQueued
  <1>3. WorkersHoldRunning' BY DEF Accept, TypeOK, WorkersHoldRunning, threads
  <1>4. CountIsBusy' BY DEF Accept, CountIsBusy, Busy, threads
  <1>5. ShutdownInOrder' BY DEF Accept, ShutdownInOrder, Busy, threads
  <1> QED BY <1>1, <1>2, <1>3, <1>4, <1>5

\* A pop moves the oldest job from the queue into the hands of one worker.
LEMMA TakeKeeps == ASSUME Inductive, NEW w \in Workers, Take(w) PROVE Inductive'
  <1> USE DEF Inductive
  <1>1. queue # <<>> /\ queue' = Tail(queue) /\ wpc[w] = "wait" /\ held[w] = NoJob
        BY DEF Take, WorkersHoldRunning
  <1>2. TypeOK' BY <1>1, Popped DEF Take, TypeOK
  <1>3. Busy' = Busy \cup {w} /\ w \notin Busy BY <1>1 DEF Take, Busy, TypeOK
  <1>4. CountIsBusy' BY <1>3, Counted DEF Take
  <1>5. fate[Head(queue)] = "queued"
        BY <1>1, Popped DEF QueueHoldsQueued, TypeOK
  <1>6. QueueHoldsQueued'
    <2>1. \A i \in 1 .. Len(queue') : i + 1 \in 1 .. Len(queue) /\ queue'[i] = queue[i + 1]
          BY <1>1, Popped DEF TypeOK
    <2>2. \A i \in 1 .. Len(queue') : queue'[i] # Head(queue)
          BY <1>1, <2>1, Popped DEF QueueHoldsQueued, TypeOK
    <2>3. \A j \in Jobs : fate'[j] = IF j = Head(queue) THEN "running" ELSE fate[j]
          BY <1>1, Popped DEF Take, TypeOK
    <2>4. \A i \in 1 .. Len(queue') : fate'[queue'[i]] = "queued"
          BY <1>1, <2>1, <2>2, <2>3, Popped DEF QueueHoldsQueued, TypeOK
    <2>5. \A i, k \in 1 .. Len(queue') : queue'[i] = queue'[k] => i = k
          BY <2>1 DEF QueueHoldsQueued
    <2>6. ASSUME NEW j \in Jobs, fate'[j] = "queued" PROVE \E i \in 1 .. Len(queue') : queue'[i] = j
      <3>1. j # Head(queue) /\ fate[j] = "queued" BY <2>3, <2>6
      <3>2. PICK i \in 1 .. Len(queue) : queue[i] = j BY <3>1 DEF QueueHoldsQueued
      <3>3. i # 1 BY <1>1, <3>1, <3>2, Popped DEF TypeOK
      <3>4. i - 1 \in 1 .. Len(queue') /\ queue'[i - 1] = queue[i]
            BY <1>1, <3>3, Popped DEF TypeOK
      <3> QED BY <3>2, <3>4
    <2> QED BY <2>4, <2>5, <2>6 DEF QueueHoldsQueued
  <1>7. WorkersHoldRunning' BY <1>1, <1>5, Popped DEF Take, TypeOK, WorkersHoldRunning
  <1>8. ShutdownInOrder' BY <1>1 DEF Take, ShutdownInOrder, TypeOK
  <1> QED BY <1>2, <1>4, <1>6, <1>7, <1>8

\* A job ends: its worker drops the closure and stays counted.
LEMMA RunKeeps == ASSUME Inductive, NEW w \in Workers, Run(w) PROVE Inductive'
  <1> USE DEF Inductive
  <1>1. wpc[w] = "run" /\ held[w] \in Jobs /\ fate[held[w]] = "running"
        BY DEF Run, WorkersHoldRunning
  <1>2. PICK f \in {"done", "threw"} : fate' = [fate EXCEPT ![held[w]] = f] BY DEF Run
  <1>3. TypeOK' BY <1>1, <1>2 DEF Run, TypeOK, lane
  <1>4. Busy' = Busy /\ CountIsBusy' BY <1>1 DEF Run, Busy, TypeOK, lane, CountIsBusy
  <1>5. QueueHoldsQueued' BY <1>1, <1>2 DEF Run, QueueHoldsQueued, TypeOK, lane
  <1>6. WorkersHoldRunning' BY <1>1, <1>2 DEF Run, WorkersHoldRunning, TypeOK
  <1>7. ShutdownInOrder' BY <1>1, <1>4 DEF Run, ShutdownInOrder, TypeOK, lane
  <1> QED BY <1>3, <1>4, <1>5, <1>6, <1>7

\* The scope guard uncounts its worker.
LEMMA LeaveKeeps == ASSUME Inductive, NEW w \in Workers, Leave(w) PROVE Inductive'
  <1> USE DEF Inductive
  <1>1. w \in Busy /\ Busy' = Busy \ {w} BY DEF Leave, Busy, TypeOK
  <1>2. CountIsBusy' /\ inFlight' \in Nat BY <1>1, Counted DEF Leave
  <1>3. TypeOK' BY <1>2 DEF Leave, TypeOK
  <1>4. QueueHoldsQueued' BY DEF Leave, QueueHoldsQueued
  <1>5. WorkersHoldRunning' BY DEF Leave, WorkersHoldRunning, TypeOK
  <1>6. ShutdownInOrder' BY <1>1 DEF Leave, ShutdownInOrder, TypeOK
  <1> QED BY <1>2, <1>3, <1>4, <1>5, <1>6

\* No other step of a worker touches a job or the count.
LEMMA IdleStepKeeps ==
    ASSUME Inductive, NEW w \in Workers, Sleep(w) \/ NotifyIdle(w) \/ Exit(w) PROVE Inductive'
  <1> USE DEF Inductive, Sleep, NotifyIdle, Exit, lane
  <1>1. TypeOK' BY DEF TypeOK
  <1>2. Busy' = Busy BY DEF Busy, TypeOK
  <1>3. QueueHoldsQueued' /\ CountIsBusy' BY <1>2 DEF QueueHoldsQueued, CountIsBusy
  <1>4. WorkersHoldRunning' BY DEF WorkersHoldRunning, TypeOK
  <1>5. ShutdownInOrder' BY <1>2 DEF ShutdownInOrder, TypeOK
  <1> QED BY <1>1, <1>3, <1>4, <1>5

\* Nor does whoever posts, quiesces or destroys, but for a post that is accepted.
LEMMA OwnerStepKeeps ==
    ASSUME Inductive,
           \/ \E j \in Jobs : Refuse(j) \/ NotifyOne(j)
           \/ Quiesce \/ QuiesceSleep \/ QuiesceReturn
           \/ Stop \/ NotifyAll \/ Join
           \/ UNCHANGED vars
    PROVE  Inductive'
  <1> USE DEF Inductive, Refuse, NotifyOne, Quiesce, QuiesceSleep, QuiesceReturn, Stop,
              NotifyAll, Join, vars, lane, threads
  <1>1. TypeOK' BY DEF TypeOK
  <1>2. Busy' = Busy BY DEF Busy
  <1>3. CountIsBusy' BY <1>2 DEF CountIsBusy
  <1>4. QueueHoldsQueued' BY DEF QueueHoldsQueued, TypeOK
  <1>5. WorkersHoldRunning' BY DEF WorkersHoldRunning, TypeOK
  <1>6. inFlight = 0 => Busy = {} BY Counted
  <1>7. ShutdownInOrder' BY <1>2, <1>6 DEF ShutdownInOrder, Drained, TypeOK
  <1> QED BY <1>1, <1>3, <1>4, <1>5, <1>7

LEMMA InductiveNext == Inductive /\ [Next]_vars => Inductive'
  BY AcceptKeeps, TakeKeeps, RunKeeps, LeaveKeeps, IdleStepKeeps, OwnerStepKeeps
  DEF Next, PostStep, WorkerNext, BusyStep

LEMMA InductiveHolds == Spec => []Inductive
  BY InductiveInit, InductiveNext, PTL DEF Spec

-----------------------------------------------------------------------------
(* What follows. *)

\* Every variable of the lane keeps its type.
THEOREM TypeCorrect == Spec => []TypeOK
  <1>1. Inductive => TypeOK BY DEF Inductive
  <1> QED BY <1>1, InductiveHolds, PTL

\* Once quiesce() has returned, no job is queued, none runs and no worker holds
\* a closure, for any number of threads and jobs.
THEOREM Barrier == Spec => []QuiesceIsABarrier
  <1>1. Inductive => QuiesceIsABarrier
    <2> SUFFICES ASSUME Inductive, quiescer = "returned" PROVE QuiesceIsABarrier
        BY DEF QuiesceIsABarrier
    <2>1. queue = <<>> /\ \A w \in Workers : wpc[w] # "run"
          BY DEF Inductive, ShutdownInOrder, Busy
    <2>2. Len(queue) = 0 BY <2>1
    <2> QED BY <2>1, <2>2 DEF Inductive, QuiesceIsABarrier, QueueHoldsQueued, WorkersHoldRunning
  <1> QED BY <1>1, InductiveHolds, PTL

\* Once the destructor has joined its threads, every accepted job has run.
THEOREM Drains == Spec => []DestructionDrains
  <1>1. Inductive => DestructionDrains
    <2> SUFFICES ASSUME Inductive, dtor = "done" PROVE DestructionDrains
        BY DEF DestructionDrains
    <2>1. queue = <<>> /\ \A w \in Workers : wpc[w] # "run"
          BY DEF Inductive, ShutdownInOrder
    <2>2. Len(queue) = 0 BY <2>1
    <2> QED BY <2>1, <2>2 DEF Inductive, DestructionDrains, QueueHoldsQueued, WorkersHoldRunning
  <1> QED BY <1>1, InductiveHolds, PTL

-----------------------------------------------------------------------------
(* Refinement. *)

LEMMA InitRefines == Init => Lane!Init
  BY DEF Init, Lane!Init

\* A step of the lane is a step of the abstract lane, or none of its business.
LEMMA StepRefines == Inductive /\ [Next]_vars => [Lane!Next]_(Lane!vars)
  <1> SUFFICES ASSUME Inductive, [Next]_vars PROVE [Lane!Next]_(Lane!vars) OBVIOUS
  <1> USE DEF lane, threads, Lane!vars
  <1>1. ASSUME NEW j \in Jobs, Accept(j) PROVE Lane!Accept(j)
        BY <1>1 DEF Accept, Lane!Accept
  <1>2. ASSUME NEW j \in Jobs, Refuse(j) PROVE Lane!Refuse(j)
        BY <1>2 DEF Refuse, Lane!Refuse
  <1>3. ASSUME NEW w \in Workers, Take(w) PROVE Lane!Start
        BY <1>3 DEF Take, Lane!Start
  <1>4. ASSUME NEW w \in Workers, Run(w) PROVE \E j \in Jobs : Lane!Finish(j)
    <2>1. held[w] \in Jobs /\ fate[held[w]] = "running"
          BY <1>4 DEF Run, Inductive, WorkersHoldRunning
    <2> QED BY <1>4, <2>1 DEF Run, Lane!Finish
  <1>5. CASE Quiesce BY <1>5 DEF Quiesce, Lane!Next, Lane!Close
  <1>6. CASE Stop BY <1>6 DEF Stop, Lane!Next, Lane!Close
  <1>7. CASE QuiesceReturn
    <2>1. queue = <<>> /\ Len(queue) = 0 /\ inFlight = 0 /\ quiescer = "waiting"
          BY <1>7 DEF QuiesceReturn, Drained
    <2>2. Busy = {} BY <2>1, WorkersAssumption, Counted DEF Inductive
    <2>3. \A j \in Jobs : fate[j] \notin {"queued", "running"}
          BY <2>1, <2>2 DEF Inductive, QueueHoldsQueued, WorkersHoldRunning, Busy
    <2>4. ~accepting BY <2>1 DEF Inductive, ShutdownInOrder
    <2> QED BY <1>7, <2>3, <2>4 DEF QuiesceReturn, Lane!Next, Lane!ReportQuiet
  <1>8. ASSUME NEW w \in Workers, Sleep(w) \/ Leave(w) \/ NotifyIdle(w) \/ Exit(w)
        PROVE  UNCHANGED Lane!vars
        BY <1>8 DEF Sleep, Leave, NotifyIdle, Exit
  <1>9. ASSUME NEW j \in Jobs, NotifyOne(j) PROVE UNCHANGED Lane!vars
        BY <1>9 DEF NotifyOne
  <1>10. CASE QuiesceSleep \/ NotifyAll \/ Join \/ UNCHANGED vars
         BY <1>10 DEF QuiesceSleep, NotifyAll, Join, vars
  <1> QED BY <1>1, <1>2, <1>3, <1>4, <1>5, <1>6, <1>7, <1>8, <1>9, <1>10
          DEF Next, PostStep, WorkerNext, BusyStep, Lane!Next

\* The lane implements what it promises: accepted jobs start once each and in
\* order, and it is reported quiet only when it is.
THEOREM Refinement == Spec => ImplementsJobLane
  <1>1. Spec => Lane!Spec
        BY InitRefines, StepRefines, InductiveHolds, PTL DEF Spec, Lane!Spec
  <1> QED BY <1>1 DEF ImplementsJobLane

====
