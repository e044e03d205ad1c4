---- MODULE SceneSaveProofs ----
(***************************************************************************)
(* The save path for any number of owner threads, scenes, edits and saves: *)
(* one writer of scene files at a time, nothing left to touch the control  *)
(* once it is deleted; and what a save writes: answers are honest, what    *)
(* was answered stays on disk, and stopping persists the rest.             *)
(***************************************************************************)
EXTENDS SceneSave, FiniteSetTheorems, SequenceTheorems, TLAPS

Places == {"none", "read", "stage", "rename", "through", "restore", "result", "publish", "end"}
Undelivered == Places \ {"none", "end"}        \* a closure that owes the answer
Claiming == {"redrain", "retake", "prepare", "post"}  \* the engine owes it
Quieted == {"lastDrain", "lastTake", "save", "saving", "finish", "exited"}

Stations == Claiming \cup Quieted \cup
    {"top", "drain", "take", "claim", "open", "load", "camera", "cameraUnbound", "simulate",
     "unwind", "quiesce", "quiescing", "join"}

OnLane(n) == fate[n] \in {"queued", "running"}

\* The variables of the control flow; the documents are not looked at.
Shape ==
    /\ eng \in Stations
    /\ phase \in [Callers -> {"out", "save", "open", "in", "leaving"}]
    /\ stopper \in {"running", "join", "drain", "deleted"}
    /\ DOMAIN saveCall = Callers
    /\ claims \in 0 .. MaxSaves
    /\ fate \in [Claims -> {"new", "queued", "running", "refused", "done", "threw"}]
    /\ backlog \in Seq(Claims)
    /\ DOMAIN job = {0} \cup Claims
    /\ \A n \in {0} \cup Claims : /\ job[n].at \in Places
                                  /\ DOMAIN job[n] = {"at", "work", "file", "flushed", "err"}

\* active_callers_ counts the callers between their CallerScope's two ends.
Inside == {c \in Callers : phase[c] # "out"}
CountIsInside == active = Cardinality(Inside)

\* The backlog holds the queued closures, each once.
BacklogHoldsQueued ==
    /\ \A i \in 1 .. Len(backlog) : fate[backlog[i]] = "queued"
    /\ \A i, k \in 1 .. Len(backlog) : backlog[i] = backlog[k] => i = k

\* A closure lives on the lane, the engine's own save in its teardown, and the
\* lane stays empty once it has been quieted or joined.
ClosuresInPlace ==
    /\ \A n \in Claims : job[n].at # "none" => OnLane(n)
    /\ job[0].at # "none" => eng = "saving"
    /\ eng \in Quieted => \A n \in Claims : ~OnLane(n)

\* One claimed save at a time: by the engine or by the one closure that owes its
\* answer, and then its caller is still parked on it.
Owing == {n \in Claims : job[n].at \in Undelivered}
Served == {c \in Callers : saveCall[c].kind \notin {"idle", "waiting"}}
OneOwed ==
    /\ \A m, n \in Owing : m = n
    /\ eng \in Claiming => Owing = {} /\ claims \in Claims
    /\ eng \in Claiming \/ Owing # {} => \E c \in Callers : saveCall[c].kind = "running"
    /\ \A c, d \in Served : c = d

\* How far stop() is.
StopInOrder ==
    /\ stopper \in {"drain", "deleted"} => eng = "exited"
    /\ stopper = "deleted" => Inside = {}

Inductive ==
    /\ Shape /\ CountIsInside /\ BacklogHoldsQueued
    /\ ClosuresInPlace /\ OneOwed /\ StopInOrder

USE CallersAssumption, MainSceneAssumption, PlansAssumption

\* What the proof is about, but for the engine's place.
around == <<phase, active, stopper, saveCall, claims, fate, backlog, job>>

-----------------------------------------------------------------------------
(* Initially. *)

LEMMA InductiveInit == Init => Inductive
  <1> SUFFICES ASSUME Init PROVE Inductive OBVIOUS
  <1>1. \A c \in Callers : saveCall[c] = Save!Phase("idle") /\ saveCall[c].kind = "idle"
        BY DEF Init, Save!Phase
  <1>2. \A n \in {0} \cup Claims : job[n] = NoJob BY DEF Init
  <1>3. Shape
    <2>1. DOMAIN saveCall = Callers BY DEF Init
    <2>2. backlog \in Seq(Claims) /\ fate = [n \in Claims |-> "new"] BY DEF Init, Lane!Init
    <2>3. claims \in 0 .. MaxSaves BY DEF Init
    <2>4. DOMAIN job = {0} \cup Claims
          /\ \A n \in {0} \cup Claims : /\ job[n].at \in Places
                /\ DOMAIN job[n] = {"at", "work", "file", "flushed", "err"}
          BY <1>2 DEF Init, NoJob, Places
    <2> QED BY <2>1, <2>2, <2>3, <2>4 DEF Init, Shape, Stations
  <1>4. Inside = {} BY DEF Init, Inside
  <1>5. CountIsInside BY <1>4, FS_EmptySet DEF Init, CountIsInside
  <1>6. BacklogHoldsQueued BY DEF Init, Lane!Init, BacklogHoldsQueued
  <1>7. ClosuresInPlace BY <1>2 DEF Init, ClosuresInPlace, NoJob, Quieted
  <1>8. Owing = {} /\ Served = {}
    <2>1. NoJob.at = "none" BY DEF NoJob
    <2>2. \A n \in Claims : job[n] = NoJob BY <1>2
    <2> QED BY <1>1, <2>1, <2>2 DEF Owing, Served, Undelivered
  <1>9. OneOwed BY <1>8 DEF Init, OneOwed, Claiming
  <1>10. StopInOrder BY DEF Init, StopInOrder
  <1> QED BY <1>3, <1>5, <1>6, <1>7, <1>9, <1>10 DEF Inductive

-----------------------------------------------------------------------------
(* Steps of the engine that only take it to another place. *)

LEMMA MoveKeeps ==
    ASSUME Inductive, UNCHANGED around, eng \notin {"exited", "saving"}, eng' \in Stations,
           eng' \in Claiming => eng \in Claiming,
           eng' \in Quieted => eng \in Quieted \/ \A n \in Claims : ~OnLane(n)
    PROVE  Inductive'
  <1> USE DEF Inductive, around
  <1>1. Shape' BY DEF Shape
  <1>2. Inside' = Inside /\ Served' = Served /\ Owing' = Owing BY DEF Inside, Served, Owing
  <1>3. CountIsInside' /\ StopInOrder' BY <1>2 DEF CountIsInside, StopInOrder
  <1>4. BacklogHoldsQueued' BY DEF BacklogHoldsQueued
  <1>5. ClosuresInPlace' BY DEF ClosuresInPlace, OnLane
  <1>6. OneOwed' BY <1>2 DEF OneOwed
  <1> QED BY <1>1, <1>3, <1>4, <1>5, <1>6

\* The frame, but for claims and answers.
LEMMA FrameMoves ==
    ASSUME Inductive,
           \/ LeaveLoop \/ DrainEdits \/ Finalize \/ FinalizeInClaim
           \/ \E c \in Callers : \/ ClaimOpen(c)
                                  \/ LoadScene(c) \/ RestoreCamera(c) \/ LoadFails(c)
           \/ NoSavePending \/ PrepareDirty \/ NoOpenPending \/ Simulate
    PROVE  Inductive'
  <1> USE DEF control, saveVerb, openVerb, lane, closures, hosts
  <1>1. UNCHANGED around
        BY DEF around, LeaveLoop, DrainEdits, Finalize, FinalizeInClaim, DrainResults, TakeRestore,
               ClaimOpen, LoadScene, RestoreCamera, LoadFails, NoSavePending, PrepareDirty,
               NoOpenPending, Simulate
  <1>2. <<eng, eng'>> \in {<<"top", "quiesce">>, <<"top", "drain">>, <<"drain", "take">>,
             <<"take", "claim">>, <<"redrain", "retake">>, <<"retake", "prepare">>,
             <<"open", "load">>, <<"load", "camera">>, <<"load", "cameraUnbound">>,
             <<"load", "simulate">>, <<"camera", "simulate">>, <<"cameraUnbound", "simulate">>,
             <<"claim", "open">>,
             <<"prepare", "post">>, <<"open", "simulate">>, <<"simulate", "top">>}
        BY DEF LeaveLoop, DrainEdits, Finalize, FinalizeInClaim, DrainResults, TakeRestore,
               ClaimOpen, LoadScene, RestoreCamera, LoadFails, NoSavePending, PrepareDirty,
               NoOpenPending, Simulate
  <1> QED BY <1>1, <1>2, MoveKeeps DEF Stations, Claiming, Quieted

\* The teardown, but for its save.
LEMMA TeardownMoves ==
    ASSUME Inductive, CloseLane \/ QuiesceLane \/ LastDrain \/ JoinLanes \/ MarkFinished
    PROVE  Inductive'
  <1> USE DEF control, saveVerb, openVerb, lane, closures, hosts
  <1>1. UNCHANGED around
        BY DEF around, CloseLane, QuiesceLane, LastDrain, JoinLanes, MarkFinished, DrainResults,
               TakeRestore, Lane!Close, Lane!ReportQuiet, Save!Close
  <1>2. <<eng, eng'>> \in {<<"quiesce", "quiescing">>, <<"unwind", "join">>,
             <<"quiescing", "lastDrain">>, <<"lastDrain", "lastTake">>, <<"lastTake", "save">>,
             <<"join", "finish">>, <<"finish", "exited">>}
        BY DEF CloseLane, QuiesceLane, LastDrain, JoinLanes, MarkFinished, DrainResults, TakeRestore
  <1>3. eng \in {"quiescing", "join"} => \A n \in Claims : ~OnLane(n)
        BY DEF CloseLane, QuiesceLane, LastDrain, JoinLanes, MarkFinished, DrainResults,
               TakeRestore, Lane!ReportQuiet, OnLane
  <1> QED BY <1>1, <1>2, <1>3, MoveKeeps DEF Stations, Claiming, Quieted

-----------------------------------------------------------------------------
(* The claimed save and its answer. *)

\* Exactly the caller of the claimed save goes from running to answered.
LEMMA AnswerGoes ==
    ASSUME Inductive, NEW err, Answer(err)
    PROVE  /\ DOMAIN saveCall' = Callers
           /\ Served' = Served
  <1>1. PICK c \in Callers : Save!FinishWith(c, Save!Answer(err)) BY DEF Answer
  <1>2. DOMAIN saveCall = Callers BY DEF Inductive, Shape
  <1>3. DOMAIN saveCall' = Callers
        /\ \A d \in Callers : saveCall'[d] = IF d = c THEN Save!Answer(err) ELSE saveCall[d]
        BY <1>1, <1>2 DEF Save!FinishWith
  <1>4. saveCall[c].kind = "running" /\ saveCall'[c].kind = "answer"
        BY <1>1, <1>3 DEF Save!FinishWith, Save!Phase, Save!Answer
  <1>5. Served' = Served BY <1>3, <1>4 DEF Served
  <1> QED BY <1>3, <1>5

\* The engine answers the save it has claimed.
LEMMA EngineAnswers ==
    ASSUME Inductive, eng \in Claiming, NEW err, Answer(err), eng' \in {"open", "unwind"},
           UNCHANGED <<phase, active, stopper, claims, fate, backlog, job>>
    PROVE  Inductive'
  <1> USE DEF Inductive
  <1>1. DOMAIN saveCall' = Callers /\ Served' = Served BY AnswerGoes
  <1>2. Inside' = Inside /\ Owing' = Owing /\ Owing = {} BY DEF Inside, Owing, OneOwed
  <1>3. Shape' BY <1>1 DEF Shape, Stations
  <1>4. CountIsInside' BY <1>2 DEF CountIsInside
  <1>5. StopInOrder' BY <1>2 DEF StopInOrder, Claiming
  <1>6. BacklogHoldsQueued' BY DEF BacklogHoldsQueued
  <1>7. ClosuresInPlace' BY DEF ClosuresInPlace, OnLane, Quieted, Claiming
  <1>8. OneOwed' BY <1>1, <1>2 DEF OneOwed, Claiming
  <1> QED BY <1>3, <1>4, <1>5, <1>6, <1>7, <1>8

\* A clean scene, or a closure the lane did not take, is answered in the claim.
LEMMA EngineAnswersKeep == ASSUME Inductive, PrepareClean \/ PostFails PROVE Inductive'
  <1> USE DEF control, lane, closures, hosts
  <1>1. CASE PrepareClean BY <1>1, EngineAnswers DEF PrepareClean, Claiming
  <1>2. CASE PostFails BY <1>2, EngineAnswers DEF PostFails, Claiming
  <1> QED BY <1>1, <1>2

\* PendingSaveGuard answers on the way out of an exception.
LEMMA ThrowKeeps == ASSUME Inductive, Throw PROVE Inductive'
  <1> USE DEF control, lane, closures, hosts
  <1>1. CASE eng \in {"redrain", "retake", "prepare"}
        BY <1>1, EngineAnswers DEF Throw, Claiming
  <1>2. CASE eng \in {"top", "simulate"} \cup Loading
    <2>1. UNCHANGED around BY <1>2 DEF Throw, Loading, around, saveVerb
    <2>2. eng' = "unwind" BY DEF Throw
    <2> QED BY <1>2, <2>1, <2>2, MoveKeeps DEF Stations, Claiming, Quieted, Loading
  <1> QED BY <1>1, <1>2 DEF Throw, Throwing

\* A claim needs an idle channel, so no closure owes an answer.
LEMMA ClaimKeeps == ASSUME Inductive, NEW c \in Callers, ClaimSave(c) PROVE Inductive'
  <1> USE DEF Inductive, control, lane, hosts
  <1>1. eng = "claim" /\ eng' = "redrain" /\ claims' = claims + 1 /\ claims < MaxSaves
        /\ UNCHANGED <<phase, active, stopper, fate, backlog, job>> BY DEF ClaimSave
  <1>2. DOMAIN saveCall = Callers BY DEF Shape
  <1>3. \A d \in Callers : saveCall[d].kind \in {"idle", "waiting"}
        BY DEF ClaimSave, Save!Begin
  <1>4. DOMAIN saveCall' = Callers
        /\ \A d \in Callers : saveCall'[d] = IF d = c THEN Save!Phase("running") ELSE saveCall[d]
        BY <1>2 DEF ClaimSave, Save!Begin
  <1>5. saveCall'[c].kind = "running" BY <1>4 DEF Save!Phase
  <1>6. Served' = {c} BY <1>3, <1>4, <1>5 DEF Served
  <1>7. Owing = {} BY <1>3 DEF OneOwed
  <1>8. Owing' = {} BY <1>1, <1>7 DEF Owing
  <1>9. claims' \in Claims /\ claims' \in 0 .. MaxSaves BY <1>1 DEF Shape, Claims
  <1>10. Shape' BY <1>1, <1>4, <1>9 DEF Shape, Stations, Claiming
  <1>11. CountIsInside' BY <1>1 DEF CountIsInside, Inside
  <1>12. StopInOrder' BY <1>1 DEF StopInOrder
  <1>13. BacklogHoldsQueued' BY <1>1 DEF BacklogHoldsQueued
  <1>14. ClosuresInPlace' BY <1>1 DEF ClosuresInPlace, OnLane, Quieted
  <1>15. OneOwed' BY <1>5, <1>6, <1>8, <1>9 DEF OneOwed
  <1> QED BY <1>10, <1>11, <1>12, <1>13, <1>14, <1>15

\* The closure takes over what the engine owes.
LEMMA PostKeeps == ASSUME Inductive, PostClosure PROVE Inductive'
  <1> USE DEF Inductive, control, saveVerb, hosts
  <1>1. eng = "post" /\ eng' = "open" /\ fate[claims] = "new"
        /\ UNCHANGED <<phase, active, stopper, saveCall, claims>>
        BY DEF PostClosure, Lane!Accept
  <1>2. claims \in Claims /\ Owing = {} BY <1>1 DEF OneOwed, Claiming
  <1>3. DOMAIN fate' = Claims
        /\ \A n \in Claims : fate'[n] = IF n = claims THEN "queued" ELSE fate[n]
        BY <1>2 DEF PostClosure, Lane!Accept, Shape
  <1>4. DOMAIN job' = {0} \cup Claims
        /\ \A n \in {0} \cup Claims :
              job'[n] = IF n = claims THEN [NoJob EXCEPT !.at = "read", !.work = prepared]
                                      ELSE job[n]
        BY <1>2 DEF PostClosure, Shape
  <1>5. job'[claims].at = "read"
        /\ DOMAIN job'[claims] = {"at", "work", "file", "flushed", "err"}
        BY <1>2, <1>4 DEF NoJob
  <1>6. backlog' = Append(backlog, claims) /\ backlog \in Seq(Claims)
        BY DEF PostClosure, Lane!Accept, Shape
  <1>7. /\ backlog' \in Seq(Claims) /\ Len(backlog') = Len(backlog) + 1 /\ Len(backlog) \in Nat
        /\ \A i \in 1 .. Len(backlog) : backlog'[i] = backlog[i] /\ backlog[i] \in Claims
        /\ backlog'[Len(backlog) + 1] = claims
    <2>1. Len(backlog) \in Nat /\ \A i \in 1 .. Len(backlog) : backlog[i] \in Claims BY <1>6
    <2> QED BY <1>2, <1>6, <2>1, AppendProperties
  <1>8. Shape'
    <2>1. fate' \in [Claims -> {"new", "queued", "running", "refused", "done", "threw"}]
          BY <1>2, <1>3 DEF PostClosure, Lane!Accept, Shape
    <2>2. \A n \in {0} \cup Claims : /\ job'[n].at \in Places
                /\ DOMAIN job'[n] = {"at", "work", "file", "flushed", "err"}
          BY <1>4, <1>5 DEF Shape, Places
    <2> QED BY <1>1, <1>4, <1>7, <2>1, <2>2 DEF Shape, Stations
  <1>9. BacklogHoldsQueued'
    <2>1. \A i \in 1 .. Len(backlog') : i \in 1 .. Len(backlog) \/ i = Len(backlog) + 1 BY <1>7
    <2>2. \A i \in 1 .. Len(backlog) : backlog[i] # claims BY <1>1 DEF BacklogHoldsQueued
    <2>3. \A i \in 1 .. Len(backlog') : fate'[backlog'[i]] = "queued"
          BY <1>2, <1>3, <1>7, <2>1 DEF BacklogHoldsQueued
    <2>4. \A i, k \in 1 .. Len(backlog') : backlog'[i] = backlog'[k] => i = k
          BY <1>7, <2>1, <2>2 DEF BacklogHoldsQueued
    <2> QED BY <2>3, <2>4 DEF BacklogHoldsQueued
  <1>10. \A n \in Claims : n # claims => job'[n].at = job[n].at /\ fate'[n] = fate[n]
        BY <1>3, <1>4
  <1>11. ClosuresInPlace'
    <2>1. \A n \in Claims : job'[n].at # "none" => OnLane(n)'
          BY <1>2, <1>3, <1>10 DEF ClosuresInPlace, OnLane
    <2>2. 0 \notin Claims BY DEF Claims
    <2>3. job'[0].at = "none" BY <1>1, <1>2, <1>4, <2>2 DEF ClosuresInPlace
    <2> QED BY <1>1, <2>1, <2>3 DEF ClosuresInPlace, Quieted
  <1>12. Owing' = {claims}
    <2>1. \A n \in Claims : job'[n].at \in Undelivered <=> n = claims
          BY <1>2, <1>5, <1>10 DEF Owing, Undelivered, Places
    <2> QED BY <1>2, <2>1 DEF Owing
  <1>13. OneOwed' BY <1>1, <1>12 DEF OneOwed, Served, Claiming
  <1>14. CountIsInside' BY <1>1 DEF CountIsInside, Inside
  <1>15. StopInOrder' BY <1>1 DEF StopInOrder
  <1> QED BY <1>8, <1>9, <1>11, <1>13, <1>14, <1>15

-----------------------------------------------------------------------------
(* The engine's own save, in the teardown. *)

\* The lane is quiet: the engine's own save is alone, before it and after it.
LEMMA OwnSaveKeeps == ASSUME Inductive, TeardownSave \/ TeardownSaved PROVE Inductive'
  <1> USE DEF Inductive, control, saveVerb, lane, hosts
  <1>1. UNCHANGED <<phase, active, stopper, saveCall, claims, fate, backlog>>
        BY DEF TeardownSave, TeardownSaved
  <1>2. <<eng, eng'>> \in {<<"save", "join">>, <<"save", "saving">>, <<"saving", "join">>}
        BY DEF TeardownSave, TeardownSaved
  <1>3. \A n \in Claims : n # 0 BY DEF Claims
  <1>4. DOMAIN job' = {0} \cup Claims /\ \A n \in Claims : job'[n] = job[n]
        BY <1>3 DEF TeardownSave, TeardownSaved, Shape
  <1>5. /\ job'[0].at \in {"none", "read"}
        /\ DOMAIN job'[0] = {"at", "work", "file", "flushed", "err"}
        /\ eng' # "saving" => job'[0].at = "none"
    <2>1. CASE job' = job /\ eng' = "join" /\ eng = "save"
      <3>1. job[0].at = "none" BY <2>1 DEF ClosuresInPlace
      <3> QED BY <2>1, <3>1 DEF Shape
    <2>2. CASE job'[0] = NoJob BY <2>2 DEF NoJob
    <2>3. CASE job'[0] = [NoJob EXCEPT !.at = "read", !.work = Snapshot] /\ eng' = "saving"
          BY <2>3 DEF NoJob
    <2> QED BY <2>1, <2>2, <2>3 DEF TeardownSave, TeardownSaved, Shape, closures
  <1>6. Shape' BY <1>1, <1>2, <1>4, <1>5 DEF Shape, Stations, Quieted, Places
  <1>7. Inside' = Inside /\ Served' = Served BY <1>1 DEF Inside, Served
  <1>8. Owing' = Owing BY <1>4 DEF Owing
  <1>9. CountIsInside' BY <1>1, <1>7 DEF CountIsInside
  <1>10. StopInOrder' BY <1>1, <1>2, <1>7 DEF StopInOrder
  <1>11. BacklogHoldsQueued' BY <1>1 DEF BacklogHoldsQueued
  <1>12. ClosuresInPlace' BY <1>1, <1>2, <1>4, <1>5 DEF ClosuresInPlace, OnLane, Quieted
  <1>13. OneOwed' BY <1>1, <1>2, <1>7, <1>8 DEF OneOwed, Claiming
  <1> QED BY <1>6, <1>9, <1>10, <1>11, <1>12, <1>13

-----------------------------------------------------------------------------
(* The save closure. *)

\* A closure, or the engine's own save, that goes on and still owes its answer.
LEMMA ClosureGoesOn ==
    ASSUME Inductive, NEW n \in {0} \cup Claims, job[n].at \in Undelivered,
           NEW next \in Undelivered, job'[n].at = next,
           DOMAIN job'[n] = {"at", "work", "file", "flushed", "err"},
           DOMAIN job' = {0} \cup Claims,
           \A m \in {0} \cup Claims : m # n => job'[m] = job[m],
           UNCHANGED <<eng, phase, active, stopper, saveCall, claims, fate, backlog>>
    PROVE  Inductive'
  <1> USE DEF Inductive
  <1>1. Shape' BY DEF Shape, Undelivered
  <1>2. Inside' = Inside /\ Served' = Served BY DEF Inside, Served
  <1>3. Owing' = Owing
    <2>1. \A m \in Claims : job'[m].at \in Undelivered <=> job[m].at \in Undelivered OBVIOUS
    <2> QED BY <2>1 DEF Owing
  <1>4. CountIsInside' /\ StopInOrder' BY <1>2 DEF CountIsInside, StopInOrder
  <1>5. BacklogHoldsQueued' BY DEF BacklogHoldsQueued
  <1>6. ClosuresInPlace'
    <2>1. job[n].at # "none" BY DEF Undelivered
    <2> QED BY <2>1 DEF ClosuresInPlace, OnLane
  <1>7. OneOwed' BY <1>2, <1>3 DEF OneOwed
  <1> QED BY <1>1, <1>4, <1>5, <1>6, <1>7

\* commit_scene_save(), on either thread, and the two reports before the answer.
LEMMA ClosureKeeps ==
    ASSUME Inductive, NEW n \in {0} \cup Claims, Commit(n) \/ RequestRestore(n) \/ PostResult(n)
    PROVE  Inductive'
  <1> USE DEF control, saveVerb, lane, hosts, engine, Running
  <1>1. UNCHANGED <<eng, phase, active, stopper, saveCall, claims, fate, backlog>>
        BY DEF Commit, CommitRead, CommitStage, WriteStaging, CommitRename, CommitSettles,
               CommitFails, RequestRestore, PostResult
  <1>2. job[n].at \in Undelivered
        BY DEF Commit, CommitRead, CommitStage, WriteStaging, CommitRename, CommitSettles,
               CommitFails, RequestRestore, PostResult, Undelivered, Places
  <1>3. DOMAIN job = {0} \cup Claims
        /\ DOMAIN job[n] = {"at", "work", "file", "flushed", "err"} BY DEF Inductive, Shape
  <1>4. /\ DOMAIN job' = DOMAIN job
        /\ \A m \in {0} \cup Claims : m # n => job'[m] = job[m]
        /\ DOMAIN job'[n] = DOMAIN job[n]
        /\ job'[n].at \in {"stage", "rename", "through", "result", "restore", "publish"}
    <2>1. CASE CommitRead(n) BY <1>3, <2>1 DEF CommitRead
    <2>2. CASE CommitStage(n) BY <1>3, <2>2 DEF CommitStage, WriteStaging
    <2>3. CASE CommitRename(n) BY <1>3, <2>3 DEF CommitRename
    <2>4. CASE CommitSettles(n) BY <1>3, <2>4 DEF CommitSettles
    <2>5. CASE CommitFails(n) BY <1>3, <2>5 DEF CommitFails
    <2>6. CASE RequestRestore(n) BY <1>3, <2>6 DEF RequestRestore
    <2>7. CASE PostResult(n) BY <1>3, <2>7 DEF PostResult
    <2> QED BY <2>1, <2>2, <2>3, <2>4, <2>5, <2>6, <2>7 DEF Commit
  <1>5. job'[n].at \in Undelivered BY <1>4 DEF Undelivered, Places
  <1> QED BY <1>1, <1>2, <1>3, <1>4, <1>5, ClosureGoesOn

\* The one closure that owes the answer publishes it.
LEMMA PublishKeeps == ASSUME Inductive, NEW n \in Claims, PublishSave(n) PROVE Inductive'
  <1> USE DEF Inductive, control, lane, hosts, engine
  <1>1. UNCHANGED <<eng, phase, active, stopper, claims, fate, backlog>> BY DEF PublishSave
  <1>2. DOMAIN saveCall' = Callers /\ Served' = Served BY AnswerGoes DEF PublishSave
  <1>3. /\ job[n].at = "publish" /\ job'[n].at = "end"
        /\ DOMAIN job' = {0} \cup Claims
        /\ DOMAIN job'[n] = {"at", "work", "file", "flushed", "err"}
        /\ \A m \in {0} \cup Claims : m # n => job'[m] = job[m]
        BY DEF PublishSave, Running, Shape
  <1>4. n \in Owing BY <1>3 DEF Owing, Undelivered, Places
  <1>5. Owing' = {}
    <2>1. \A m \in Claims : m # n => job[m].at \notin Undelivered BY <1>4 DEF OneOwed, Owing
    <2> QED BY <1>3, <2>1 DEF Owing, Undelivered
  <1>6. Shape' BY <1>1, <1>2, <1>3 DEF Shape, Places
  <1>7. CountIsInside' /\ StopInOrder' BY <1>1 DEF CountIsInside, StopInOrder, Inside
  <1>8. BacklogHoldsQueued' BY <1>1 DEF BacklogHoldsQueued
  <1>9. ClosuresInPlace'
    <2>1. n # 0 BY DEF Claims
    <2> QED BY <1>1, <1>3, <2>1 DEF ClosuresInPlace, OnLane
  <1>10. eng' \notin Claiming BY <1>1, <1>4 DEF OneOwed
  <1>11. OneOwed' BY <1>2, <1>5, <1>10 DEF OneOwed
  <1> QED BY <1>6, <1>7, <1>8, <1>9, <1>11

\* The closure is dropped and counted out.
LEMMA EndKeeps == ASSUME Inductive, NEW n \in Claims, EndClosure(n) PROVE Inductive'
  <1> USE DEF Inductive, control, saveVerb, hosts, engine
  <1>1. UNCHANGED <<eng, phase, active, stopper, saveCall, claims, backlog>> BY DEF EndClosure
  <1>2. fate[n] = "running" /\ job[n].at = "end" BY DEF EndClosure, Running
  <1>3. /\ fate' \in [Claims -> {"new", "queued", "running", "refused", "done", "threw"}]
        /\ \A m \in Claims : fate'[m] = IF m = n THEN "done" ELSE fate[m]
        BY DEF EndClosure, Shape
  <1>4. /\ DOMAIN job' = {0} \cup Claims
        /\ \A m \in {0} \cup Claims : m # n => job'[m] = job[m]
        /\ job'[n] = NoJob
        BY DEF EndClosure, Shape
  <1>5. job'[n].at = "none" /\ DOMAIN job'[n] = {"at", "work", "file", "flushed", "err"}
        BY <1>4 DEF NoJob
  <1>6. Shape' BY <1>1, <1>3, <1>4, <1>5 DEF Shape, Places
  <1>7. CountIsInside' /\ StopInOrder' BY <1>1 DEF CountIsInside, StopInOrder, Inside
  <1>8. BacklogHoldsQueued'
    <2>1. \A i \in 1 .. Len(backlog) : backlog[i] \in Claims BY DEF Shape
    <2>2. \A i \in 1 .. Len(backlog) : backlog[i] # n BY <1>2 DEF BacklogHoldsQueued
    <2> QED BY <1>1, <1>3, <2>1, <2>2 DEF BacklogHoldsQueued
  <1>9. ClosuresInPlace'
    <2>1. n # 0 BY DEF Claims
    <2> QED BY <1>1, <1>3, <1>4, <1>5, <2>1 DEF ClosuresInPlace, OnLane
  <1>10. Owing' = Owing BY <1>2, <1>4, <1>5 DEF Owing, Undelivered
  <1>11. OneOwed' BY <1>1, <1>10 DEF OneOwed, Served
  <1> QED BY <1>6, <1>7, <1>8, <1>9, <1>11

\* A thread of the lane takes the oldest closure.
LEMMA StartKeeps == ASSUME Inductive, StartClosure PROVE Inductive'
  <1> USE DEF Inductive, control, saveVerb, hosts, engine, closures
  <1>1. UNCHANGED <<eng, phase, active, stopper, saveCall, claims, job>> BY DEF StartClosure
  <1>2. /\ backlog # <<>> /\ backlog' = Tail(backlog) /\ backlog \in Seq(Claims)
        /\ fate' = [fate EXCEPT ![Head(backlog)] = "running"]
        BY DEF StartClosure, Lane!Start, Shape
  <1>3. /\ Len(backlog) \in Nat \ {0} /\ Len(backlog') = Len(backlog) - 1
        /\ backlog' \in Seq(Claims)
        /\ \A i \in 1 .. Len(backlog') : backlog'[i] = backlog[i + 1]
        /\ Head(backlog) = backlog[1] /\ Head(backlog) \in Claims
        /\ \A i \in 1 .. Len(backlog) : backlog[i] \in Claims
    <2>1. Len(backlog) \in Nat /\ \A i \in 1 .. Len(backlog) : backlog[i] \in Claims BY <1>2
    <2>2. Len(backlog) # 0 BY <1>2, EmptySeq
    <2>3. Head(backlog) = backlog[1] BY <1>2
    <2> QED BY <1>2, <2>1, <2>2, <2>3, HeadTailProperties
  <1>4. fate[Head(backlog)] = "queued" BY <1>3 DEF BacklogHoldsQueued
  <1>5. \A n \in Claims : fate'[n] = IF n = Head(backlog) THEN "running" ELSE fate[n]
        BY <1>2, <1>3 DEF Shape
  <1>6. fate' \in [Claims -> {"new", "queued", "running", "refused", "done", "threw"}]
        BY <1>2, <1>3 DEF Shape
  <1>7. Shape' BY <1>1, <1>3, <1>6 DEF Shape
  <1>8. BacklogHoldsQueued'
    <2>1. \A i \in 1 .. Len(backlog') : i + 1 \in 1 .. Len(backlog) /\ backlog'[i] = backlog[i + 1]
          BY <1>3
    <2>2. \A i \in 1 .. Len(backlog') : backlog'[i] # Head(backlog)
          BY <1>3, <2>1 DEF BacklogHoldsQueued
    <2>3. \A i \in 1 .. Len(backlog') : fate'[backlog'[i]] = "queued"
          BY <1>3, <1>5, <2>1, <2>2 DEF BacklogHoldsQueued
    <2>4. \A i, k \in 1 .. Len(backlog') : backlog'[i] = backlog'[k] => i = k
          BY <2>1 DEF BacklogHoldsQueued
    <2> QED BY <2>3, <2>4 DEF BacklogHoldsQueued
  <1>9. \A n \in Claims : OnLane(n)' <=> OnLane(n) BY <1>3, <1>4, <1>5 DEF OnLane
  <1>10. ClosuresInPlace' BY <1>1, <1>9 DEF ClosuresInPlace
  <1>11. OneOwed' BY <1>1 DEF OneOwed, Served, Owing
  <1>12. CountIsInside' /\ StopInOrder' BY <1>1 DEF CountIsInside, StopInOrder, Inside
  <1> QED BY <1>7, <1>8, <1>10, <1>11, <1>12

-----------------------------------------------------------------------------
(* Owner threads and stop(). *)

\* The engine and the lane do not notice what an owner thread does outside.
LEMMA OwnersOnly ==
    ASSUME Inductive, UNCHANGED <<eng, claims, fate, backlog, job>>,
           phase' \in [Callers -> {"out", "save", "open", "in", "leaving"}],
           stopper' \in {"running", "join", "drain", "deleted"},
           DOMAIN saveCall' = Callers, Served' \subseteq Served,
           \A c \in Callers : saveCall[c].kind = "running" => saveCall'[c] = saveCall[c],
           CountIsInside', StopInOrder'
    PROVE  Inductive'
  <1> USE DEF Inductive
  <1>1. Shape' BY DEF Shape
  <1>2. BacklogHoldsQueued' BY DEF BacklogHoldsQueued
  <1>3. ClosuresInPlace' BY DEF ClosuresInPlace, OnLane
  <1>4. Owing' = Owing BY DEF Owing
  <1>5. OneOwed' BY <1>4 DEF OneOwed
  <1> QED BY <1>1, <1>2, <1>3, <1>5

\* A CallerScope begins.
LEMMA EnterKeeps ==
    ASSUME Inductive, NEW c \in Callers, NEW verb \in {"save", "open"}, NEW s, Enter(c, verb, s)
    PROVE  Inductive'
  <1> USE DEF engine, lane, closures, saveVerb
  <1>1. UNCHANGED <<eng, claims, fate, backlog, job, stopper, saveCall>> BY DEF Enter
  <1>2. phase' \in [Callers -> {"out", "save", "open", "in", "leaving"}]
        BY DEF Enter, Inductive, Shape
  <1>3. Inside' = Inside \cup {c} /\ c \notin Inside /\ Inside \subseteq Callers
        BY DEF Enter, Inside, Inductive, Shape
  <1>4. CountIsInside'
    <2>1. IsFiniteSet(Inside) BY <1>3, FS_Subset
    <2>2. Cardinality(Inside') = Cardinality(Inside) + 1 BY <1>3, <2>1, FS_AddElement
    <2> QED BY <2>2 DEF Enter, CountIsInside, Inductive
  <1>5. StopInOrder' BY <1>1 DEF Enter, StopInOrder
  <1>6. Served' = Served BY <1>1 DEF Served
  <1> QED BY <1>1, <1>2, <1>4, <1>5, <1>6, OwnersOnly DEF Inductive, Shape

\* Inside the verb: the call begins, or returns; its caller is not the one whose
\* save is claimed.
LEMMA InVerbKeeps ==
    ASSUME Inductive, NEW c \in Callers, Admit(c) \/ CallReturns(c) PROVE Inductive'
  <1> USE DEF engine, lane, closures, control, saveVerb
  <1>1. UNCHANGED <<eng, claims, fate, backlog, job, stopper, active>> BY DEF Admit, CallReturns
  <1>2. phase' \in [Callers -> {"out", "save", "open", "in", "leaving"}]
        /\ stopper' \in {"running", "join", "drain", "deleted"}
        BY <1>1 DEF Admit, CallReturns, Inductive, Shape
  <1>3. Inside' = Inside BY DEF Admit, CallReturns, Inside, Inductive, Shape
  <1>4. CountIsInside' /\ StopInOrder' BY <1>1, <1>3 DEF CountIsInside, StopInOrder, Inductive
  <1>5. DOMAIN saveCall = Callers BY DEF Inductive, Shape
  <1>6. CASE UNCHANGED saveCall
    <2>1. Served' = Served BY <1>6 DEF Served
    <2> QED BY <1>1, <1>2, <1>4, <1>5, <1>6, <2>1, OwnersOnly
  <1>7. ASSUME NEW p \in {"waiting", "idle"}, saveCall' = [saveCall EXCEPT ![c] = Save!Phase(p)],
               saveCall[c].kind # "running"
        PROVE  Inductive'
    <2>1. \A d \in Callers : saveCall'[d] = IF d = c THEN Save!Phase(p) ELSE saveCall[d]
          BY <1>5, <1>7
    <2>2. DOMAIN saveCall' = Callers BY <1>5, <1>7
    <2>3. saveCall'[c].kind \in {"idle", "waiting"} BY <2>1 DEF Save!Phase
    <2>4. Served' \subseteq Served BY <2>1, <2>3 DEF Served
    <2> QED BY <1>1, <1>2, <1>4, <1>7, <2>1, <2>2, <2>4, OwnersOnly
  <1>8. CASE Save!Invoke(c)
    <2>1. saveCall[c].kind = "idle" BY <1>8 DEF Save!Invoke, Save!Phase
    <2> QED BY <1>7, <1>8, <2>1 DEF Save!Invoke
  <1>9. CASE Save!Release(c)
    <2>1. saveCall[c].kind \in {"answer", "failed", "waiting"}
          BY <1>9 DEF Save!Release, Save!Phase
    <2> QED BY <1>7, <1>9, <2>1 DEF Save!Release
  <1> QED BY <1>6, <1>8, <1>9 DEF Admit, CallReturns

\* A CallerScope ends.
LEMMA LeaveKeeps == ASSUME Inductive, NEW c \in Callers, Leave(c) PROVE Inductive'
  <1> USE DEF engine, lane, closures, saveVerb
  <1>1. UNCHANGED <<eng, claims, fate, backlog, job, stopper, saveCall>> BY DEF Leave
  <1>2. phase' \in [Callers -> {"out", "save", "open", "in", "leaving"}]
        BY DEF Leave, Inductive, Shape
  <1>3. Inside' = Inside \ {c} /\ c \in Inside /\ Inside \subseteq Callers
        BY DEF Leave, Inside, Inductive, Shape
  <1>4. CountIsInside'
    <2>1. IsFiniteSet(Inside) BY <1>3, FS_Subset
    <2>2. Cardinality(Inside') = Cardinality(Inside) - 1 BY <1>3, <2>1, FS_RemoveElement
    <2> QED BY <2>2 DEF Leave, CountIsInside, Inductive
  <1>5. StopInOrder' BY <1>1, <1>3 DEF StopInOrder, Inductive
  <1>6. Served' = Served BY <1>1 DEF Served
  <1> QED BY <1>1, <1>2, <1>4, <1>5, <1>6, OwnersOnly DEF Inductive, Shape

\* delete waits for the count of callers to be zero.
LEMMA StopKeeps == ASSUME Inductive, Stop PROVE Inductive'
  <1> USE DEF Stop, RequestStop, JoinAndClose, Delete, engine, lane, closures, saveVerb
  <1>1. UNCHANGED <<eng, claims, fate, backlog, job, saveCall, phase, active>> BY DEF control
  <1>2. Inside' = Inside /\ Served' = Served BY <1>1 DEF Inside, Served
  <1>3. stopper' \in {"running", "join", "drain", "deleted"} OBVIOUS
  <1>4. stopper' = "deleted" => Inside = {}
    <2>1. IsFiniteSet(Inside)
      <3>1. Inside \subseteq Callers BY DEF Inside
      <3> QED BY <3>1, FS_Subset
    <2>2. active = 0 => Inside = {} BY <2>1, FS_EmptySet DEF Inductive, CountIsInside
    <2> QED BY <2>2
  <1>5. StopInOrder' BY <1>1, <1>2, <1>4 DEF StopInOrder, Inductive
  <1>6. CountIsInside' BY <1>1, <1>2 DEF CountIsInside, Inductive
  <1> QED BY <1>1, <1>2, <1>3, <1>5, <1>6, OwnersOnly DEF Inductive, Shape

\* An edit verb posts and returns.
LEMMA PostEditKeeps ==
    ASSUME Inductive, (\E c \in Callers, e \in Edits : PostEdit(c, e)) \/ UNCHANGED vars
    PROVE  Inductive'
  <1>1. UNCHANGED <<eng, around>>
        BY DEF PostEdit, vars, around, engine, control, lane, closures, saveVerb, hosts
  <1> USE DEF Inductive, around
  <1>2. Shape' BY <1>1 DEF Shape
  <1>3. CountIsInside' /\ StopInOrder' BY <1>1 DEF CountIsInside, StopInOrder, Inside
  <1>4. BacklogHoldsQueued' BY <1>1 DEF BacklogHoldsQueued
  <1>5. ClosuresInPlace' BY <1>1 DEF ClosuresInPlace, OnLane
  <1>6. OneOwed' BY <1>1 DEF OneOwed, Owing, Served
  <1> QED BY <1>2, <1>3, <1>4, <1>5, <1>6

-----------------------------------------------------------------------------
LEMMA InductiveNext == Inductive /\ [Next]_vars => Inductive'
  <1> SUFFICES ASSUME Inductive, [Next]_vars PROVE Inductive' OBVIOUS
  <1>1. CASE Frame
        BY <1>1, FrameMoves, ClaimKeeps, PostKeeps, EngineAnswersKeep DEF Frame
  <1>2. CASE Throw BY <1>2, ThrowKeeps
  <1>3. CASE Teardown
        BY <1>3, TeardownMoves, OwnSaveKeeps, ClosureKeeps DEF Teardown
  <1>4. CASE LaneStep
        BY <1>4, StartKeeps, ClosureKeeps, PublishKeeps, EndKeeps DEF LaneStep, Deliver
  <1>5. ASSUME NEW c \in Callers, Host(c) PROVE Inductive'
    <2>1. CASE CallerStep(c) BY <2>1, InVerbKeeps, LeaveKeeps DEF CallerStep
    <2>2. CASE \E e \in Edits : PostEdit(c, e) BY <2>2, PostEditKeeps
    <2>3. CASE Enter(c, "save", NoScene) BY <2>3, EnterKeeps
    <2>4. CASE \E s \in plan.scenes : Enter(c, "open", s) BY <2>4, EnterKeeps
    <2> QED BY <1>5, <2>1, <2>2, <2>3, <2>4 DEF Host
  <1>6. CASE Stop BY <1>6, StopKeeps
  <1>7. CASE UNCHANGED vars BY <1>7, PostEditKeeps
  <1> QED BY <1>1, <1>2, <1>3, <1>4, <1>5, <1>6, <1>7 DEF Next, Engine

LEMMA Invariance == Spec => []Inductive
  BY InductiveInit, InductiveNext, PTL DEF Spec

\* commit_scene_save is a read-modify-write of a scene file without a lock; at
\* most one thread is ever inside it, of the lane's and the engine's, however
\* many threads the lane has: a save is claimed only when no other is owed its
\* answer, and the teardown save runs on a quiet lane.
THEOREM OneWriterAtATime == Spec => []OneWriter
  <1>1. Inductive => OneWriter
    <2> SUFFICES ASSUME Inductive,
                        NEW m \in DOMAIN job, job[m].at \in {"read", "stage", "rename", "through"},
                        NEW n \in DOMAIN job, job[n].at \in {"read", "stage", "rename", "through"}
                 PROVE  m = n
          BY DEF OneWriter
    <2>1. m \in {0} \cup Claims /\ n \in {0} \cup Claims BY DEF Inductive, Shape
    <2>2. ASSUME NEW k \in Claims, job[k].at # "none" PROVE job[0].at = "none"
          BY <2>2 DEF Inductive, ClosuresInPlace, Quieted
    <2>3. m \in Claims => m \in Owing BY DEF Owing, Undelivered, Places
    <2>4. n \in Claims => n \in Owing BY DEF Owing, Undelivered, Places
    <2> QED BY <2>1, <2>2, <2>3, <2>4 DEF Inductive, OneOwed
  <1> QED BY <1>1, Invariance, PTL

\* Once wz_host_runtime_stop() has deleted the runtime nobody can touch it: the
\* engine thread is gone, no caller is inside a verb however late it entered, and
\* no closure that captured the control is queued or running.
THEOREM NothingLeft == Spec => []NothingTouchesTheDeleted
  <1>1. Inductive => NothingTouchesTheDeleted
        BY DEF Inductive, StopInOrder, ClosuresInPlace, Inside, Quieted, NothingTouchesTheDeleted
  <1> QED BY <1>1, Invariance, PTL

-----------------------------------------------------------------------------
(* The documents.  The save and the open verb are both documented for "the  *)
(* owner thread" (editor_runtime.h:480 and :577), and the channels keep two *)
(* calls of one verb apart but not a save from an open.  What follows is    *)
(* for owners that do: one thread makes all the calls, or nobody opens a    *)
(* scene.  Two threads that do open and save at once can lose a save.       *)

OneDriver == \A p \in Plans : p.open = 0 \/ \E c \in Callers : p.callers \subseteq {c}

PlanType == [callers : SUBSET Callers, scenes : SUBSET Scenes, edits : SUBSET Edits,
             pose : Nat, posed : SUBSET Scenes, save : 0 .. MaxSaves, open : Nat]

\* A thread is in one verb at a time, and an open knows its scene.
CallsApart ==
    /\ plan \in PlanType
    /\ DOMAIN openCall = Callers /\ DOMAIN target = Callers
    /\ \A c \in Callers :
         /\ phase[c] # "out" => c \in plan.callers
         /\ phase[c] # "in" => saveCall[c].kind = "idle" /\ openCall[c].kind = "idle"
         /\ saveCall[c].kind = "idle" \/ openCall[c].kind = "idle"
         /\ phase[c] = "open" \/ openCall[c].kind # "idle" => target[c] \in Scenes
    /\ \/ \E c \in Callers : plan.callers \subseteq {c}
       \/ plan.open = 0 /\ \A c \in Callers : phase[c] # "open" /\ openCall[c].kind = "idle"

\* File f holds document d, but for what the flags still call for.
Holds(f, d, flags) ==
    /\ "scene" \in flags \/ d.edits \subseteq f.edits
    /\ "camera" \in flags \/ d.pose = f.pose

IsDoc(d) == d = [scene |-> d.scene, edits |-> d.edits, pose |-> d.pose]
Reports == [err : FileErrors, restore : SUBSET Flags]
Writers == {0} \cup Claims

DataTypes ==
    /\ IsDoc(doc) /\ doc.scene \in Scenes
    /\ DOMAIN disk = Scenes /\ DOMAIN durable = Scenes
    /\ \A s \in Scenes : IsDoc(disk[s]) /\ disk[s].scene = s /\ durable[s].scene = s
    /\ \A d \in cached : IsDoc(d) /\ d.scene \in Scenes
    /\ \A n \in Writers : job[n].work.clears \subseteq Flags /\ job[n].err \in FileErrors
    /\ prepared.clears \subseteq Flags
    /\ results \in Seq(Reports)

Ahead == {"read", "stage", "rename"}    \* the scene file is not replaced yet
OpenFile == disk[doc.scene]
InOpenScene == {k[2] : k \in {k \in kept : k[1] = doc.scene}}

\* The nodes that an open found cached are no part of a save before an edit is.
Stale == adrift \cap {"scene"}

\* A save under way knows a document the working one has grown from; its file
\* has it, or will have once it is replaced, but for stale nodes.
SnapshotHolds(n) ==
    /\ IsDoc(job[n].work.doc) /\ job[n].work.doc.scene = doc.scene
    /\ InOpenScene \subseteq job[n].work.doc.edits /\ job[n].work.doc.edits \subseteq doc.edits
    /\ Holds(job[n].work.doc, doc, dirty)
    /\ n \in Claims => job[n].work.doc = promised
    /\ job[n].at \in Ahead =>
         job[n].err = "None" /\ Holds(OpenFile, job[n].work.doc, job[n].work.clears \cup Stale)
    /\ job[n].at = "stage" => job[n].file = OpenFile
    /\ job[n].at = "rename" =>
         /\ job[n].file = job[n].flushed
         /\ IsDoc(job[n].file) /\ job[n].file.scene = doc.scene
         /\ InOpenScene \subseteq job[n].file.edits
         /\ Holds(job[n].file, job[n].work.doc, Stale)
    /\ job[n].at = "through" => job[n].err = "None" /\ job[n].flushed = OpenFile
    /\ job[n].at = "restore" => job[n].err # "None"
    /\ job[n].at \in {"through", "result", "publish"} /\ job[n].err = "None" =>
         Holds(OpenFile, job[n].work.doc, Stale)

SnapshotsHold == \A n \in Writers : job[n].at \in Undelivered => SnapshotHolds(n)

\* What the working document has and its file has not is flagged: dirty, or on
\* the way back to dirty from a save that failed or may fail yet, or adrift.
Returning == {n \in Writers : job[n].at \in Ahead \cup {"restore"}}
Owed ==
    dirty \cup restore \cup RestoredBy(results) \cup prepared.clears
    \cup UNION {job[n].work.clears : n \in Returning}
NothingForgotten == Holds(OpenFile, doc, Owed \cup adrift)

\* A scene file differs from what the power loss leaves only inside a rename.
Settled ==
    \A s \in Scenes : disk[s] # durable[s] =>
        \E n \in Writers : job[n].at = "through" /\ job[n].work.doc.scene = s

\* What was answered None is in the file, and in the document while it is open.
KeptIsKept ==
    /\ InOpenScene \subseteq doc.edits
    /\ \A k \in kept : k[1] \in Scenes /\ k[2] \in disk[k[1]].edits /\ k[2] \in durable[k[1]].edits

\* The engine in a claim, in an open, and in its teardown.
ClaimInOrder ==
    /\ eng \in Claiming => promised = doc
    /\ eng = "post" => prepared.doc = doc /\ Holds(OpenFile, doc, prepared.clears \cup Stale)
    /\ eng # "post" => prepared = NoWork
    /\ eng \in {"retake", "prepare", "lastTake", "save"} => results = <<>>
    /\ eng \in {"prepare", "save"} => restore = {}
    /\ eng = "saving" => dirty = {}
    /\ eng \in {"camera", "cameraUnbound"} => "camera" \in adrift

TeardownInOrder ==
    saved = "None" =>
        /\ eng \in {"join", "finish", "exited"}
        /\ \A n \in Writers : job[n].at = "none"
        /\ Holds(durable[doc.scene], doc, adrift)

DataSafe ==
    /\ DataTypes /\ SnapshotsHold /\ NothingForgotten /\ Settled
    /\ KeptIsKept /\ ClaimInOrder /\ TeardownInOrder

-----------------------------------------------------------------------------
(* Who calls. *)

\* What the owner threads are inside of.
calls == <<phase, saveCall, openCall, target, plan>>

LEMMA CallsInit == OneDriver /\ Init => CallsApart
  <1> SUFFICES ASSUME OneDriver, Init PROVE CallsApart OBVIOUS
  <1>1. plan \in PlanType BY DEF Init, PlanType
  <1>2. plan.open = 0 \/ \E c \in Callers : plan.callers \subseteq {c} BY DEF Init, OneDriver
  <1>3. \A c \in Callers : /\ phase[c] = "out"
                            /\ saveCall[c].kind = "idle" /\ openCall[c].kind = "idle"
        BY DEF Init, Save!Phase, Open!Phase
  <1>4. DOMAIN openCall = Callers /\ DOMAIN target = Callers BY DEF Init
  <1> QED BY <1>1, <1>2, <1>3, <1>4 DEF CallsApart

\* The engine and the lane only move calls that are under way.
LEMMA CallsServed ==
    ASSUME CallsApart, UNCHANGED <<phase, target, plan>>,
           DOMAIN openCall' = Callers,
           \A c \in Callers : /\ saveCall[c].kind = "idle" => saveCall'[c].kind = "idle"
                              /\ openCall[c].kind = "idle" => openCall'[c].kind = "idle"
    PROVE  CallsApart'
  BY DEF CallsApart

LEMMA EngineServes ==
    ASSUME Inductive, CallsApart, Engine \/ LaneStep \/ UNCHANGED vars
    PROVE  CallsApart'
  <1>1. /\ UNCHANGED hosts
        /\ \/ UNCHANGED saveCall
           \/ \E c \in Callers : Save!Begin(c) \/ \E a : Save!FinishWith(c, a)
        /\ \/ UNCHANGED openCall
           \/ \E c \in Callers : Open!Begin(c) \/ \E a : Open!FinishWith(c, a)
    <2> USE DEF saveVerb, openVerb
    <2>1. CASE Frame
          BY <2>1 DEF Frame, LeaveLoop, DrainEdits, Finalize, FinalizeInClaim, DrainResults,
             TakeRestore, ClaimSave, ClaimOpen, LoadScene, RestoreCamera, LoadFails, NoSavePending,
             PrepareClean, PrepareDirty, PostClosure, PostFails, NoOpenPending, Simulate, Answer
    <2>2. CASE Throw BY <2>2 DEF Throw, Answer
    <2>3. CASE Teardown
          BY <2>3 DEF Teardown, CloseLane, QuiesceLane, LastDrain, DrainResults, TakeRestore,
             TeardownSave, TeardownSaved, JoinLanes, MarkFinished, Commit, CommitRead,
             CommitStage, WriteStaging, CommitRename, CommitSettles, CommitFails,
             Save!Close, Open!Close
    <2>4. CASE LaneStep
          BY <2>4 DEF LaneStep, StartClosure, Deliver, RequestRestore, PostResult, PublishSave,
             EndClosure, Commit, CommitRead, CommitStage, WriteStaging, CommitRename,
             CommitSettles, CommitFails, Answer
    <2>5. CASE UNCHANGED vars BY <2>5 DEF vars
    <2> QED BY <2>1, <2>2, <2>3, <2>4, <2>5 DEF Engine
  <1>2. \A c \in Callers : saveCall[c].kind = "idle" => saveCall'[c].kind = "idle"
        BY <1>1 DEF Inductive, Shape, Save!Begin, Save!FinishWith, Save!Phase
  <1>3. DOMAIN openCall = Callers BY DEF CallsApart
  <1>4. DOMAIN openCall' = Callers
        /\ \A c \in Callers : openCall[c].kind = "idle" => openCall'[c].kind = "idle"
        BY <1>1, <1>3 DEF Open!Begin, Open!FinishWith, Open!Phase
  <1> QED BY <1>1, <1>2, <1>4, CallsServed DEF hosts

LEMMA OwnersCall ==
    ASSUME Inductive, CallsApart, NEW c \in Callers, Host(c)
    PROVE  CallsApart'
  <1> USE DEF Inductive, Shape, CallsApart
  <1>1. CASE \E e \in Edits : PostEdit(c, e)
        BY <1>1 DEF PostEdit, saveVerb, openVerb, hosts
  <1>2. ASSUME NEW verb \in {"save", "open"}, NEW s, Enter(c, verb, s),
               verb = "open" => s \in Scenes
        PROVE  CallsApart'
    <2>1. UNCHANGED <<saveCall, openCall>> BY <1>2 DEF Enter, saveVerb, openVerb
    <2>2. phase' = [phase EXCEPT ![c] = verb] /\ target' = [target EXCEPT ![c] = s]
          /\ phase[c] = "out" /\ c \in plan.callers BY <1>2 DEF Enter
    <2>3. plan' \in PlanType /\ plan'.callers = plan.callers
          /\ (plan.open = 0 => plan'.open = 0 /\ verb # "open")
      <3>1. CASE verb = "save" BY <1>2, <3>1 DEF Enter, PlanType
      <3>2. CASE verb = "open" BY <1>2, <3>2 DEF Enter, PlanType
      <3> QED BY <3>1, <3>2
    <2> QED BY <1>2, <2>1, <2>2, <2>3
  <1>3. CASE \E s \in plan.scenes : Enter(c, "open", s)
    <2>1. plan.scenes \subseteq Scenes BY DEF PlanType
    <2> QED BY <1>2, <1>3, <2>1
  <1>4. CASE Admit(c)
    <2>1. UNCHANGED <<target, plan>> BY <1>4 DEF Admit
    <2>2. CASE UNCHANGED <<saveCall, openCall>> /\ phase' = [phase EXCEPT ![c] = "leaving"]
          BY <1>4, <2>1, <2>2 DEF Admit
    <2>3. CASE /\ phase' = [phase EXCEPT ![c] = "in"] /\ phase[c] = "save"
               /\ Save!Invoke(c) /\ UNCHANGED openCall
          BY <2>1, <2>3 DEF Save!Invoke, Save!Phase
    <2>4. CASE /\ phase' = [phase EXCEPT ![c] = "in"] /\ phase[c] = "open"
               /\ Open!Invoke(c) /\ UNCHANGED saveCall
      <3>1. openCall' = [openCall EXCEPT ![c] = Open!Phase("waiting")]
            BY <2>4 DEF Open!Invoke
      <3> QED BY <2>1, <2>4, <3>1
    <2> QED BY <1>4, <2>2, <2>3, <2>4 DEF Admit, saveVerb, openVerb
  <1>5. CASE CallReturns(c)
    <2>1. UNCHANGED <<target, plan>> /\ phase[c] = "in"
          /\ phase' = [phase EXCEPT ![c] = "leaving"] BY <1>5 DEF CallReturns
    <2>2. CASE Save!Release(c) /\ UNCHANGED openCall
          BY <2>1, <2>2 DEF Save!Release, Save!Phase
    <2>3. CASE Open!Release(c) /\ UNCHANGED saveCall
          BY <2>1, <2>3 DEF Open!Release, Open!Phase
    <2> QED BY <1>5, <2>2, <2>3 DEF CallReturns, openVerb, saveVerb
  <1>6. CASE Leave(c)
        BY <1>6 DEF Leave, saveVerb, openVerb
  <1> QED BY <1>1, <1>2, <1>3, <1>4, <1>5, <1>6 DEF Host, CallerStep

LEMMA CallsNext == ASSUME Inductive, CallsApart, [Next]_vars PROVE CallsApart'
  <1>1. CASE Stop
    <2>1. UNCHANGED calls
          BY <1>1 DEF Stop, RequestStop, JoinAndClose, Delete, calls, saveVerb, openVerb
    <2> QED BY <2>1 DEF calls, CallsApart
  <1> QED BY <1>1, EngineServes, OwnersCall DEF Next

-----------------------------------------------------------------------------
(* Documents and their files. *)

LEMMA HoldsMore ==
    ASSUME NEW f, NEW d, NEW some, NEW more, Holds(f, d, some), some \subseteq more
    PROVE  Holds(f, d, more)
  BY DEF Holds

\* A file that holds the snapshot holds the document that has grown from it.
LEMMA HoldsThrough ==
    ASSUME NEW f, NEW w, NEW d, NEW some, NEW more, Holds(f, w, some), Holds(w, d, more)
    PROVE  Holds(f, d, some \cup more)
  BY DEF Holds

\* What commit_scene_save writes holds its snapshot, whichever flags were clear.
LEMMA EditedHolds ==
    ASSUME NEW base, NEW work, IsDoc(work.doc), NEW stale, stale \subseteq {"scene"},
           Holds(base, work.doc, work.clears \cup stale)
    PROVE  /\ IsDoc(Edited(base, work)) /\ Edited(base, work).scene = work.doc.scene
           /\ Edited(base, work).edits \in {work.doc.edits, base.edits}
           /\ Holds(Edited(base, work), work.doc, stale)
  <1>1. Edited(base, work) = [scene |-> work.doc.scene,
                              edits |-> IF "scene" \in work.clears THEN work.doc.edits
                                                                   ELSE base.edits,
                              pose |-> work.doc.pose]
        BY DEF Edited, IsDoc
  <1> QED BY <1>1 DEF IsDoc, Holds

\* A report more on the queue takes nothing from what the others give back.
LEMMA AppendRestores ==
    ASSUME NEW rs \in Seq(Reports), NEW r \in Reports
    PROVE  Append(rs, r) \in Seq(Reports) /\ RestoredBy(rs) \subseteq RestoredBy(Append(rs, r))
  <1>1. /\ Append(rs, r) \in Seq(Reports)
        /\ DOMAIN rs \subseteq DOMAIN Append(rs, r)
        /\ \A i \in DOMAIN rs : Append(rs, r)[i] = rs[i]
        OBVIOUS
  <1>2. RestoredBy(rs) \subseteq RestoredBy(Append(rs, r)) BY <1>1 DEF RestoredBy
  <1> QED BY <1>1, <1>2

LEMMA NothingRestored == RestoredBy(<<>>) = {}
  BY DEF RestoredBy

\* One save of a scene file is under way at a time, the engine's own included.
LEMMA Alone ==
    ASSUME Inductive, NEW m \in Writers, job[m].at \in Undelivered,
           NEW n \in Writers, job[n].at \in Undelivered
    PROVE  m = n
  <1>1. ASSUME NEW k \in Claims, job[k].at # "none" PROVE job[0].at = "none"
        BY <1>1 DEF Inductive, ClosuresInPlace, Quieted
  <1>2. m \in Claims => m \in Owing BY DEF Owing
  <1>3. n \in Claims => n \in Owing BY DEF Owing
  <1>4. job[m].at # "none" /\ job[n].at # "none" BY DEF Undelivered
  <1> QED BY <1>1, <1>2, <1>3, <1>4 DEF Inductive, OneOwed, Writers

\* None is under way while the engine is in a claim, or in its teardown but for
\* its own save.
LEMMA NoneUnderway ==
    ASSUME Inductive, eng \in Claiming \cup (Quieted \ {"saving"})
    PROVE  \A n \in Writers : job[n].at \notin Undelivered
  <1>1. job[0].at = "none" BY DEF Inductive, ClosuresInPlace, Claiming, Quieted
  <1>2. CASE eng \in Claiming
    <2>1. Owing = {} BY <1>2 DEF Inductive, OneOwed
    <2> QED BY <1>1, <2>1 DEF Writers, Owing, Undelivered
  <1>3. CASE eng \in Quieted
    <2>1. \A n \in Claims : job[n].at = "none" BY <1>3 DEF Inductive, ClosuresInPlace
    <2> QED BY <1>1, <2>1 DEF Writers, Undelivered
  <1> QED BY <1>2, <1>3

\* Then files are settled, and only dirty flags are owed.
LEMMA Quiet ==
    ASSUME DataSafe, \A n \in Writers : job[n].at \notin Undelivered
    PROVE  /\ \A s \in Scenes : disk[s] = durable[s]
           /\ Returning = {}
           /\ UNION {job[n].work.clears : n \in Returning} = {}
  <1>1. \A s \in Scenes : disk[s] = durable[s]
        BY DEF DataSafe, Settled, Undelivered, Places
  <1>2. Returning = {} BY DEF Returning, Ahead, Undelivered, Places
  <1> QED BY <1>1, <1>2

-----------------------------------------------------------------------------
LEMMA DataInit == Init => DataSafe
  <1> SUFFICES ASSUME Init PROVE DataSafe OBVIOUS
  <1>1. \A n \in Writers : job[n] = NoJob BY DEF Init, Writers
  <1>2. NoJob.at = "none" /\ NoJob.err = "None" /\ NoJob.work = NoWork /\ NoWork.clears = {}
        BY DEF NoJob, NoWork
  <1>3. doc = [scene |-> MainScene, edits |-> {}, pose |-> 0] BY DEF Init
  <1>4. \A s \in Scenes : disk[s] = [scene |-> s, edits |-> {},
                                    pose |-> IF s \in plan.posed THEN 0 ELSE NoPose]
        BY DEF Init
  <1>5. DataTypes
    <2>1. \A n \in Writers : job[n].work.clears \subseteq Flags /\ job[n].err \in FileErrors
          BY <1>1, <1>2 DEF FileErrors
    <2>2. \A s \in Scenes : IsDoc(disk[s]) /\ disk[s].scene = s /\ durable[s].scene = s
          BY <1>4 DEF Init, IsDoc
    <2>3. IsDoc(doc) /\ doc.scene \in Scenes BY <1>3, MainSceneAssumption DEF IsDoc
    <2>4. results \in Seq(Reports) BY DEF Init
    <2>5. \A d \in cached : IsDoc(d) /\ d.scene \in Scenes
          BY <1>4, MainSceneAssumption DEF Init, IsDoc
    <2> QED BY <1>2, <2>1, <2>2, <2>3, <2>4, <2>5 DEF Init, DataTypes
  <1>6. SnapshotsHold BY <1>1, <1>2 DEF SnapshotsHold, Undelivered
  <1>7. NothingForgotten
    <2>1. OpenFile = disk[MainScene] BY <1>3 DEF OpenFile
    <2>2. OpenFile.edits = {} /\ ("camera" \in adrift \/ OpenFile.pose = 0)
          BY <1>4, <2>1, MainSceneAssumption DEF Init
    <2> QED BY <1>3, <2>2 DEF NothingForgotten, Holds
  <1>8. Settled BY DEF Init, Settled
  <1>9. KeptIsKept BY DEF Init, KeptIsKept, InOpenScene
  <1>10. ClaimInOrder BY DEF Init, ClaimInOrder, Claiming
  <1>11. TeardownInOrder BY DEF Init, TeardownInOrder
  <1> QED BY <1>5, <1>6, <1>7, <1>8, <1>9, <1>10, <1>11 DEF DataSafe

\* What the documents depend on, but for the engine's place.
documents == <<doc, dirty, prepared, saved, results, restore, job, files, promised, kept, adrift>>

LEMMA DataUntouched == ASSUME DataSafe, UNCHANGED <<eng, documents>> PROVE DataSafe'
  <1> USE DEF documents, files, DataSafe
  <1>1. InOpenScene' = InOpenScene /\ OpenFile' = OpenFile /\ Owed' = Owed /\ Stale' = Stale
        BY DEF InOpenScene, OpenFile, Owed, Returning, Stale
  <1>2. DataTypes' BY DEF DataTypes
  <1>3. SnapshotsHold' BY <1>1 DEF SnapshotsHold, SnapshotHolds
  <1>4. NothingForgotten' /\ KeptIsKept' BY <1>1 DEF NothingForgotten, KeptIsKept
  <1>5. Settled' /\ TeardownInOrder' BY DEF Settled, TeardownInOrder
  <1>6. ClaimInOrder' BY <1>1 DEF ClaimInOrder
  <1> QED BY <1>2, <1>3, <1>4, <1>5, <1>6

-----------------------------------------------------------------------------
(* The engine's steps. *)

\* To another place, and out of a claim at most dropping what was promised.
LEMMA EngineMoves ==
    ASSUME Inductive, DataSafe, UNCHANGED <<doc, dirty, prepared, saved, results, restore, job,
                                            disk, durable, kept, adrift>>,
           \A d \in cached' : IsDoc(d) /\ d.scene \in Scenes,
           promised' = promised \/ Owing = {},
           eng # "post",
           eng' \notin Claiming \cup {"lastTake", "save", "saving", "camera", "cameraUnbound"},
           eng \in {"join", "finish"} => eng' \in {"finish", "exited"},
           eng # "exited"
    PROVE  DataSafe'
  <1> USE DEF DataSafe
  <1>1. InOpenScene' = InOpenScene /\ OpenFile' = OpenFile /\ Owed' = Owed /\ Stale' = Stale
        BY DEF InOpenScene, OpenFile, Owed, Returning, Stale
  <1>2. DataTypes' BY DEF DataTypes
  <1>3. SnapshotsHold'
    <2>1. CASE promised' = promised BY <1>1, <2>1 DEF SnapshotsHold, SnapshotHolds
    <2>2. CASE Owing = {}
      <3>1. \A n \in Claims : job[n].at \notin Undelivered BY <2>2 DEF Owing
      <3> QED BY <1>1, <3>1 DEF SnapshotsHold, SnapshotHolds
    <2> QED BY <2>1, <2>2
  <1>4. NothingForgotten' /\ KeptIsKept' BY <1>1 DEF NothingForgotten, KeptIsKept
  <1>5. Settled' BY DEF Settled
  <1>6. TeardownInOrder' BY DEF TeardownInOrder
  <1>7. ClaimInOrder' BY DEF ClaimInOrder, Claiming
  <1> QED BY <1>2, <1>3, <1>4, <1>5, <1>6, <1>7

LEMMA MovesKeepData ==
    ASSUME Inductive, DataSafe,
           \/ LeaveLoop \/ NoSavePending \/ NoOpenPending \/ \E c \in Callers : ClaimOpen(c)
           \/ CloseLane \/ QuiesceLane \/ JoinLanes \/ MarkFinished
    PROVE  DataSafe'
  <1> USE DEF LeaveLoop, NoSavePending, NoOpenPending, ClaimOpen, CloseLane,
              QuiesceLane, JoinLanes, MarkFinished, control, closures, files, history
  <1>1. UNCHANGED documents BY DEF documents
  <1>2. eng \in {"top", "claim", "open", "quiesce", "unwind", "quiescing", "join", "finish"}
        OBVIOUS
  <1>3. eng' \in {"quiesce", "open", "simulate", "load", "quiescing", "join", "lastDrain",
                  "finish", "exited"}
        OBVIOUS
  <1>4. eng \in {"join", "finish"} => eng' \in {"finish", "exited"} OBVIOUS
  <1> HIDE DEF LeaveLoop, NoSavePending, NoOpenPending, ClaimOpen, CloseLane,
              QuiesceLane, JoinLanes, MarkFinished
  <1>5. \A d \in cached' : IsDoc(d) /\ d.scene \in Scenes
        BY <1>1 DEF documents, DataSafe, DataTypes
  <1> QED BY <1>1, <1>2, <1>3, <1>4, <1>5, EngineMoves DEF documents, Claiming

\* The answer of a failed save keeps nothing.
LEMMA Failed == ASSUME Answer("IOError") PROVE kept' = kept
  BY DEF Answer

LEMMA ThrowKeepsData == ASSUME Inductive, DataSafe, Throw PROVE DataSafe'
  <1>1. /\ UNCHANGED <<doc, dirty, prepared, saved, results, restore, job, files, adrift>>
        /\ eng' = "unwind"
        /\ eng \in {"top", "simulate", "redrain", "retake", "prepare"} \cup Loading
        BY DEF Throw, Throwing, control, closures
  <1>2. kept' = kept BY Failed DEF Throw
  <1>3. promised' = promised \/ Owing = {} BY DEF Throw, Inductive, OneOwed, Claiming
  <1>4. \A d \in cached' : IsDoc(d) /\ d.scene \in Scenes
        BY <1>1 DEF files, DataSafe, DataTypes
  <1> QED BY <1>1, <1>2, <1>3, <1>4, EngineMoves DEF Claiming, Loading, files

\* Flags on their way back to dirty.
LEMMA FlagsReturn ==
    ASSUME Inductive, DataSafe,
           UNCHANGED <<doc, prepared, saved, job, files, promised, kept, adrift>>,
           dirty \subseteq dirty', Owed' = Owed, results' \in Seq(Reports),
           <<eng, eng'>> \in {<<"drain", "take">>, <<"redrain", "retake">>,
                              <<"lastDrain", "lastTake">>, <<"take", "claim">>,
                              <<"retake", "prepare">>, <<"lastTake", "save">>},
           eng' \in {"retake", "prepare", "lastTake", "save"} => results' = <<>>,
           eng' \in {"prepare", "save"} => restore' = {}
    PROVE  DataSafe'
  <1> USE DEF DataSafe, files
  <1>1. InOpenScene' = InOpenScene /\ OpenFile' = OpenFile /\ Stale' = Stale
        BY DEF InOpenScene, OpenFile, Stale
  <1>2. DataTypes' BY DEF DataTypes
  <1>3. SnapshotsHold'
    <2> SUFFICES ASSUME NEW n \in Writers, job[n].at \in Undelivered PROVE SnapshotHolds(n)'
        BY DEF SnapshotsHold
    <2>1. SnapshotHolds(n) BY DEF SnapshotsHold
    <2>2. Holds(job[n].work.doc, doc, dirty') BY <2>1, HoldsMore DEF SnapshotHolds
    <2> QED BY <1>1, <2>1, <2>2 DEF SnapshotHolds
  <1>4. NothingForgotten' /\ KeptIsKept' BY <1>1 DEF NothingForgotten, KeptIsKept
  <1>5. Settled' BY DEF Settled
  <1>6. TeardownInOrder' BY DEF TeardownInOrder
  <1>7. ClaimInOrder' BY DEF ClaimInOrder, Claiming
  <1> QED BY <1>2, <1>3, <1>4, <1>5, <1>6, <1>7

LEMMA FinalizeKeepsData ==
    ASSUME Inductive, DataSafe, Finalize \/ FinalizeInClaim \/ LastDrain PROVE DataSafe'
  <1>1. ASSUME NEW from, NEW to, DrainResults(from, to),
               <<from, to>> \in {<<"drain", "take">>, <<"redrain", "retake">>,
                                 <<"lastDrain", "lastTake">>}
        PROVE  DataSafe'
    <2>1. /\ UNCHANGED <<doc, prepared, saved, job, files, promised, kept, adrift,
                         restore>>
          /\ dirty' = dirty \cup RestoredBy(results) /\ results' = <<>>
          /\ eng = from /\ eng' = to
          BY <1>1 DEF DrainResults, closures, history
    <2>2. Owed' = Owed BY <2>1, NothingRestored DEF Owed, Returning
    <2>3. results' \in Seq(Reports) BY <2>1
    <2> QED BY <1>1, <2>1, <2>2, <2>3, FlagsReturn
  <1>2. ASSUME NEW from, NEW to, TakeRestore(from, to),
               <<from, to>> \in {<<"take", "claim">>, <<"retake", "prepare">>,
                                 <<"lastTake", "save">>}
        PROVE  DataSafe'
    <2>1. /\ UNCHANGED <<doc, prepared, saved, job, files, promised, kept, adrift,
                         results>>
          /\ dirty' = dirty \cup restore /\ restore' = {}
          /\ eng = from /\ eng' = to
          BY <1>2 DEF TakeRestore, closures, history
    <2>2. Owed' = Owed BY <2>1 DEF Owed, Returning
    <2>3. results' \in Seq(Reports) BY <2>1 DEF DataSafe, DataTypes
    <2>4. eng' \in {"prepare", "save"} => results' = <<>>
          BY <1>2, <2>1 DEF DataSafe, ClaimInOrder
    <2> QED BY <1>2, <2>1, <2>2, <2>3, <2>4, FlagsReturn
  <1> QED BY <1>1, <1>2 DEF Finalize, FinalizeInClaim, LastDrain

\* An edit or a camera move changes the working document and flags it.
LEMMA EditsKeepData == ASSUME Inductive, DataSafe, DrainEdits \/ Simulate PROVE DataSafe'
  <1> USE DEF DataSafe
  <1>1. /\ UNCHANGED <<prepared, saved, results, restore, job, files, promised, kept>>
        /\ eng \in {"top", "simulate"} /\ eng' \in {"drain", "top"}
        BY DEF DrainEdits, Simulate, control, closures, history
  <1>2. IsDoc(doc) /\ doc.scene \in Scenes BY DEF DataTypes
  <1>3. /\ IsDoc(doc') /\ doc'.scene = doc.scene /\ doc.edits \subseteq doc'.edits
        /\ dirty \subseteq dirty'
        /\ Holds(doc, doc', dirty')
        /\ adrift' \subseteq adrift /\ adrift \subseteq adrift' \cup dirty' /\ Stale' = Stale
    <2>1. CASE DrainEdits
      <3> DEFINE applied == {m[2] : m \in {m \in mailbox : m[1] = doc.scene}}
      <3>1. doc' = [doc EXCEPT !.edits = @ \cup applied]
            /\ dirty' = (IF applied = {} THEN dirty ELSE dirty \cup {"scene"})
            /\ adrift' = adrift
            BY <2>1 DEF DrainEdits, history
      <3> HIDE DEF applied
      <3>2. doc' = [scene |-> doc.scene, edits |-> doc.edits \cup applied, pose |-> doc.pose]
            BY <1>2, <3>1 DEF IsDoc
      <3> QED BY <3>1, <3>2 DEF IsDoc, Holds, Stale
    <2>2. CASE Simulate
      <3>1. PICK p \in 0 .. plan.pose :
                 /\ doc' = [doc EXCEPT !.pose = p]
                 /\ dirty' = IF p = doc.pose THEN dirty ELSE dirty \cup {"camera"}
                 /\ adrift' = IF p = doc.pose THEN adrift ELSE adrift \ {"camera"}
            BY <2>2 DEF Simulate
      <3>2. doc' = [scene |-> doc.scene, edits |-> doc.edits, pose |-> p]
            BY <1>2, <3>1 DEF IsDoc
      <3>3. /\ adrift' \subseteq adrift /\ adrift \subseteq adrift' \cup dirty'
            /\ Stale' = Stale
            BY <3>1 DEF Stale
      <3> QED BY <3>1, <3>2, <3>3 DEF IsDoc, Holds
    <2> QED BY <2>1, <2>2
  <1>4. InOpenScene' = InOpenScene /\ OpenFile' = OpenFile
        BY <1>1, <1>3 DEF InOpenScene, OpenFile, files
  <1>5. DataTypes' BY <1>1, <1>3 DEF DataTypes, files
  <1>6. SnapshotsHold'
    <2> SUFFICES ASSUME NEW n \in Writers, job[n].at \in Undelivered PROVE SnapshotHolds(n)'
        BY <1>1 DEF SnapshotsHold
    <2>1. SnapshotHolds(n) BY DEF SnapshotsHold
    <2>2. Holds(job[n].work.doc, doc', dirty \cup dirty')
          BY <1>3, <2>1, HoldsThrough DEF SnapshotHolds
    <2>3. Holds(job[n].work.doc, doc', dirty')
      <3>1. dirty \cup dirty' = dirty' BY <1>3
      <3> QED BY <2>2, <3>1
    <2> QED BY <1>1, <1>3, <1>4, <2>1, <2>3 DEF SnapshotHolds
  <1>7. NothingForgotten'
    <2>1. Owed \cup dirty' = Owed'
          BY <1>1, <1>3 DEF Owed, Returning
    <2>2. Holds(OpenFile, doc', Owed \cup adrift \cup dirty')
          BY <1>3, HoldsThrough DEF NothingForgotten
    <2>3. Owed \cup adrift \cup dirty' \subseteq Owed' \cup adrift' BY <1>3, <2>1
    <2> QED BY <1>4, <2>2, <2>3, HoldsMore DEF NothingForgotten
  <1>8. KeptIsKept' BY <1>1, <1>3, <1>4 DEF KeptIsKept, files
  <1>9. Settled' BY <1>1 DEF Settled, files
  <1>10. TeardownInOrder' BY <1>1 DEF TeardownInOrder
  <1>11. ClaimInOrder' BY <1>1 DEF ClaimInOrder, Claiming
  <1> QED BY <1>5, <1>6, <1>7, <1>8, <1>9, <1>10, <1>11

-----------------------------------------------------------------------------
(* A claim. *)

\* The save is claimed for what the document is now.
LEMMA ClaimKeepsData == ASSUME Inductive, DataSafe, NEW c \in Callers, ClaimSave(c) PROVE DataSafe'
  <1> USE DEF DataSafe
  <1>1. /\ UNCHANGED <<doc, dirty, prepared, saved, results, restore, job, files, kept, adrift>>
        /\ eng = "claim" /\ eng' = "redrain" /\ promised' = doc
        BY DEF ClaimSave, control
  <1> USE DEF files
  <1>2. \A n \in Claims : job[n].at \notin Undelivered
    <2>1. \A d \in Callers : saveCall[d].kind # "running"
          BY DEF ClaimSave, Save!Begin
    <2> QED BY <2>1 DEF Inductive, OneOwed, Owing
  <1>3. InOpenScene' = InOpenScene /\ OpenFile' = OpenFile /\ Owed' = Owed /\ Stale' = Stale
        BY <1>1 DEF InOpenScene, OpenFile, Owed, Returning, Stale
  <1>4. DataTypes' BY <1>1 DEF DataTypes
  <1>5. SnapshotsHold' BY <1>1, <1>2, <1>3 DEF SnapshotsHold, SnapshotHolds
  <1>6. NothingForgotten' /\ KeptIsKept' BY <1>1, <1>3 DEF NothingForgotten, KeptIsKept
  <1>7. Settled' /\ TeardownInOrder' BY <1>1 DEF Settled, TeardownInOrder
  <1>8. ClaimInOrder' BY <1>1 DEF ClaimInOrder
  <1> QED BY <1>4, <1>5, <1>6, <1>7, <1>8

\* Between restore and prepare nothing but dirty is owed.
LEMMA OnlyDirty ==
    ASSUME Inductive, DataSafe, eng \in {"prepare", "save"}
    PROVE  Holds(OpenFile, doc, dirty \cup adrift)
  <1>1. UNION {job[n].work.clears : n \in Returning} = {}
        BY NoneUnderway, Quiet DEF Claiming, Quieted
  <1>2. results = <<>> /\ restore = {} /\ prepared.clears = {}
        BY DEF DataSafe, ClaimInOrder, NoWork
  <1>3. Owed = dirty BY <1>1, <1>2, NothingRestored DEF Owed
  <1> QED BY <1>3 DEF DataSafe, NothingForgotten

\* A clean document is in its file, on disk, but for what is adrift.
LEMMA CleanIsOnDisk ==
    ASSUME Inductive, DataSafe, eng \in {"prepare", "save"}, dirty = {}
    PROVE  Holds(OpenFile, doc, adrift) /\ Holds(durable[doc.scene], doc, adrift)
  <1>1. Holds(OpenFile, doc, adrift) BY OnlyDirty DEF Holds
  <1>2. disk[doc.scene] = durable[doc.scene]
        BY NoneUnderway, Quiet DEF Claiming, Quieted, DataSafe, DataTypes
  <1> QED BY <1>1, <1>2 DEF OpenFile

\* What is answered None joins what is kept.
LEMMA AnswerKeeps ==
    ASSUME DataSafe, NEW err, Answer(err), promised = doc \/ promised.edits \subseteq doc.edits,
           promised.scene = doc.scene,
           err = "None" => Holds(OpenFile, promised, adrift),
           err = "None" => disk[doc.scene] = durable[doc.scene],
           UNCHANGED <<doc, disk, durable>>
    PROVE  /\ KeptIsKept'
           /\ InOpenScene' \subseteq InOpenScene \cup promised.edits
           /\ promised' = NoDoc
  <1> USE DEF DataSafe
  <1>1. promised' = NoDoc BY DEF Answer
  <1>2. doc.scene \in Scenes BY DEF DataTypes
  <1>3. CASE kept' = kept BY <1>1, <1>3 DEF KeptIsKept, InOpenScene
  <1>4. CASE err = "None" /\ "scene" \notin adrift
             /\ kept' = kept \cup {<<promised.scene, e>> : e \in promised.edits}
    <2>1. promised.edits \subseteq disk[doc.scene].edits /\ promised.edits \subseteq doc.edits
          BY <1>4 DEF Holds, OpenFile
    <2>2. \A k \in kept' : \/ k \in kept
                           \/ k[1] = doc.scene /\ k[2] \in promised.edits
          BY <1>4
    <2>3. InOpenScene' \subseteq InOpenScene \cup promised.edits
          BY <2>2 DEF InOpenScene
    <2>4. \A k \in kept' : /\ k[1] \in Scenes
                           /\ k[2] \in disk[k[1]].edits /\ k[2] \in durable[k[1]].edits
      <3> SUFFICES ASSUME NEW k \in kept'
                   PROVE  /\ k[1] \in Scenes
                          /\ k[2] \in disk[k[1]].edits /\ k[2] \in durable[k[1]].edits
          OBVIOUS
      <3>1. CASE k \in kept BY <3>1 DEF KeptIsKept
      <3>2. CASE k[1] = doc.scene /\ k[2] \in promised.edits BY <1>2, <1>4, <2>1, <3>2
      <3> QED BY <2>2, <3>1, <3>2
    <2>5. InOpenScene' \subseteq doc'.edits BY <2>1, <2>3 DEF KeptIsKept
    <2> QED BY <1>1, <2>3, <2>4, <2>5 DEF KeptIsKept
  <1> QED BY <1>3, <1>4 DEF Answer

LEMMA CleanKeepsData == ASSUME Inductive, DataSafe, PrepareClean PROVE DataSafe'
  <1> USE DEF DataSafe
  <1>1. /\ UNCHANGED <<doc, dirty, prepared, saved, results, restore, job, files, adrift>>
        /\ eng = "prepare" /\ eng' = "open" /\ dirty = {} /\ Answer("None")
        BY DEF PrepareClean, control, closures
  <1> USE DEF files
  <1>2. promised = doc BY <1>1 DEF ClaimInOrder, Claiming
  <1>3. \A n \in Writers : job[n].at \notin Undelivered BY <1>1, NoneUnderway DEF Claiming
  <1>4. disk[doc.scene] = durable[doc.scene] BY <1>3, Quiet DEF DataTypes
  <1>5. Holds(OpenFile, promised, adrift) BY <1>1, <1>2, CleanIsOnDisk
  <1>6. KeptIsKept' BY <1>1, <1>2, <1>4, <1>5, AnswerKeeps
  <1>7. OpenFile' = OpenFile /\ Owed' = Owed BY <1>1 DEF OpenFile, Owed, Returning
  <1>8. DataTypes' BY <1>1 DEF DataTypes
  <1>9. SnapshotsHold' BY <1>1, <1>3 DEF SnapshotsHold
  <1>10. NothingForgotten' BY <1>1, <1>7 DEF NothingForgotten
  <1>11. Settled' /\ TeardownInOrder' BY <1>1 DEF Settled, TeardownInOrder
  <1>12. ClaimInOrder' BY <1>1 DEF ClaimInOrder, Claiming
  <1> QED BY <1>6, <1>8, <1>9, <1>10, <1>11, <1>12

\* What a save clears covers everything its document has and its file has not.
LEMMA SnapshotCovers ==
    ASSUME Inductive, DataSafe, eng \in {"prepare", "save"}
    PROVE  /\ Snapshot.doc = doc /\ Snapshot.clears \subseteq Flags
           /\ Holds(OpenFile, doc, Snapshot.clears \cup ((adrift \ Snapshot.clears) \cap {"scene"}))
  <1>1. Snapshot.doc = doc /\ Snapshot.clears = (dirty \cap {"scene"}) \cup {"camera"}
        BY DEF Snapshot
  <1>2. Holds(OpenFile, doc, dirty \cup adrift) BY OnlyDirty
  <1> QED BY <1>1, <1>2 DEF Holds, Flags

LEMMA PrepareKeepsData == ASSUME Inductive, DataSafe, PrepareDirty PROVE DataSafe'
  <1> USE DEF DataSafe
  <1>1. /\ UNCHANGED <<doc, saved, results, restore, job, files, promised, kept>>
        /\ eng = "prepare" /\ eng' = "post" /\ prepared' = Snapshot /\ dirty' = {}
        /\ adrift' = adrift \ Snapshot.clears
        BY DEF PrepareDirty, control, closures
  <1> USE DEF files
  <1>2. \A n \in Writers : job[n].at \notin Undelivered BY <1>1, NoneUnderway DEF Claiming
  <1>3. /\ prepared'.doc = doc /\ prepared'.clears \subseteq Flags
        /\ Holds(OpenFile, doc, prepared'.clears \cup Stale')
        BY <1>1, SnapshotCovers DEF Stale
  <1>4. OpenFile' = OpenFile /\ InOpenScene' = InOpenScene BY <1>1 DEF OpenFile, InOpenScene
  <1>5. DataTypes' BY <1>1, <1>3 DEF DataTypes
  <1>6. SnapshotsHold' BY <1>1, <1>2 DEF SnapshotsHold
  <1>7. NothingForgotten'
    <2>1. prepared'.clears \cup Stale' \subseteq Owed' \cup adrift' BY DEF Owed, Stale
    <2> QED BY <1>1, <1>3, <1>4, <2>1, HoldsMore DEF NothingForgotten
  <1>8. Settled' /\ TeardownInOrder' BY <1>1 DEF Settled, TeardownInOrder
  <1>9. ClaimInOrder' BY <1>1, <1>3, <1>4 DEF ClaimInOrder, Claiming
  <1>10. KeptIsKept' BY <1>1, <1>4 DEF KeptIsKept
  <1> QED BY <1>5, <1>6, <1>7, <1>8, <1>9, <1>10

\* A save that has just begun: its snapshot is the document.
LEMMA SaveBegins ==
    ASSUME Inductive, DataSafe, NEW n \in Writers, NEW work,
           \A m \in Writers : job[m].at \notin Undelivered,
           job' = [job EXCEPT ![n] = [NoJob EXCEPT !.at = "read", !.work = work]],
           work.doc = doc, work.clears \subseteq Flags,
           Holds(OpenFile, doc, work.clears \cup Stale'),
           UNCHANGED <<doc, saved, results, restore, files, promised, kept>>,
           n \in Claims => promised = doc, saved # "None", prepared' = NoWork,
           eng' \in {"open", "saving"}, eng' = "saving" => dirty' = {}
    PROVE  DataSafe'
  <1> USE DEF DataSafe
  <1> USE DEF files
  <1>1. DOMAIN job = Writers BY DEF Inductive, Shape, Writers
  <1>2. /\ \A m \in Writers : m # n => job'[m] = job[m]
        /\ job'[n].at = "read" /\ job'[n].err = "None" /\ job'[n].work = work
        BY <1>1 DEF NoJob
  <1>3. InOpenScene' = InOpenScene /\ OpenFile' = OpenFile BY DEF InOpenScene, OpenFile
  <1>4. DataTypes' BY <1>2 DEF DataTypes, FileErrors, NoWork
  <1>5. SnapshotHolds(n)'
    <2>1. Holds(doc, doc, dirty') BY DEF Holds
    <2> QED BY <1>2, <1>3, <2>1 DEF SnapshotHolds, DataTypes, KeptIsKept
  <1>6. SnapshotsHold' BY <1>2, <1>5 DEF SnapshotsHold
  <1>7. NothingForgotten'
    <2>1. n \in Returning' BY <1>2 DEF Returning, Ahead
    <2>2. work.clears \in {job'[m].work.clears : m \in Returning'} BY <1>2, <2>1
    <2>3. work.clears \cup Stale' \subseteq Owed' \cup adrift' BY <2>2 DEF Owed, Stale
    <2> QED BY <1>3, <2>3, HoldsMore DEF NothingForgotten
  <1>8. Settled'
    <2>1. \A s \in Scenes : disk[s] = durable[s] BY Quiet
    <2> QED BY <2>1 DEF Settled
  <1>9. KeptIsKept' BY <1>3 DEF KeptIsKept
  <1>10. ClaimInOrder' BY DEF ClaimInOrder, Claiming
  <1>11. TeardownInOrder' BY DEF TeardownInOrder
  <1> QED BY <1>4, <1>6, <1>7, <1>8, <1>9, <1>10, <1>11

LEMMA PostKeepsData == ASSUME Inductive, DataSafe, PostClosure PROVE DataSafe'
  <1> USE DEF DataSafe
  <1>1. /\ UNCHANGED <<doc, saved, results, restore, files, promised, kept, adrift>>
        /\ job' = [job EXCEPT ![claims] = [NoJob EXCEPT !.at = "read", !.work = prepared]]
        /\ prepared' = NoWork /\ eng = "post" /\ eng' = "open"
        BY DEF PostClosure, control, history
  <1>2. claims \in Writers BY <1>1 DEF Inductive, OneOwed, Claiming, Writers
  <1>3. \A n \in Writers : job[n].at \notin Undelivered BY <1>1, NoneUnderway DEF Claiming
  <1>4. prepared.doc = doc /\ prepared.clears \subseteq Flags /\ promised = doc
        /\ Holds(OpenFile, doc, prepared.clears \cup Stale)
        BY <1>1 DEF ClaimInOrder, Claiming, DataTypes
  <1>5. saved # "None" BY <1>1 DEF TeardownInOrder
  <1>6. Stale' = Stale BY <1>1 DEF Stale
  <1> QED BY <1>1, <1>2, <1>3, <1>4, <1>5, <1>6, SaveBegins

LEMMA PostFailsKeepsData == ASSUME Inductive, DataSafe, PostFails PROVE DataSafe'
  <1> USE DEF DataSafe
  <1>1. /\ UNCHANGED <<doc, saved, results, restore, job, files, kept, adrift>>
        /\ dirty' = dirty \cup prepared.clears /\ prepared' = NoWork
        /\ eng = "post" /\ eng' = "open"
        BY Failed DEF PostFails, control, closures
  <1> USE DEF files
  <1>2. \A n \in Writers : job[n].at \notin Undelivered BY <1>1, NoneUnderway DEF Claiming
  <1>3. OpenFile' = OpenFile /\ InOpenScene' = InOpenScene BY <1>1 DEF OpenFile, InOpenScene
  <1>4. DataTypes' BY <1>1 DEF DataTypes, NoWork
  <1>5. SnapshotsHold' BY <1>1, <1>2 DEF SnapshotsHold
  <1>6. NothingForgotten'
    <2>1. Owed \cup adrift \subseteq Owed' \cup adrift' BY <1>1 DEF Owed, Returning
    <2> QED BY <1>1, <1>3, <2>1, HoldsMore DEF NothingForgotten
  <1>7. Settled' /\ TeardownInOrder' BY <1>1 DEF Settled, TeardownInOrder
  <1>8. ClaimInOrder' BY <1>1 DEF ClaimInOrder, Claiming
  <1>9. KeptIsKept' BY <1>1, <1>3 DEF KeptIsKept
  <1> QED BY <1>4, <1>5, <1>6, <1>7, <1>8, <1>9

-----------------------------------------------------------------------------
(* Another scene. *)

\* With one driver no save is claimed while a scene is opened.
LEMMA NoSaveInOpen ==
    ASSUME Inductive, CallsApart, DataSafe, NEW c \in Callers, openCall[c].kind = "running",
           eng \in Loading
    PROVE  target[c] \in Scenes /\ \A n \in Writers : job[n].at \notin Undelivered
  <1> USE DEF CallsApart
  <1>1. target[c] \in Scenes OBVIOUS
  <1>2. PICK d \in Callers : plan.callers \subseteq {d} OBVIOUS
  <1>3. \A b \in Callers : saveCall[b].kind # "idle" => b = d BY <1>2
  <1>4. c = d BY <1>2
  <1>5. \A b \in Callers : saveCall[b].kind # "running" BY <1>3, <1>4
  <1>6. Owing = {} BY <1>5 DEF Inductive, OneOwed
  <1>7. job[0].at = "none" BY DEF Inductive, ClosuresInPlace, Loading
  <1> QED BY <1>1, <1>6, <1>7 DEF Owing, Writers, Undelivered

\* What is compiled for a scene is a document of that scene, its file's edits
\* when nothing was left of it.
LEMMA CompiledIsDoc ==
    ASSUME DataTypes, NEW s \in Scenes, NEW evicts \in BOOLEAN,
           NEW d \in Compiled(s, LeftBy(evicts))
    PROVE  /\ IsDoc(d) /\ d.scene = s
           /\ evicts => d.edits = disk[s].edits
  <1>1. LeftBy(evicts) \subseteq cached /\ (evicts => LeftBy(evicts) = {}) BY DEF LeftBy
  <1>2. CASE d \in LeftBy(evicts) /\ d.scene = s BY <1>1, <1>2 DEF DataTypes
  <1>3. CASE d = [disk[s] EXCEPT !.pose = NoPose]
    <2>1. IsDoc(disk[s]) /\ disk[s].scene = s BY DEF DataTypes
    <2>2. d = [scene |-> s, edits |-> disk[s].edits, pose |-> NoPose]
          BY <1>3, <2>1 DEF IsDoc
    <2> QED BY <2>2 DEF IsDoc
  <1> QED BY <1>1, <1>2, <1>3 DEF Compiled

\* The working scene is swapped for a document whose difference from the file, if
\* any, is adrift; what was kept and is not in it is kept no more.
LEMMA LoadKeepsData ==
    ASSUME Inductive, CallsApart, DataSafe, NEW c \in Callers, LoadScene(c) PROVE DataSafe'
  <1> USE DEF DataSafe
  <1>1. /\ UNCHANGED <<prepared, saved, results, restore, job, disk, durable, promised>>
        /\ eng = "load" /\ openCall[c] = Open!Phase("running")
        BY DEF LoadScene, control, closures
  <1>2. target[c] \in Scenes /\ \A n \in Writers : job[n].at \notin Undelivered
        BY <1>1, NoSaveInOpen DEF Open!Phase, Loading
  <1>3. PICK evicts \in BOOLEAN : \E loaded \in Compiled(target[c], LeftBy(evicts)) :
           /\ doc' = [loaded EXCEPT !.pose = doc.pose]
           /\ cached' = LeftBy(evicts) \cup {loaded}
           /\ kept' = IF evicts THEN kept
                      ELSE {k \in kept : k[1] = loaded.scene => k[2] \in loaded.edits}
           /\ eng' = IF evicts THEN "camera" ELSE "cameraUnbound"
           /\ adrift' = IF loaded.edits = disk[loaded.scene].edits THEN {"camera"} ELSE Flags
        BY DEF LoadScene
  <1>4. PICK loaded \in Compiled(target[c], LeftBy(evicts)) :
           /\ doc' = [loaded EXCEPT !.pose = doc.pose]
           /\ cached' = LeftBy(evicts) \cup {loaded}
           /\ kept' = IF evicts THEN kept
                      ELSE {k \in kept : k[1] = loaded.scene => k[2] \in loaded.edits}
           /\ eng' = IF evicts THEN "camera" ELSE "cameraUnbound"
           /\ adrift' = IF loaded.edits = disk[loaded.scene].edits THEN {"camera"} ELSE Flags
        BY <1>3
  <1>5. /\ IsDoc(loaded) /\ loaded.scene = target[c]
        /\ evicts => loaded.edits = disk[target[c]].edits
        BY <1>2, CompiledIsDoc
  <1>6. doc' = [scene |-> target[c], edits |-> loaded.edits, pose |-> doc.pose]
        BY <1>4, <1>5 DEF IsDoc
  <1>7. IsDoc(doc') /\ doc'.scene = target[c] /\ doc'.edits = loaded.edits BY <1>6 DEF IsDoc
  <1>8. OpenFile' = disk[target[c]] BY <1>1, <1>7 DEF OpenFile
  <1>9. DataTypes'
    <2>1. \A d \in cached' : IsDoc(d) /\ d.scene \in Scenes
          BY <1>2, <1>4, <1>5 DEF DataTypes, LeftBy
    <2> QED BY <1>1, <1>2, <1>7, <2>1 DEF DataTypes
  <1>10. SnapshotsHold' BY <1>1, <1>2 DEF SnapshotsHold
  <1>11. NothingForgotten'
    <2>1. "camera" \in adrift' /\ ("scene" \in adrift' \/ doc'.edits = disk[target[c]].edits)
          BY <1>4, <1>5, <1>7 DEF Flags
    <2> QED BY <1>8, <2>1 DEF NothingForgotten, Holds
  <1>12. Settled' BY <1>1 DEF Settled
  <1>13. TeardownInOrder' BY <1>1 DEF TeardownInOrder
  <1>14. KeptIsKept'
    <2>1. kept' \subseteq kept BY <1>4
    <2>2. \A k \in kept' : k[1] = target[c] => k[2] \in loaded.edits
          BY <1>4, <1>5 DEF KeptIsKept
    <2>3. InOpenScene' \subseteq doc'.edits BY <1>7, <2>2 DEF InOpenScene
    <2>4. \A k \in kept' : k[1] \in Scenes /\ k[2] \in disk[k[1]].edits
                                            /\ k[2] \in durable[k[1]].edits
          BY <2>1 DEF KeptIsKept
    <2> QED BY <1>1, <2>3, <2>4 DEF KeptIsKept
  <1>15. eng' \in {"camera", "cameraUnbound"} /\ "camera" \in adrift' BY <1>4 DEF Flags
  <1>16. ClaimInOrder' BY <1>1, <1>15 DEF ClaimInOrder, Claiming
  <1> QED BY <1>9, <1>10, <1>11, <1>12, <1>13, <1>14, <1>16

\* A camera that is restored is the file's; another stays adrift.
LEMMA CameraKeepsData ==
    ASSUME Inductive, CallsApart, DataSafe, NEW c \in Callers, RestoreCamera(c) PROVE DataSafe'
  <1> USE DEF DataSafe, files
  <1>1. /\ UNCHANGED <<prepared, saved, results, restore, job, files, promised, kept>>
        /\ eng \in {"camera", "cameraUnbound"} /\ eng' = "simulate"
        /\ dirty' = dirty \ {"camera"}
        BY DEF RestoreCamera, control, closures
  <1>2. openCall[c].kind = "running" BY DEF RestoreCamera, Open!FinishWith, Open!Phase
  <1>3. \A n \in Writers : job[n].at \notin Undelivered
        BY <1>1, <1>2, NoSaveInOpen DEF Loading
  <1>4. IsDoc(doc) /\ doc.scene \in Scenes BY DEF DataTypes
  <1>5. \/ doc' = [doc EXCEPT !.pose = OpenFile.pose] /\ adrift' = adrift \ {"camera"}
        \/ doc' = doc /\ adrift' = adrift
        BY DEF RestoreCamera, OpenFile
  <1>6. /\ IsDoc(doc') /\ doc'.scene = doc.scene /\ doc'.edits = doc.edits
        /\ doc'.pose \in {doc.pose, OpenFile.pose}
        /\ "camera" \in adrift' \/ doc'.pose = OpenFile.pose
        /\ "scene" \in adrift => "scene" \in adrift'
    <2>1. CASE doc' = [doc EXCEPT !.pose = OpenFile.pose]
      <3>1. doc' = [scene |-> doc.scene, edits |-> doc.edits, pose |-> OpenFile.pose]
            BY <1>4, <2>1 DEF IsDoc
      <3> QED BY <1>5, <3>1 DEF IsDoc
    <2>2. CASE doc' = doc /\ adrift' = adrift BY <1>1, <1>4, <2>2 DEF ClaimInOrder
    <2> QED BY <1>5, <2>1, <2>2
  <1>7. OpenFile' = OpenFile /\ InOpenScene' = InOpenScene
        BY <1>1, <1>6 DEF OpenFile, InOpenScene
  <1>8. DataTypes' BY <1>1, <1>4, <1>6 DEF DataTypes
  <1>9. SnapshotsHold' BY <1>1, <1>3 DEF SnapshotsHold
  <1>10. NothingForgotten'
    <2>1. "scene" \in Owed => "scene" \in Owed' BY <1>1 DEF Owed, Returning
    <2> QED BY <1>6, <1>7, <2>1 DEF NothingForgotten, Holds
  <1>11. KeptIsKept' BY <1>1, <1>6, <1>7 DEF KeptIsKept
  <1>12. Settled' /\ TeardownInOrder' BY <1>1 DEF Settled, TeardownInOrder
  <1>13. ClaimInOrder' BY <1>1 DEF ClaimInOrder, Claiming
  <1> QED BY <1>8, <1>9, <1>10, <1>11, <1>12, <1>13

\* The working scene stays; what is compiled is of the scene that was asked for.
LEMMA LoadFailsKeepsData ==
    ASSUME Inductive, CallsApart, DataSafe, NEW c \in Callers, LoadFails(c) PROVE DataSafe'
  <1>1. /\ UNCHANGED <<doc, dirty, prepared, saved, results, restore, job, disk, durable, history>>
        /\ eng = "load" /\ eng' = "simulate" /\ openCall[c].kind = "running"
        BY DEF LoadFails, control, closures, Open!FinishWith, Open!Phase
  <1>2. target[c] \in Scenes BY <1>1 DEF CallsApart
  <1>3. PICK evicts \in BOOLEAN : \E compiled \in SUBSET Compiled(target[c], LeftBy(evicts)) :
             cached' = LeftBy(evicts) \cup compiled
        BY DEF LoadFails
  <1>4. \A d \in cached' : d \in cached \/ d \in Compiled(target[c], LeftBy(evicts))
        BY <1>3 DEF LeftBy
  <1>5. \A d \in cached' : IsDoc(d) /\ d.scene \in Scenes
        BY <1>2, <1>4, CompiledIsDoc DEF DataSafe, DataTypes
  <1> QED BY <1>1, <1>5, EngineMoves DEF history, Claiming

-----------------------------------------------------------------------------
(* The save of a closure, or the engine's own. *)

\* A save under way that goes on; the scene files may change under it.
LEMMA SaveGoesOn ==
    ASSUME Inductive, DataSafe, NEW n \in Writers, job[n].at \in Undelivered,
           \A m \in Writers : m # n => job'[m] = job[m],
           job'[n].work = job[n].work, job'[n].err \in FileErrors,
           UNCHANGED <<eng, doc, dirty, prepared, saved, promised, kept, adrift, cached>>,
           DOMAIN disk' = Scenes, DOMAIN durable' = Scenes,
           \A s \in Scenes : IsDoc(disk'[s]) /\ disk'[s].scene = s /\ durable'[s].scene = s,
           \A k \in kept : k[2] \in disk'[k[1]].edits /\ k[2] \in durable'[k[1]].edits,
           results' \in Seq(Reports), results' # results \/ restore' # restore => n \in Claims,
           job'[n].at \in Undelivered => SnapshotHolds(n)', NothingForgotten', Settled'
    PROVE  DataSafe'
  <1> USE DEF DataSafe
  <1>1. DataTypes' BY DEF DataTypes
  <1>2. \A m \in Writers : m # n => job[m].at \notin Undelivered BY Alone
  <1>3. SnapshotsHold' BY <1>2 DEF SnapshotsHold
  <1>4. KeptIsKept' BY DEF KeptIsKept, InOpenScene
  <1>5. saved # "None" BY DEF TeardownInOrder, Undelivered
  <1>6. TeardownInOrder' BY <1>5 DEF TeardownInOrder
  <1>7. eng = "post" => disk' = disk
    <2>1. eng # "post" BY NoneUnderway DEF Claiming
    <2> QED BY <2>1
  <1>8. eng \in {"retake", "prepare", "lastTake", "save"} =>
          results' = results /\ restore' = restore
        BY NoneUnderway DEF Claiming, Quieted
  <1>9. ClaimInOrder' BY <1>7, <1>8 DEF ClaimInOrder, OpenFile, Stale
  <1> QED BY <1>1, <1>3, <1>4, <1>6, <1>9

\* The same, of a step that leaves the scene files and the reports alone.
LEMMA SaveGoesOnQuietly ==
    ASSUME Inductive, DataSafe, NEW n \in Writers, job[n].at \in Undelivered,
           \A m \in Writers : m # n => job'[m] = job[m],
           job'[n].work = job[n].work, job'[n].err \in FileErrors,
           job[n].at # "through", job[n].at \in Ahead \cup {"restore"},
           job'[n].at \in Ahead \cup {"restore"}, SnapshotHolds(n)',
           UNCHANGED <<eng, doc, dirty, prepared, saved, promised, kept, adrift, files,
                       results, restore>>
    PROVE  DataSafe'
  <1> USE DEF DataSafe, files
  <1>1. Returning' = Returning BY DEF Returning
  <1>2. \A m \in Writers : job'[m].work = job[m].work OBVIOUS
  <1>3. Owed' = Owed BY <1>1, <1>2 DEF Owed, Returning
  <1>4. NothingForgotten' BY <1>3 DEF NothingForgotten, OpenFile
  <1>5. Settled' BY DEF Settled
  <1>6. \A k \in kept : k[2] \in disk[k[1]].edits /\ k[2] \in durable[k[1]].edits BY DEF KeptIsKept
  <1> QED BY <1>4, <1>5, <1>6, SaveGoesOn DEF DataTypes

\* Where a step of a save finds it, and what it leaves of it.
LEMMA SaveSteps ==
    ASSUME Inductive, DataSafe, NEW n \in Writers, job[n].at \in Undelivered
    PROVE  /\ SnapshotHolds(n) /\ doc.scene \in Scenes /\ job[n].work.doc.scene = doc.scene
           /\ DOMAIN job = Writers
           /\ DOMAIN job[n] = {"at", "work", "file", "flushed", "err"}
  BY DEF DataSafe, SnapshotsHold, SnapshotHolds, DataTypes, Inductive, Shape, Writers

LEMMA ReadKeepsData ==
    ASSUME Inductive, DataSafe, NEW n \in Writers, CommitRead(n) PROVE DataSafe'
  <1> USE DEF Running
  <1>1. job[n].at = "read" /\ job[n].at \in Undelivered
        /\ UNCHANGED <<eng, doc, dirty, prepared, saved, promised, kept, adrift, files,
                       results, restore>>
        BY DEF CommitRead, engine, control, history, Undelivered, Places
  <1>2. SnapshotHolds(n) /\ job[n].work.doc.scene = doc.scene BY <1>1, SaveSteps
  <1>3. /\ \A m \in Writers : m # n => job'[m] = job[m]
        /\ job'[n].at = "stage" /\ job'[n].file = OpenFile
        /\ job'[n].work = job[n].work /\ job'[n].err = job[n].err
        BY <1>1, <1>2, SaveSteps DEF CommitRead, OpenFile
  <1>4. SnapshotHolds(n)'
        BY <1>1, <1>2, <1>3 DEF SnapshotHolds, OpenFile, InOpenScene, Ahead, Stale, files
  <1> QED BY <1>1, <1>3, <1>4, SaveGoesOnQuietly DEF Ahead, DataSafe, DataTypes

LEMMA StageKeepsData ==
    ASSUME Inductive, DataSafe, NEW n \in Writers, CommitStage(n) PROVE DataSafe'
  <1> USE DEF Running
  <1>1. job[n].at = "stage" /\ job[n].at \in Undelivered
        /\ UNCHANGED <<eng, doc, dirty, prepared, saved, promised, kept, adrift, files,
                       results, restore>>
        BY DEF CommitStage, WriteStaging, engine, control, history, Undelivered, Places
  <1>2. SnapshotHolds(n) /\ job[n].work.doc.scene = doc.scene BY <1>1, SaveSteps
  <1> DEFINE edited == Edited(job[n].file, job[n].work)
  <1>3. job' = [job EXCEPT ![n].at = "rename", ![n].file = edited, ![n].flushed = edited]
        BY DEF CommitStage, WriteStaging
  <1>4. /\ IsDoc(edited) /\ edited.scene = doc.scene /\ Holds(edited, job[n].work.doc, Stale)
        /\ InOpenScene \subseteq edited.edits
    <2>1. /\ Holds(job[n].file, job[n].work.doc, job[n].work.clears \cup Stale)
          /\ job[n].file = OpenFile
          BY <1>1, <1>2 DEF SnapshotHolds, Ahead
    <2>2. Stale \subseteq {"scene"} BY DEF Stale
    <2>3. /\ IsDoc(edited) /\ edited.scene = doc.scene /\ Holds(edited, job[n].work.doc, Stale)
          /\ edited.edits \in {job[n].work.doc.edits, job[n].file.edits}
          BY <1>2, <2>1, <2>2, EditedHolds DEF SnapshotHolds
    <2>4. InOpenScene \subseteq OpenFile.edits
          BY DEF DataSafe, KeptIsKept, InOpenScene, OpenFile
    <2> QED BY <1>2, <2>1, <2>3, <2>4 DEF SnapshotHolds
  <1> HIDE DEF edited
  <1>5. /\ \A m \in Writers : m # n => job'[m] = job[m]
        /\ job'[n].at = "rename" /\ job'[n].file = edited /\ job'[n].flushed = edited
        /\ job'[n].work = job[n].work /\ job'[n].err = job[n].err
        BY <1>1, <1>3, SaveSteps
  <1>6. SnapshotHolds(n)'
        BY <1>1, <1>2, <1>4, <1>5 DEF SnapshotHolds, OpenFile, InOpenScene, Ahead, Stale, files
  <1> QED BY <1>1, <1>5, <1>6, SaveGoesOnQuietly DEF Ahead, DataSafe, DataTypes

\* A failed commit has left the scene file alone.
LEMMA FailKeepsData ==
    ASSUME Inductive, DataSafe, NEW n \in Writers, CommitFails(n) PROVE DataSafe'
  <1> USE DEF Running
  <1>1. job[n].at \in Ahead /\ job[n].at \in Undelivered
        /\ UNCHANGED <<eng, doc, dirty, prepared, saved, promised, kept, adrift, files,
                       results, restore>>
        BY DEF CommitFails, engine, control, history, Ahead, Undelivered, Places
  <1>2. SnapshotHolds(n) BY <1>1, SaveSteps
  <1>3. /\ \A m \in Writers : m # n => job'[m] = job[m]
        /\ job'[n].at = "restore" /\ job'[n].err = "IOError"
        /\ job'[n].work = job[n].work
        BY <1>1, SaveSteps DEF CommitFails
  <1>4. SnapshotHolds(n)'
        BY <1>1, <1>2, <1>3 DEF SnapshotHolds, OpenFile, InOpenScene, Ahead, Stale, files
  <1> QED BY <1>1, <1>3, <1>4, SaveGoesOnQuietly DEF Ahead, FileErrors

\* The new scene file holds the snapshot, so what the save clears is owed no more.
LEMMA RenameKeepsData ==
    ASSUME Inductive, DataSafe, NEW n \in Writers, CommitRename(n) PROVE DataSafe'
  <1> USE DEF Running
  <1>1. job[n].at = "rename" /\ job[n].at \in Undelivered
        /\ UNCHANGED <<eng, doc, dirty, prepared, saved, promised, kept, adrift, cached,
                       results, restore>>
        BY DEF CommitRename, engine, control, history, Undelivered, Places
  <1>2. SnapshotHolds(n) /\ doc.scene \in Scenes /\ job[n].work.doc.scene = doc.scene
        BY <1>1, SaveSteps
  <1> DEFINE file == job[n].file
  <1>3. /\ file = job[n].flushed /\ IsDoc(file) /\ file.scene = doc.scene
        /\ Holds(file, job[n].work.doc, Stale) /\ InOpenScene \subseteq file.edits
        BY <1>1, <1>2 DEF SnapshotHolds
  <1>4. PICK onDisk \in {durable[doc.scene], file} :
               durable' = [durable EXCEPT ![doc.scene] = onDisk]
        BY <1>2, <1>3 DEF CommitRename
  <1>5. disk' = [disk EXCEPT ![doc.scene] = file] BY <1>2 DEF CommitRename
  <1> HIDE DEF file
  <1>6. /\ \A m \in Writers : m # n => job'[m] = job[m]
        /\ job'[n].at = "through" /\ job'[n].flushed = file
        /\ job'[n].work = job[n].work /\ job'[n].err = job[n].err /\ job[n].err = "None"
        BY <1>1, <1>2, <1>3, SaveSteps DEF CommitRename, SnapshotHolds, Ahead
  <1>7. /\ DOMAIN disk = Scenes /\ DOMAIN durable = Scenes
        /\ \A s \in Scenes : IsDoc(disk[s]) /\ disk[s].scene = s /\ durable[s].scene = s
        BY DEF DataSafe, DataTypes
  <1>8. /\ DOMAIN disk' = Scenes /\ DOMAIN durable' = Scenes
        /\ \A s \in Scenes : /\ disk'[s] = IF s = doc.scene THEN file ELSE disk[s]
                             /\ durable'[s] = IF s = doc.scene THEN onDisk ELSE durable[s]
        BY <1>4, <1>5, <1>7
  <1>9. \A s \in Scenes : IsDoc(disk'[s]) /\ disk'[s].scene = s /\ durable'[s].scene = s
        BY <1>2, <1>3, <1>4, <1>7, <1>8
  <1>10. OpenFile' = file BY <1>1, <1>2, <1>8 DEF OpenFile
  <1>11. SnapshotHolds(n)'
        BY <1>1, <1>2, <1>3, <1>6, <1>10 DEF SnapshotHolds, InOpenScene, Ahead, Stale
  <1>12. \A k \in kept : k[2] \in disk'[k[1]].edits /\ k[2] \in durable'[k[1]].edits
    <2> SUFFICES ASSUME NEW k \in kept
                 PROVE  k[2] \in disk'[k[1]].edits /\ k[2] \in durable'[k[1]].edits
        OBVIOUS
    <2>1. k[1] \in Scenes /\ k[2] \in disk[k[1]].edits /\ k[2] \in durable[k[1]].edits
          BY DEF DataSafe, KeptIsKept
    <2>2. k[1] = doc.scene => k[2] \in file.edits
          BY <1>3 DEF InOpenScene
    <2> QED BY <1>4, <1>8, <2>1, <2>2
  <1>13. NothingForgotten'
    <2>1. Holds(file, doc, Stale \cup dirty) BY <1>2, <1>3, HoldsThrough DEF SnapshotHolds
    <2>2. Stale \cup dirty \subseteq Owed' \cup adrift' BY <1>1 DEF Owed, Stale
    <2> QED BY <1>1, <1>10, <2>1, <2>2, HoldsMore DEF NothingForgotten
  <1>14. Settled'
    <2>1. \A m \in Writers : job[m].at # "through"
          BY <1>1, Alone DEF Undelivered, Places
    <2>2. \A s \in Scenes : disk[s] = durable[s] BY <2>1 DEF DataSafe, Settled
    <2> QED BY <1>2, <1>6, <1>8, <2>2 DEF Settled
  <1>15. job'[n].err \in FileErrors BY <1>6 DEF FileErrors
  <1>16. results \in Seq(Reports) BY DEF DataSafe, DataTypes
  <1> QED BY <1>1, <1>6, <1>8, <1>9, <1>11, <1>12, <1>13, <1>14, <1>15, <1>16, SaveGoesOn

LEMMA SettleKeepsData ==
    ASSUME Inductive, DataSafe, NEW n \in Writers, CommitSettles(n) PROVE DataSafe'
  <1> USE DEF Running
  <1>1. job[n].at = "through" /\ job[n].at \in Undelivered
        /\ UNCHANGED <<eng, doc, dirty, prepared, saved, promised, kept, adrift, cached,
                       results, restore, disk>>
        BY DEF CommitSettles, engine, control, history, Undelivered, Places
  <1>2. SnapshotHolds(n) /\ doc.scene \in Scenes /\ job[n].work.doc.scene = doc.scene
        BY <1>1, SaveSteps
  <1>3. /\ \A m \in Writers : m # n => job'[m] = job[m]
        /\ job'[n].at = "result" /\ job'[n].work = job[n].work
        /\ job'[n].err = job[n].err /\ job[n].err = "None"
        BY <1>1, <1>2, SaveSteps DEF CommitSettles, SnapshotHolds
  <1>4. durable' = [durable EXCEPT ![doc.scene] = OpenFile]
        BY <1>1, <1>2 DEF CommitSettles, SnapshotHolds
  <1>5. /\ DOMAIN disk = Scenes /\ DOMAIN durable = Scenes
        /\ \A s \in Scenes : IsDoc(disk[s]) /\ disk[s].scene = s /\ durable[s].scene = s
        BY DEF DataSafe, DataTypes
  <1>6. /\ DOMAIN durable' = Scenes
        /\ \A s \in Scenes : durable'[s] = IF s = doc.scene THEN disk[s] ELSE durable[s]
        BY <1>4, <1>5 DEF OpenFile
  <1>7. \A s \in Scenes : durable'[s] = disk[s]
    <2> SUFFICES ASSUME NEW s \in Scenes, s # doc.scene PROVE durable[s] = disk[s] BY <1>6
    <2>1. \A m \in Writers : job[m].at = "through" => m = n
          BY <1>1, Alone DEF Undelivered, Places
    <2> QED BY <1>2, <2>1 DEF DataSafe, Settled
  <1>8. OpenFile' = OpenFile BY <1>1 DEF OpenFile
  <1>9. SnapshotHolds(n)'
        BY <1>1, <1>2, <1>3, <1>8 DEF SnapshotHolds, InOpenScene, Ahead, Stale
  <1>10. \A k \in kept : k[2] \in disk[k[1]].edits /\ k[2] \in durable'[k[1]].edits
        BY <1>7 DEF DataSafe, KeptIsKept
  <1>11. NothingForgotten'
    <2>1. Returning' = Returning BY <1>1, <1>3 DEF Returning, Ahead
    <2>2. \A m \in Writers : job'[m].work = job[m].work BY <1>3
    <2>3. Owed' = Owed BY <1>1, <2>1, <2>2 DEF Owed, Returning
    <2> QED BY <1>1, <1>8, <2>3 DEF NothingForgotten, DataSafe
  <1>12. Settled' BY <1>1, <1>7 DEF Settled
  <1>13. job'[n].err \in FileErrors BY <1>3 DEF FileErrors
  <1>14. results \in Seq(Reports) BY DEF DataSafe, DataTypes
  <1> QED BY <1>1, <1>3, <1>5, <1>6, <1>9, <1>10, <1>11, <1>12, <1>13, <1>14, SaveGoesOn

LEMMA CommitKeepsData ==
    ASSUME Inductive, DataSafe, NEW n \in Writers, Commit(n) PROVE DataSafe'
  BY ReadKeepsData, StageKeepsData, RenameKeepsData, SettleKeepsData, FailKeepsData DEF Commit

\* The flags of a failed save pass from the closure to the sticky bitmask.
LEMMA RestoreKeepsData ==
    ASSUME Inductive, DataSafe, NEW n \in Claims, RequestRestore(n) PROVE DataSafe'
  <1> USE DEF Running
  <1>1. job[n].at = "restore" /\ job[n].at \in Undelivered /\ n \in Writers
        /\ UNCHANGED <<eng, doc, dirty, prepared, saved, promised, kept, adrift, files,
                       results>>
        /\ restore' = restore \cup job[n].work.clears
        BY DEF RequestRestore, engine, history, Undelivered, Places, Writers
  <1>2. SnapshotHolds(n) BY <1>1, SaveSteps
  <1>3. /\ \A m \in Writers : m # n => job'[m] = job[m]
        /\ job'[n].at = "result" /\ job'[n].work = job[n].work /\ job'[n].err = job[n].err
        BY <1>1, SaveSteps DEF RequestRestore
  <1>4. SnapshotHolds(n)'
        BY <1>1, <1>2, <1>3 DEF SnapshotHolds, InOpenScene, Ahead, OpenFile, Stale, files
  <1>5. NothingForgotten'
    <2>1. \A m \in Returning : job[m].work.clears \subseteq Owed'
      <3> SUFFICES ASSUME NEW m \in Returning PROVE job[m].work.clears \subseteq Owed' OBVIOUS
      <3>1. CASE m = n BY <1>1, <3>1 DEF Owed
      <3>2. CASE m # n
        <4>1. m \in Writers BY DEF Returning
        <4>2. m \in Returning' /\ job'[m] = job[m] BY <1>3, <3>2, <4>1 DEF Returning
        <4>3. job[m].work.clears \in {job'[k].work.clears : k \in Returning'} BY <4>2
        <4> QED BY <4>3 DEF Owed
      <3> QED BY <3>1, <3>2
    <2>2. dirty \cup restore \cup RestoredBy(results) \cup prepared.clears \subseteq Owed'
          BY <1>1 DEF Owed
    <2>3. Owed \subseteq Owed' BY <2>1, <2>2 DEF Owed
    <2>4. Owed \cup adrift \subseteq Owed' \cup adrift' BY <1>1, <2>3
    <2> QED BY <1>1, <2>4, HoldsMore DEF NothingForgotten, DataSafe, OpenFile, files
  <1>6. Settled' BY <1>1, <1>3 DEF DataSafe, Settled, files
  <1>7. \A k \in kept : k[2] \in disk[k[1]].edits /\ k[2] \in durable[k[1]].edits
        BY DEF DataSafe, KeptIsKept
  <1> QED BY <1>1, <1>3, <1>4, <1>5, <1>6, <1>7, SaveGoesOn
          DEF DataSafe, DataTypes, files

\* The report may be lost: the bitmask has what it would have given back.
LEMMA ResultKeepsData ==
    ASSUME Inductive, DataSafe, NEW n \in Claims, PostResult(n) PROVE DataSafe'
  <1> USE DEF Running
  <1>1. job[n].at = "result" /\ job[n].at \in Undelivered /\ n \in Writers
        /\ UNCHANGED <<eng, doc, dirty, prepared, saved, promised, kept, adrift, files,
                       restore>>
        BY DEF PostResult, engine, history, Undelivered, Places, Writers
  <1>2. SnapshotHolds(n) BY <1>1, SaveSteps
  <1>3. /\ \A m \in Writers : m # n => job'[m] = job[m]
        /\ job'[n].at = "publish" /\ job'[n].work = job[n].work /\ job'[n].err = job[n].err
        BY <1>1, SaveSteps DEF PostResult
  <1>4. results' \in Seq(Reports) /\ RestoredBy(results) \subseteq RestoredBy(results')
    <2>1. results \in Seq(Reports) BY DEF DataSafe, DataTypes
    <2>2. [err |-> job[n].err, restore |-> job[n].work.clears] \in Reports
          BY <1>1 DEF DataSafe, DataTypes, Reports
    <2> QED BY <2>1, <2>2, AppendRestores DEF PostResult
  <1>5. SnapshotHolds(n)'
        BY <1>1, <1>2, <1>3 DEF SnapshotHolds, InOpenScene, Ahead, OpenFile, Stale, files
  <1>6. NothingForgotten'
    <2>1. Returning' = Returning BY <1>1, <1>3 DEF Returning, Ahead
    <2>2. \A m \in Writers : job'[m].work = job[m].work BY <1>3
    <2>3. Owed \subseteq Owed' BY <1>1, <1>4, <2>1, <2>2 DEF Owed, Returning
    <2>4. Owed \cup adrift \subseteq Owed' \cup adrift' BY <1>1, <2>3
    <2> QED BY <1>1, <2>4, HoldsMore DEF NothingForgotten, DataSafe, OpenFile, files
  <1>7. Settled' BY <1>1, <1>3 DEF DataSafe, Settled, files
  <1>8. \A k \in kept : k[2] \in disk[k[1]].edits /\ k[2] \in durable[k[1]].edits
        BY DEF DataSafe, KeptIsKept
  <1> QED BY <1>1, <1>3, <1>4, <1>5, <1>6, <1>7, <1>8, SaveGoesOn
          DEF DataSafe, DataTypes, files

\* The save that is answered None is in its file, on disk, but for what is adrift.
LEMMA PublishedIsOnDisk ==
    ASSUME Inductive, DataSafe, NEW n \in Claims, PublishSave(n)
    PROVE  /\ job[n].at \in Undelivered /\ n \in Writers /\ SnapshotHolds(n)
           /\ promised.scene = doc.scene /\ promised.edits \subseteq doc.edits
           /\ disk[doc.scene] = durable[doc.scene]
           /\ job[n].err = "None" => Holds(OpenFile, promised, adrift)
  <1>1. job[n].at = "publish" /\ job[n].at \in Undelivered /\ n \in Writers
        BY DEF PublishSave, Running, Undelivered, Places, Writers
  <1>2. SnapshotHolds(n) /\ doc.scene \in Scenes BY <1>1, SaveSteps
  <1>3. promised = job[n].work.doc BY <1>2 DEF SnapshotHolds
  <1>4. \A m \in Writers : job[m].at # "through" BY <1>1, Alone DEF Undelivered, Places
  <1>5. disk[doc.scene] = durable[doc.scene] BY <1>2, <1>4 DEF DataSafe, Settled
  <1>6. job[n].err = "None" => Holds(OpenFile, promised, Stale)
        BY <1>1, <1>2, <1>3 DEF SnapshotHolds
  <1>7. Stale \subseteq adrift BY DEF Stale
  <1> QED BY <1>1, <1>2, <1>3, <1>5, <1>6, <1>7, HoldsMore DEF SnapshotHolds

LEMMA PublishKeepsData ==
    ASSUME Inductive, DataSafe, NEW n \in Claims, PublishSave(n) PROVE DataSafe'
  <1> USE DEF DataSafe
  <1>1. /\ UNCHANGED <<eng, doc, dirty, prepared, saved, results, restore, files, adrift>>
        /\ job[n].at = "publish" /\ Answer(job[n].err)
        BY DEF PublishSave, Running, engine, control
  <1> USE DEF files
  <1>2. /\ job[n].at \in Undelivered /\ n \in Writers
        /\ promised.scene = doc.scene /\ promised.edits \subseteq doc.edits
        /\ disk[doc.scene] = durable[doc.scene]
        /\ job[n].err = "None" => Holds(OpenFile, promised, adrift)
        BY PublishedIsOnDisk
  <1>3. /\ \A m \in Writers : m # n => job'[m] = job[m]
        /\ job'[n].at = "end" /\ job'[n].work = job[n].work /\ job'[n].err = job[n].err
        BY <1>2, SaveSteps DEF PublishSave
  <1>4. KeptIsKept' BY <1>1, <1>2, AnswerKeeps
  <1>5. DataTypes' BY <1>1, <1>3 DEF DataTypes
  <1>6. SnapshotsHold'
    <2>1. \A m \in Writers : job'[m].at \notin Undelivered
          BY <1>2, <1>3, Alone DEF Undelivered
    <2> QED BY <2>1 DEF SnapshotsHold
  <1>7. NothingForgotten'
    <2>1. Returning' = Returning BY <1>1, <1>3 DEF Returning, Ahead
    <2>2. \A m \in Writers : job'[m].work = job[m].work BY <1>3
    <2>3. Owed' = Owed BY <1>1, <2>1, <2>2 DEF Owed, Returning
    <2> QED BY <1>1, <2>3 DEF NothingForgotten, OpenFile
  <1>8. Settled' BY <1>1, <1>3 DEF Settled
  <1>9. TeardownInOrder' BY <1>1, <1>2 DEF TeardownInOrder, Undelivered
  <1>10. ClaimInOrder'
    <2>1. eng \notin Claiming BY <1>2, NoneUnderway
    <2> QED BY <1>1, <2>1 DEF ClaimInOrder, Claiming
  <1> QED BY <1>4, <1>5, <1>6, <1>7, <1>8, <1>9, <1>10

LEMMA EndKeepsData ==
    ASSUME Inductive, DataSafe, NEW n \in Claims, EndClosure(n) PROVE DataSafe'
  <1> USE DEF DataSafe
  <1>1. /\ UNCHANGED <<eng, doc, dirty, prepared, saved, results, restore, promised, kept,
                       adrift, files>>
        /\ job[n].at = "end"
        BY DEF EndClosure, Running, engine, control, history
  <1> USE DEF files
  <1>2. /\ \A m \in Writers : m # n => job'[m] = job[m]
        /\ job'[n] = NoJob
        BY DEF EndClosure, Inductive, Shape, Writers
  <1>3. NoJob.at = "none" /\ NoJob.err = "None" /\ NoJob.work = NoWork /\ NoWork.clears = {}
        BY DEF NoJob, NoWork
  <1>4. DataTypes' BY <1>1, <1>2, <1>3 DEF DataTypes, FileErrors
  <1>5. InOpenScene' = InOpenScene /\ OpenFile' = OpenFile /\ Stale' = Stale
        BY <1>1 DEF InOpenScene, OpenFile, Stale
  <1>6. SnapshotsHold'
        BY <1>1, <1>2, <1>3, <1>5 DEF SnapshotsHold, SnapshotHolds, Undelivered
  <1>7. NothingForgotten'
    <2>1. \A m \in Writers : m \in Returning <=> m \in Returning'
          BY <1>1, <1>2, <1>3 DEF Returning, Ahead
    <2>2. \A m \in Returning : m # n BY <1>1 DEF Returning, Ahead
    <2>3. Returning' = Returning BY <2>1 DEF Returning
    <2>4. \A m \in Returning : job'[m] = job[m] BY <1>2, <2>2 DEF Returning
    <2>5. Owed' = Owed BY <1>1, <2>3, <2>4 DEF Owed
    <2> QED BY <1>1, <1>5, <2>5 DEF NothingForgotten
  <1>8. KeptIsKept' BY <1>1, <1>5 DEF KeptIsKept
  <1>9. Settled' BY <1>1, <1>2 DEF Settled
  <1>10. TeardownInOrder' BY <1>1, <1>2, <1>3 DEF TeardownInOrder
  <1>11. ClaimInOrder' BY <1>1, <1>5 DEF ClaimInOrder
  <1> QED BY <1>4, <1>6, <1>7, <1>8, <1>9, <1>10, <1>11

\* The teardown save is answered at once when nothing is dirty.
LEMMA OwnSaveKeepsData == ASSUME Inductive, DataSafe, TeardownSave PROVE DataSafe'
  <1> USE DEF DataSafe
  <1>1. /\ UNCHANGED <<doc, prepared, results, restore, promised, kept, files>>
        /\ eng = "save"
        BY DEF TeardownSave, control
  <1> USE DEF files
  <1>2. \A n \in Writers : job[n].at \notin Undelivered BY <1>1, NoneUnderway DEF Quieted
  <1>3. prepared = NoWork /\ saved # "None" BY <1>1 DEF ClaimInOrder, TeardownInOrder
  <1>4. CASE dirty = {}
    <2>1. UNCHANGED <<dirty, adrift, job>> /\ eng' = "join" /\ saved' = "None"
          BY <1>4 DEF TeardownSave
    <2>2. Holds(durable[doc.scene], doc, adrift) BY <1>1, <1>4, CleanIsOnDisk
    <2>3. \A n \in Writers : job[n].at = "none"
          BY <1>1 DEF Inductive, ClosuresInPlace, Quieted, Writers
    <2>4. InOpenScene' = InOpenScene /\ OpenFile' = OpenFile /\ Owed' = Owed
          BY <1>1, <2>1 DEF InOpenScene, OpenFile, Owed, Returning
    <2>5. DataTypes' BY <1>1, <2>1 DEF DataTypes
    <2>6. SnapshotsHold' BY <1>2, <2>1 DEF SnapshotsHold
    <2>7. NothingForgotten' /\ KeptIsKept' BY <1>1, <2>1, <2>4 DEF NothingForgotten, KeptIsKept
    <2>8. Settled' BY <1>1, <2>1 DEF Settled
    <2>9. TeardownInOrder' BY <1>1, <2>1, <2>2, <2>3 DEF TeardownInOrder
    <2>10. ClaimInOrder' BY <1>1, <1>3, <2>1 DEF ClaimInOrder, Claiming
    <2> QED BY <2>5, <2>6, <2>7, <2>8, <2>9, <2>10
  <1>5. CASE dirty # {}
    <2>1. /\ job' = [job EXCEPT ![0] = [NoJob EXCEPT !.at = "read", !.work = Snapshot]]
          /\ eng' = "saving" /\ saved' = saved /\ dirty' = {}
          /\ adrift' = adrift \ Snapshot.clears
          BY <1>5 DEF TeardownSave
    <2>2. /\ Snapshot.doc = doc /\ Snapshot.clears \subseteq Flags
          /\ Holds(OpenFile, doc, Snapshot.clears \cup Stale')
          BY <1>1, <2>1, SnapshotCovers DEF Stale
    <2>3. 0 \in Writers /\ 0 \notin Claims BY DEF Writers, Claims
    <2> HIDE DEF DataSafe
    <2> QED BY <1>1, <1>2, <1>3, <2>1, <2>2, <2>3, SaveBegins
  <1> QED BY <1>4, <1>5

\* What app.save_scene() reports as None is in the file, on disk.
LEMMA OwnSaveEndKeepsData == ASSUME Inductive, DataSafe, TeardownSaved PROVE DataSafe'
  <1> USE DEF DataSafe
  <1>1. /\ UNCHANGED <<doc, prepared, results, restore, promised, kept, adrift, files>>
        /\ eng = "saving" /\ eng' = "join" /\ saved' = job[0].err
        /\ dirty' = IF job[0].err = "None" THEN dirty ELSE dirty \cup job[0].work.clears
        /\ job[0].at \in {"restore", "result"} /\ job[0].at \in Undelivered /\ 0 \in Writers
        BY DEF TeardownSaved, control, history, Undelivered, Places, Writers
  <1> USE DEF files
  <1>2. SnapshotHolds(0) /\ doc.scene \in Scenes BY <1>1, SaveSteps
  <1>3. /\ \A m \in Writers : m # 0 => job'[m] = job[m]
        /\ job'[0] = NoJob
        BY <1>1, SaveSteps DEF TeardownSaved
  <1>4. NoJob.at = "none" /\ NoJob.err = "None" /\ NoJob.work = NoWork /\ NoWork.clears = {}
        BY DEF NoJob, NoWork
  <1>5. \A m \in Writers : m # 0 => job[m].at = "none"
        BY <1>1 DEF Inductive, ClosuresInPlace, Quieted, Writers
  <1>6. \A m \in Writers : job'[m].at = "none" BY <1>3, <1>4, <1>5
  <1>7. InOpenScene' = InOpenScene /\ OpenFile' = OpenFile BY <1>1 DEF InOpenScene, OpenFile
  <1>8. \A s \in Scenes : disk[s] = durable[s]
    <2>1. \A m \in Writers : job[m].at # "through" BY <1>1, <1>5
    <2> QED BY <2>1 DEF Settled
  <1>9. DataTypes' BY <1>1, <1>3, <1>4 DEF DataTypes, FileErrors
  <1>10. SnapshotsHold' BY <1>6 DEF SnapshotsHold, Undelivered
  <1>11. NothingForgotten'
    <2>1. CASE job[0].err = "None"
      <3>1. job[0].at = "result" BY <1>1, <1>2, <2>1 DEF SnapshotHolds
      <3>2. Holds(OpenFile, doc, Stale \cup dirty)
            BY <1>2, <2>1, <3>1, HoldsThrough DEF SnapshotHolds
      <3>3. Stale \cup dirty \subseteq Owed' \cup adrift' BY <1>1, <2>1 DEF Owed, Stale
      <3> QED BY <1>1, <1>7, <3>2, <3>3, HoldsMore DEF NothingForgotten
    <2>2. CASE job[0].err # "None"
      <3>1. \A m \in Returning : m = 0 BY <1>5 DEF Returning, Ahead
      <3>2. \A m \in Returning : job[m].work.clears \subseteq dirty' BY <1>1, <2>2, <3>1
      <3>3. Owed \cup adrift \subseteq Owed' \cup adrift' BY <1>1, <2>2, <3>2 DEF Owed
      <3> QED BY <1>1, <1>7, <3>3, HoldsMore DEF NothingForgotten
    <2> QED BY <2>1, <2>2
  <1>12. Settled' BY <1>1, <1>8 DEF Settled
  <1>13. KeptIsKept' BY <1>1, <1>7 DEF KeptIsKept
  <1>14. ClaimInOrder' BY <1>1 DEF ClaimInOrder, Claiming
  <1>15. TeardownInOrder'
    <2> SUFFICES ASSUME job[0].err = "None" PROVE Holds(durable[doc.scene], doc, adrift)
        BY <1>1, <1>6 DEF TeardownInOrder
    <2>1. job[0].at = "result" BY <1>1, <1>2 DEF SnapshotHolds
    <2>2. Holds(OpenFile, job[0].work.doc, Stale) BY <1>2, <2>1 DEF SnapshotHolds
    <2>3. job[0].work.doc.edits = doc.edits /\ job[0].work.doc.pose = doc.pose
          BY <1>1, <1>2 DEF SnapshotHolds, Holds, ClaimInOrder
    <2> QED BY <1>2, <1>8, <2>2, <2>3 DEF Holds, OpenFile, Stale
  <1> QED BY <1>9, <1>10, <1>11, <1>12, <1>13, <1>14, <1>15

-----------------------------------------------------------------------------
LEMMA DataNext == ASSUME Inductive, CallsApart, DataSafe, [Next]_vars PROVE DataSafe'
  <1>1. CASE Frame
    <2>1. CASE \E c \in Callers : ClaimSave(c) BY <2>1, ClaimKeepsData
    <2>2. CASE \E c \in Callers : LoadScene(c) \/ RestoreCamera(c) \/ LoadFails(c)
          BY <2>2, LoadKeepsData, CameraKeepsData, LoadFailsKeepsData
    <2> QED BY <1>1, <2>1, <2>2, MovesKeepData, EditsKeepData, FinalizeKeepsData, CleanKeepsData,
               PrepareKeepsData, PostKeepsData, PostFailsKeepsData DEF Frame
  <1>2. CASE Throw BY <1>2, ThrowKeepsData
  <1>3. CASE Teardown
    <2>1. CASE Commit(0) BY <2>1, CommitKeepsData DEF Writers
    <2> QED BY <1>3, <2>1, MovesKeepData, FinalizeKeepsData, OwnSaveKeepsData,
               OwnSaveEndKeepsData DEF Teardown
  <1>4. CASE LaneStep
    <2>1. CASE StartClosure
          BY <2>1, DataUntouched DEF StartClosure, documents, engine, control, closures, history
    <2>2. CASE \E n \in Claims : Commit(n) BY <2>2, CommitKeepsData DEF Writers
    <2> QED BY <1>4, <2>1, <2>2, RestoreKeepsData, ResultKeepsData, PublishKeepsData, EndKeepsData
            DEF LaneStep, Deliver
  <1>5. CASE (\E c \in Callers : Host(c)) \/ Stop \/ UNCHANGED vars
    <2>1. UNCHANGED <<eng, documents>>
          BY <1>5 DEF Host, PostEdit, Enter, CallerStep, Admit, CallReturns, Leave, Stop,
             RequestStop, JoinAndClose, Delete, vars, documents, engine, control, closures,
             history
    <2> QED BY <2>1, DataUntouched
  <1> QED BY <1>1, <1>2, <1>3, <1>4, <1>5 DEF Next, Engine

LEMMA DataInvariance == OneDriver /\ Spec => []DataSafe
  <1>1. OneDriver /\ Init => CallsApart BY CallsInit
  <1>2. Inductive /\ CallsApart /\ [Next]_vars => CallsApart' BY CallsNext
  <1>3. Inductive /\ CallsApart /\ DataSafe /\ [Next]_vars => DataSafe' BY DataNext
  <1> QED BY <1>1, <1>2, <1>3, DataInit, Invariance, PTL DEF Spec

\* Stopping persists, for owners of which no two open and save at once: when the
\* teardown save of run_project_runtime reports None the scene file, as a power
\* loss would leave it, has every edit and the camera pose the engine had, however
\* many saves failed, lost their report or were under way when the loop ended.
\* Only what load_scene() left adrift is not in it: a camera it did not restore
\* and nobody has moved, a cached scene nobody has edited.
THEOREM StoppingPersists == OneDriver /\ Spec => []TeardownPersists
  <1>1. DataSafe => TeardownPersists
        BY DEF DataSafe, TeardownInOrder, TeardownPersists, Holds
  <1> QED BY <1>1, DataInvariance, PTL

\* For the same owners, every scene file is whole whenever the power goes, and an
\* edit whose save was answered None is in it until an open after a failed bind
\* shows its owner the scene without it (and is answered FALSE): write_file_atomic()
\* flushes before it renames, and later documents grow from what is kept.
THEOREM SavedForGood == OneDriver /\ Spec => []SavedStaysSaved
  <1>1. DataSafe => SavedStaysSaved
        BY DEF DataSafe, DataTypes, KeptIsKept, SavedStaysSaved
  <1> QED BY <1>1, DataInvariance, PTL

\* For the same owners, complete_pending_save() answers None only when the file of
\* the scene that was open at the claim has, on disk, the edits and the camera pose
\* of that moment, except what load_scene() left adrift and no snapshot has taken:
\* a clean document was saved already, whichever flags are still on their way back
\* from a failed save, and a dirty one was written and settled.
THEOREM AnswersAreHonest == OneDriver /\ Spec => SaveAnswerIsHonest
  <1> DEFINE Told(c) == saveCall[c].kind = "running" /\ saveCall'[c] = Save!Answer("None")
             Honest == LET file == durable'[promised.scene]
                       IN  /\ "scene" \in adrift \/ promised.edits \subseteq file.edits
                           /\ "camera" \in adrift \/ promised.pose = file.pose
  <1>1. ASSUME Inductive, DataSafe, [Next]_vars, NEW c \in Callers, Told(c) PROVE Honest
    <2>1. (PrepareClean \/ \E n \in Claims : PublishSave(n) /\ job[n].err = "None")
      <3>1. ASSUME NEW err, Answer(err) PROVE err = "None"
        <4>1. PICK d \in Callers : Save!FinishWith(d, Save!Answer(err)) BY <3>1 DEF Answer
        <4>2. DOMAIN saveCall = Callers BY <1>1 DEF Inductive, Shape
        <4>3. saveCall'[c] # saveCall[c]
              BY <1>1 DEF Save!Answer
        <4>4. c = d BY <4>1, <4>2, <4>3 DEF Save!FinishWith
        <4>5. saveCall'[c].value = err /\ Save!Answer("None").value = "None"
              BY <4>1, <4>2, <4>4 DEF Save!FinishWith, Save!Answer
        <4> QED BY <1>1, <4>5
      <3>2. saveCall' # saveCall BY <1>1 DEF Save!Answer
      <3>3. ~ \E d \in Callers : Save!Begin(d) \/ Save!Invoke(d) \/ Save!Release(d)
        <4> SUFFICES ASSUME NEW d \in Callers, Save!Begin(d) \/ Save!Invoke(d) \/ Save!Release(d)
                     PROVE  FALSE
            OBVIOUS
        <4>1. saveCall'[c].kind = "answer" BY <1>1 DEF Save!Answer
        <4>2. DOMAIN saveCall = Callers BY <1>1 DEF Inductive, Shape
        <4>3. PICK p \in {"idle", "waiting", "running"} :
                     saveCall' = [saveCall EXCEPT ![d] = Save!Phase(p)]
              BY DEF Save!Begin, Save!Invoke, Save!Release
        <4> QED BY <1>1, <4>1, <4>2, <4>3 DEF Save!Phase
      <3>4. PrepareClean \/ PostFails \/ Throw \/ \E n \in Claims : PublishSave(n)
        <4> USE DEF saveVerb
        <4>1. CASE Frame
              BY <3>2, <3>3, <4>1 DEF Frame, LeaveLoop, DrainEdits, Finalize, FinalizeInClaim,
                 DrainResults, TakeRestore, ClaimSave, ClaimOpen, LoadScene, RestoreCamera,
                 LoadFails, NoSavePending, PrepareDirty, PostClosure, NoOpenPending, Simulate
        <4>2. CASE Teardown
              BY <3>2, <4>2 DEF Teardown, CloseLane, QuiesceLane, LastDrain, DrainResults,
                 TakeRestore, TeardownSave, TeardownSaved, JoinLanes, MarkFinished, Commit,
                 CommitRead, CommitStage, WriteStaging, CommitRename, CommitSettles, CommitFails,
                 Save!Close
        <4>3. CASE LaneStep
              BY <3>2, <4>3 DEF LaneStep, StartClosure, Deliver, RequestRestore, PostResult,
                 EndClosure, Commit, CommitRead, CommitStage, WriteStaging, CommitRename,
                 CommitSettles, CommitFails
        <4>4. CASE (\E d \in Callers : Host(d)) \/ Stop \/ UNCHANGED vars
              BY <3>2, <3>3, <4>4 DEF Host, PostEdit, Enter, CallerStep, Admit, CallReturns,
                 Leave, Stop, RequestStop, JoinAndClose, Delete, vars
        <4> QED BY <1>1, <4>1, <4>2, <4>3, <4>4 DEF Next, Engine
      <3>5. ~PostFails BY <3>1 DEF PostFails
      <3>6. ~Throw
        <4>1. Throw => Answer("IOError") \/ UNCHANGED saveVerb BY DEF Throw
        <4> QED BY <3>1, <3>2, <4>1 DEF saveVerb
      <3> QED BY <3>1, <3>4, <3>5, <3>6 DEF PublishSave
    <2>2. CASE PrepareClean
      <3>1. eng = "prepare" /\ dirty = {} /\ UNCHANGED durable
            BY <2>2 DEF PrepareClean, files
      <3>2. promised = doc BY <1>1, <3>1 DEF DataSafe, ClaimInOrder, Claiming
      <3>3. Holds(durable[doc.scene], doc, adrift) BY <1>1, <3>1, CleanIsOnDisk
      <3> QED BY <3>1, <3>2, <3>3 DEF Holds
    <2>3. ASSUME NEW n \in Claims, PublishSave(n), job[n].err = "None" PROVE Honest
      <3>1. UNCHANGED durable BY <2>3 DEF PublishSave, files
      <3>2. promised.scene = doc.scene /\ disk[doc.scene] = durable[doc.scene]
            /\ Holds(OpenFile, promised, adrift)
            BY <1>1, <2>3, PublishedIsOnDisk
      <3> QED BY <3>1, <3>2 DEF Holds, OpenFile
    <2> QED BY <2>1, <2>2, <2>3
  <1>2. Inductive /\ DataSafe /\ [Next]_vars => [\A c \in Callers : Told(c) => Honest]_vars
        BY <1>1
  <1> QED BY <1>2, DataInvariance, Invariance, PTL DEF Spec, SaveAnswerIsHonest
====
