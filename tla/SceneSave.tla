---- MODULE SceneSave ----
(***************************************************************************)
(* The editor's save path: the resident engine's frame loop and teardown   *)
(* (run_project_runtime), the blocking save and open verbs of              *)
(* EditorRuntimeControl with their lifetime interlock, the save closure on *)
(* the IO lane, the three-part save of WozzitsApp_v1, and                  *)
(* wz_host_runtime_stop.                                                   *)
(*                                                                         *)
(* The verbs are two BlockingVerbs (RequestChannel implements that         *)
(* specification) and the IO lane is a JobLane (IoExecutor implements it). *)
(* An authored edit is a set element, a scene file the set of edits it     *)
(* holds and, once it was saved by an editor, a camera pose.               *)
(***************************************************************************)
EXTENDS Naturals, Sequences, FiniteSets

CONSTANTS
    Callers,     \* owner threads calling the blocking verbs
    Scenes,      \* scene files of the project
    MainScene,   \* the one the engine loads at start
    Edits,       \* authored edits; each is posted at most once
    MaxSaves,    \* bound: save verbs called, and claimed
    Plans,       \* bound: what the owner threads may do in a behaviour
    NoScene,     \* "none"
    NoPose       \* a file without a (whole) editor camera block

ASSUME CallersAssumption == IsFiniteSet(Callers)
ASSUME MainSceneAssumption == MainScene \in Scenes /\ NoScene \notin Scenes
ASSUME NoPoseAssumption == NoPose \notin Nat
ASSUME PlansAssumption ==
    /\ MaxSaves \in Nat
    /\ Plans \subseteq [callers : SUBSET Callers, scenes : SUBSET Scenes, edits : SUBSET Edits,
                        pose : Nat, posed : SUBSET Scenes, save : 0 .. MaxSaves, open : Nat]

VARIABLES
    \* the engine thread
    eng,         \* where run_project_runtime is
    doc,         \* document_ and the free-fly camera: [scene, edits, pose]
    dirty,       \* document_.dirty() and editor_camera_dirty_
    prepared,    \* the snapshot prepare_scene_save() returned
    saved,       \* what the teardown save returned
    \* EditorRuntimeControl
    mailbox,     \* edits posted and not yet drained
    results,     \* async_save_results_
    restore,     \* pending_dirty_restore_
    stop,        \* stop_
    closing,     \* closing_
    active,      \* active_callers_
    \* the two verbs
    saveCall, saveClosed,
    openCall, openClosed,
    \* the IO lane and its save closures, numbered in the order of their claims
    fate, backlog, laneClosed, laneQuiet,
    job,         \* each closure: its snapshot and how far it got
    claims,      \* saves claimed so far
    \* the disk
    disk,        \* the document each scene file holds
    durable,     \* the one it holds if the power goes now
    cached,      \* those the asset system has compiled and not evicted
    \* threads outside the engine
    phase,       \* where each caller is in its verb
    target,      \* the scene each caller asked to open
    plan,        \* who may still call what; camera poses are 0..plan.pose
    stopper,     \* wz_host_runtime_stop
    \* history
    promised,    \* the document when the pending save was claimed
    posted,      \* the edits each caller has posted
    kept,        \* edits whose save was answered None, less what a failed bind unloads
    adrift       \* what an open left clean though the scene file does not hold it:
                 \* a camera it did not restore, an older scene it found cached

engine == <<eng, doc, dirty, prepared, saved>>
control == <<mailbox, results, restore, stop, closing, active>>
saveVerb == <<saveCall, saveClosed>>
openVerb == <<openCall, openClosed>>
lane == <<fate, backlog, laneClosed, laneQuiet>>
closures == <<job, claims>>
files == <<disk, durable, cached>>
hosts == <<phase, target, plan, stopper>>
history == <<promised, posted, kept, adrift>>
vars == <<engine, control, saveVerb, openVerb, lane, closures, files, hosts, history>>

Claims == 1..MaxSaves
Flags == {"scene", "camera"}
FileErrors == {"None", "IOError"}

\* What a call returned last is not looked at here: outcome is a constant.
Save == INSTANCE BlockingVerb WITH Results <- FileErrors, call <- saveCall,
                                   outcome <- <<>>, closed <- saveClosed
Open == INSTANCE BlockingVerb WITH Results <- BOOLEAN, call <- openCall,
                                   outcome <- <<>>, closed <- openClosed
Lane == INSTANCE JobLane WITH Jobs <- Claims, closed <- laneClosed,
                              quiet <- laneQuiet

NoDoc == [scene |-> NoScene, edits |-> {}, pose |-> NoPose]
NoWork == [doc |-> NoDoc, clears |-> {}]
NoJob == [at |-> "none", work |-> NoWork, file |-> NoDoc, flushed |-> NoDoc,
          err |-> "None"]

Init ==
    /\ plan \in Plans
    /\ disk = [s \in Scenes |-> [scene |-> s, edits |-> {},
                                pose |-> IF s \in plan.posed THEN 0 ELSE NoPose]]
    /\ eng = "top" /\ doc = [scene |-> MainScene, edits |-> {}, pose |-> 0]
    /\ dirty = {} /\ prepared = NoWork /\ saved = "notRun"
    /\ mailbox = {} /\ results = <<>> /\ restore = {}
    /\ stop = FALSE /\ closing = FALSE /\ active = 0
    /\ saveCall = [c \in Callers |-> Save!Phase("idle")] /\ saveClosed = FALSE
    /\ openCall = [c \in Callers |-> Open!Phase("idle")] /\ openClosed = FALSE
    /\ Lane!Init
    /\ job = [n \in {0} \cup Claims |-> NoJob] /\ claims = 0
    /\ durable = disk /\ cached = {[disk[MainScene] EXCEPT !.pose = NoPose]}
    /\ phase = [c \in Callers |-> "out"]
    /\ target = [c \in Callers |-> NoScene]
    /\ stopper = "running"
    /\ promised = NoDoc /\ posted = [c \in Callers |-> {}] /\ kept = {}
    /\ adrift = IF disk[MainScene].pose = NoPose THEN {"camera"} ELSE {}

-----------------------------------------------------------------------------
(* Owner threads.  The host begins no verb once it has begun to stop the   *)
(* runtime (editor_runtime.h:427-434); a verb begun earlier may still be   *)
(* anywhere inside when stop() runs.                                       *)

\* A non-blocking edit verb: one Mailbox post.
PostEdit(c, e) ==
    /\ phase[c] = "out" /\ stopper = "running"
    /\ c \in plan.callers /\ e \in plan.edits
    /\ \A d \in Callers : \A s \in Scenes : <<s, e>> \notin posted[d]
    /\ \E s \in plan.scenes :
         /\ mailbox' = mailbox \cup {<<s, e>>}
         /\ posted' = [posted EXCEPT ![c] = @ \cup {<<s, e>>}]
    /\ UNCHANGED <<engine, results, restore, stop, closing, active, saveVerb,
                   openVerb, lane, closures, files, hosts, promised, kept, adrift>>

\* CallerScope's constructor, its increment; the verb is chosen here.
Enter(c, verb, s) ==
    /\ phase[c] = "out" /\ stopper = "running"
    /\ c \in plan.callers /\ plan[verb] > 0
    /\ plan' = [plan EXCEPT ![verb] = @ - 1]
    /\ active' = active + 1
    /\ phase' = [phase EXCEPT ![c] = verb]
    /\ target' = [target EXCEPT ![c] = s]
    /\ UNCHANGED <<engine, mailbox, results, restore, stop, closing, saveVerb,
                   openVerb, lane, closures, files, stopper, history>>

\* Its test of closing_: admitted callers go on into the request.
Admit(c) ==
    /\ phase[c] \in {"save", "open"}
    /\ IF closing
         THEN phase' = [phase EXCEPT ![c] = "leaving"] /\ UNCHANGED <<saveVerb, openVerb>>
         ELSE /\ phase' = [phase EXCEPT ![c] = "in"]
              /\ IF phase[c] = "save" THEN Save!Invoke(c) /\ UNCHANGED openVerb
                                      ELSE Open!Invoke(c) /\ UNCHANGED saveVerb
    /\ UNCHANGED <<engine, control, lane, closures, files, target, plan, stopper,
                   history>>

\* The request's call() returns.
CallReturns(c) ==
    /\ phase[c] = "in"
    /\ phase' = [phase EXCEPT ![c] = "leaving"]
    /\ \/ Save!Release(c) /\ UNCHANGED openVerb
       \/ Open!Release(c) /\ UNCHANGED saveVerb
    /\ UNCHANGED <<engine, control, lane, closures, files, target, plan, stopper,
                   history>>

\* CallerScope's destructor, the caller's last touch of the control.
Leave(c) ==
    /\ phase[c] = "leaving"
    /\ active' = active - 1
    /\ phase' = [phase EXCEPT ![c] = "out"]
    /\ target' = [target EXCEPT ![c] = NoScene]
    /\ UNCHANGED <<engine, mailbox, results, restore, stop, closing, saveVerb,
                   openVerb, lane, closures, files, plan, stopper, history>>

-----------------------------------------------------------------------------
(* The frame loop.                                                         *)

\* stop_ is polled; the window may also close, a phase fail or the frame bound
\* of a verification run be reached. All of them leave the loop.
LeaveLoop ==
    /\ eng = "top"
    /\ eng' = "quiesce"
    /\ UNCHANGED <<doc, dirty, prepared, saved, control, saveVerb, openVerb, lane,
                   closures, files, hosts, history>>

\* The edit mailboxes are drained and applied; an edit of a node the working
\* scene does not have is dropped and recorded as such.
DrainEdits ==
    /\ eng = "top" /\ ~stop
    /\ LET applied == {m[2] : m \in {m \in mailbox : m[1] = doc.scene}}
       IN  /\ doc' = [doc EXCEPT !.edits = @ \cup applied]
           /\ dirty' = IF applied = {} THEN dirty ELSE dirty \cup {"scene"}
    /\ mailbox' = {}
    /\ eng' = "drain"
    /\ UNCHANGED <<prepared, saved, results, restore, stop, closing, active,
                   saveVerb, openVerb, lane, closures, files, hosts, history>>

RestoredBy(rs) == UNION {rs[i].restore : i \in {i \in DOMAIN rs : rs[i].err # "None"}}

\* drain_async_save_results: a failed save gives its flags back.
DrainResults(from, to) ==
    /\ eng = from
    /\ dirty' = dirty \cup RestoredBy(results)
    /\ results' = <<>>
    /\ eng' = to
    /\ UNCHANGED <<doc, prepared, saved, mailbox, restore, stop, closing, active,
                   saveVerb, openVerb, lane, closures, files, hosts, history>>

\* take_dirty_restore: so does the sticky bitmask.
TakeRestore(from, to) ==
    /\ eng = from
    /\ dirty' = dirty \cup restore
    /\ restore' = {}
    /\ eng' = to
    /\ UNCHANGED <<doc, prepared, saved, mailbox, results, stop, closing, active,
                   saveVerb, openVerb, lane, closures, files, hosts, history>>

\* finalize_finished_saves(), once a frame and again inside a claim.
Finalize == DrainResults("drain", "take") \/ TakeRestore("take", "claim")

\* Variant: nothing is drained inside the claim.
FinalizeInClaimSkipped ==
    /\ eng = "redrain"
    /\ eng' = "prepare"
    /\ UNCHANGED <<doc, dirty, prepared, saved, control, saveVerb, openVerb, lane,
                   closures, files, hosts, history>>

FinalizeInClaim == DrainResults("redrain", "retake") \/ TakeRestore("retake", "prepare")

\* begin_pending_save()
ClaimSave(c) ==
    /\ eng = "claim" /\ claims < MaxSaves
    /\ Save!Begin(c)
    /\ claims' = claims + 1
    /\ promised' = doc
    /\ eng' = "redrain"
    /\ UNCHANGED <<doc, dirty, prepared, saved, control, saveClosed, openVerb,
                   lane, job, files, hosts, posted, kept, adrift>>

NoSavePending ==
    /\ eng = "claim"
    /\ \A c \in Callers : saveCall[c] # Save!Phase("waiting")
    /\ eng' = "open"
    /\ UNCHANGED <<doc, dirty, prepared, saved, control, saveVerb, openVerb, lane,
                   closures, files, hosts, history>>

\* complete_pending_save(): the caller whose save is claimed is answered.
Answer(err) ==
    \E c \in Callers :
        /\ Save!FinishWith(c, Save!Answer(err))
        /\ promised' = NoDoc
        /\ kept' = IF err = "None" /\ "scene" \notin adrift
                     THEN kept \cup {<<promised.scene, e>> : e \in promised.edits}
                     ELSE kept

\* What prepare_scene_save() snapshots: the flags say what to write, but the
\* viewport camera is always part of an editor save.
Snapshot == [doc |-> doc, clears |-> (dirty \cap {"scene"}) \cup {"camera"}]

\* Nothing changed since the last save: the claim is answered at once.
PrepareClean ==
    /\ eng = "prepare" /\ dirty = {}
    /\ Answer("None")
    /\ eng' = "open"
    /\ UNCHANGED <<doc, dirty, prepared, saved, control, openVerb, lane, closures,
                   files, hosts, posted, adrift>>

PrepareDirty ==
    /\ eng = "prepare" /\ dirty # {}
    /\ prepared' = Snapshot
    /\ dirty' = {} /\ adrift' = adrift \ Snapshot.clears
    /\ eng' = "post"
    /\ UNCHANGED <<doc, saved, control, saveVerb, openVerb, lane, closures, files,
                   hosts, promised, posted, kept>>

\* The lane accepts the closure, which now owes the answer.
PostClosure ==
    /\ eng = "post"
    /\ Lane!Accept(claims)
    /\ job' = [job EXCEPT ![claims] = [NoJob EXCEPT !.at = "read", !.work = prepared]]
    /\ prepared' = NoWork
    /\ eng' = "open"
    /\ UNCHANGED <<doc, dirty, saved, control, saveVerb, openVerb, claims, files,
                   hosts, history>>

\* post() throws, or refuses: the engine answers and puts the flags back itself.
PostFails ==
    /\ eng = "post"
    /\ Answer("IOError")
    /\ dirty' = dirty \cup prepared.clears
    /\ prepared' = NoWork
    /\ eng' = "open"
    /\ UNCHANGED <<doc, saved, control, openVerb, lane, closures, files, hosts, posted,
                   adrift>>

\* open_scene_.service(): claim, load, publish.
ClaimOpen(c) ==
    /\ eng = "open"
    /\ Open!Begin(c)
    /\ eng' = "load"
    /\ UNCHANGED <<doc, dirty, prepared, saved, control, saveVerb, lane, closures,
                   files, hosts, history>>

NoOpenPending ==
    /\ eng = "open"
    /\ \A c \in Callers : openCall[c] # Open!Phase("waiting")
    /\ eng' = "simulate"
    /\ UNCHANGED <<doc, dirty, prepared, saved, control, saveVerb, openVerb, lane,
                   closures, files, hosts, history>>

\* bind_asset_graph() evicts what the asset system compiled of any scene, unless
\* the commit, the rebuild or the resolve of the graph fails first.
LeftBy(evicts) == IF evicts THEN {} ELSE cached

\* A scene is registered under its path: what is left of it is a cache hit, and
\* the file is read only when nothing is.  The camera is no part of it.
Compiled(s, left) ==
    LET hits == {d \in left : d.scene = s}
    IN  IF hits = {} THEN {[disk[s] EXCEPT !.pose = NoPose]} ELSE hits

\* load_scene() swaps the working scene for what the asset system compiles,
\* whatever the old one had unsaved.  After a failed bind that may be an older
\* document than the file: what the file has more will not survive a save.
LoadScene(c) ==
    /\ eng = "load" /\ openCall[c] = Open!Phase("running")
    /\ \E evicts \in BOOLEAN : \E loaded \in Compiled(target[c], LeftBy(evicts)) :
         /\ doc' = [loaded EXCEPT !.pose = doc.pose]
         /\ cached' = LeftBy(evicts) \cup {loaded}
         /\ kept' = IF evicts THEN kept
                    ELSE {k \in kept : k[1] = loaded.scene => k[2] \in loaded.edits}
         /\ eng' = IF evicts THEN "camera" ELSE "cameraUnbound"
         /\ adrift' = IF loaded.edits = disk[loaded.scene].edits THEN {"camera"} ELSE Flags
    /\ dirty' = dirty \ {"scene"}
    /\ UNCHANGED <<prepared, saved, control, saveVerb, openVerb, lane, closures, disk,
                   durable, hosts, promised, posted>>

\* Its end reads the file again, for the camera: with no file, no JSON or no
\* whole camera block the camera stays where it is, and is clean all the same.
\* A bind that failed is reported, one that did not may have.
RestoreCamera(c) ==
    /\ eng \in {"camera", "cameraUnbound"}
    /\ \E ok \in {eng = "camera", FALSE} : Open!FinishWith(c, Open!Answer(ok))
    /\ \E parsed \in BOOLEAN :
         LET restored == parsed /\ disk[doc.scene].pose # NoPose
         IN  IF restored THEN /\ doc' = [doc EXCEPT !.pose = disk[doc.scene].pose]
                              /\ adrift' = adrift \ {"camera"}
                         ELSE UNCHANGED <<doc, adrift>>
    /\ dirty' = dirty \ {"camera"}
    /\ eng' = "simulate"
    /\ UNCHANGED <<prepared, saved, control, saveVerb, lane, closures, files, hosts,
                   promised, posted, kept>>

\* The graph file is not read, or the scene does not compile: the working scene
\* stays.  The bind in between may have evicted, the text have compiled.
LoadFails(c) ==
    /\ eng = "load"
    /\ Open!FinishWith(c, Open!Answer(FALSE))
    /\ \E evicts \in BOOLEAN :
         \E compiled \in SUBSET Compiled(target[c], LeftBy(evicts)) :
             cached' = LeftBy(evicts) \cup compiled
    /\ eng' = "simulate"
    /\ UNCHANGED <<doc, dirty, prepared, saved, control, saveVerb, lane, closures,
                   disk, durable, hosts, history>>

\* The rest of the frame: the viewport camera may move.
Simulate ==
    /\ eng = "simulate"
    /\ \E p \in 0..plan.pose :
         /\ doc' = [doc EXCEPT !.pose = p]
         /\ dirty' = IF p = doc.pose THEN dirty ELSE dirty \cup {"camera"}
         /\ adrift' = IF p = doc.pose THEN adrift ELSE adrift \ {"camera"}
    /\ eng' = "top"
    /\ UNCHANGED <<prepared, saved, control, saveVerb, openVerb, lane, closures,
                   files, hosts, promised, posted, kept>>

Loading == {"load", "camera", "cameraUnbound"}
Throwing == {"top", "simulate", "redrain", "retake", "prepare"} \cup Loading

\* Variant: no PendingSaveGuard.
ThrowUnanswered ==
    /\ eng \in Throwing
    /\ IF eng \in Loading
         THEN \E c \in Callers : Open!FinishWith(c, Open!Phase("failed"))
         ELSE UNCHANGED openVerb
    /\ eng' = "unwind"
    /\ UNCHANGED <<doc, dirty, prepared, saved, control, saveVerb, lane, closures,
                   files, hosts, history>>

\* An exception unwinds run_project_runtime past the teardown save. service()
\* fails the open it was running; PendingSaveGuard answers the claimed save.
Throw ==
    /\ eng \in Throwing
    /\ IF eng \in Loading
         THEN \E c \in Callers : Open!FinishWith(c, Open!Phase("failed"))
         ELSE UNCHANGED openVerb
    /\ IF eng \in {"redrain", "retake", "prepare"}
         THEN Answer("IOError")
         ELSE UNCHANGED <<saveVerb, promised, kept>>
    /\ eng' = "unwind"
    /\ UNCHANGED <<doc, dirty, prepared, saved, control, lane, closures, files, hosts,
                   posted, adrift>>

-----------------------------------------------------------------------------
(* The save closure, on a thread of the IO lane.                           *)

StartClosure == Lane!Start
    /\ UNCHANGED <<engine, control, saveVerb, openVerb, closures, files, hosts, history>>

\* Who is at a point of the save closure; 0 is the engine's own teardown save.
Running(n, at) == job[n].at = at /\ (n \in Claims => fate[n] = "running")

\* update_scene_document() reads the file.
CommitRead(n) ==
    /\ Running(n, "read")
    /\ job' = [job EXCEPT ![n].at = "stage",
                          ![n].file = disk[job[n].work.doc.scene]]
    /\ UNCHANGED <<engine, control, saveVerb, openVerb, lane, claims, files, hosts, history>>

\* The nodes of base are replaced only by a scene edit, the camera always.
Edited(base, work) ==
    [work.doc EXCEPT !.edits = IF "scene" \in work.clears THEN @ ELSE base.edits]

\* write_file_atomic() writes a sibling of the scene file. Of bytes that are not
\* flushed a power loss leaves nothing, wherever the file is renamed to.
WriteStaging(n, flush) ==
    /\ Running(n, "stage")
    /\ LET edited == Edited(job[n].file, job[n].work)
       IN  job' = [job EXCEPT ![n].at = "rename", ![n].file = edited,
                              ![n].flushed = IF flush THEN edited ELSE NoDoc]
    /\ UNCHANGED <<engine, control, saveVerb, openVerb, lane, claims, files, hosts, history>>

\* Variant: the sibling is written as write_file() writes.
CommitStageUnflushed(n) == WriteStaging(n, FALSE)

CommitStage(n) == WriteStaging(n, TRUE)

\* MoveFileEx() replaces the scene file by its sibling; the journal of the
\* volume may have that on disk at once or later.
CommitRename(n) ==
    /\ Running(n, "rename")
    /\ LET scene == job[n].work.doc.scene
       IN  /\ disk' = [disk EXCEPT ![scene] = job[n].file]
           /\ \E onDisk \in {durable[scene], job[n].flushed} :
                durable' = [durable EXCEPT ![scene] = onDisk]
    /\ job' = [job EXCEPT ![n].at = "through"]
    /\ UNCHANGED <<engine, control, saveVerb, openVerb, lane, claims, cached, hosts, history>>

\* MOVEFILE_WRITE_THROUGH: it returns once the rename is on disk.
CommitSettles(n) ==
    /\ Running(n, "through")
    /\ durable' = [durable EXCEPT ![job[n].work.doc.scene] = job[n].flushed]
    /\ job' = [job EXCEPT ![n].at = "result", ![n].file = NoDoc, ![n].flushed = NoDoc]
    /\ UNCHANGED <<engine, control, saveVerb, openVerb, lane, claims, disk, cached, hosts,
                   history>>

\* The read, the write of the sibling or the rename fails or throws; the scene
\* file is as it was.
CommitFails(n) ==
    /\ \E at \in {"read", "stage", "rename"} : Running(n, at)
    /\ job' = [job EXCEPT ![n].at = "restore", ![n].err = "IOError",
                          ![n].file = NoDoc, ![n].flushed = NoDoc]
    /\ UNCHANGED <<engine, control, saveVerb, openVerb, lane, claims, files, hosts, history>>

\* request_dirty_restore()
RequestRestore(n) ==
    /\ Running(n, "restore")
    /\ restore' = restore \cup job[n].work.clears
    /\ job' = [job EXCEPT ![n].at = "result"]
    /\ UNCHANGED <<engine, mailbox, results, stop, closing, active, saveVerb, openVerb,
                   lane, claims, files, hosts, history>>

\* post_async_save_result(), lost when its allocation throws.
PostResult(n) ==
    /\ Running(n, "result")
    /\ \/ results' = Append(results, [err |-> job[n].err, restore |-> job[n].work.clears])
       \/ UNCHANGED results
    /\ job' = [job EXCEPT ![n].at = "publish"]
    /\ UNCHANGED <<engine, mailbox, restore, stop, closing, active, saveVerb, openVerb,
                   lane, claims, files, hosts, history>>

PublishSave(n) ==
    /\ Running(n, "publish")
    /\ Answer(job[n].err)
    /\ job' = [job EXCEPT ![n].at = "end"]
    /\ UNCHANGED <<engine, control, openVerb, lane, claims, files, hosts, posted, adrift>>

\* The worker drops the closure and counts it out.
EndClosure(n) ==
    /\ Running(n, "end")
    /\ fate' = [fate EXCEPT ![n] = "done"]
    /\ job' = [job EXCEPT ![n] = NoJob]
    /\ UNCHANGED <<engine, control, saveVerb, openVerb, backlog, laneClosed, laneQuiet,
                   claims, files, hosts, history>>

\* commit_scene_save()
Commit(n) ==
    \/ CommitRead(n) \/ CommitStage(n) \/ CommitRename(n) \/ CommitSettles(n)
    \/ CommitFails(n)

\* What follows it in the closure.
Deliver(n) == RequestRestore(n) \/ PostResult(n) \/ PublishSave(n) \/ EndClosure(n)

-----------------------------------------------------------------------------
(* Teardown on the engine thread.                                          *)

\* io_executor->quiesce(), its two ends.
CloseLane ==
    /\ eng \in {"quiesce", "unwind"}
    /\ Lane!Close
    /\ eng' = IF eng = "quiesce" THEN "quiescing" ELSE "join"
    /\ UNCHANGED <<doc, dirty, prepared, saved, control, saveVerb, openVerb, closures,
                   files, hosts, history>>

\* Variant: the teardown save does not wait for the lane.
QuiesceSkipped ==
    /\ eng = "quiescing"
    /\ eng' = "lastDrain"
    /\ UNCHANGED <<doc, dirty, prepared, saved, control, saveVerb, openVerb, lane,
                   closures, files, hosts, history>>

QuiesceLane ==
    /\ eng = "quiescing"
    /\ Lane!ReportQuiet
    /\ eng' = "lastDrain"
    /\ UNCHANGED <<doc, dirty, prepared, saved, control, saveVerb, openVerb, closures,
                   files, hosts, history>>

\* Variant: only the mailbox is drained before the teardown save.
LastDrainWithoutRestore == DrainResults("lastDrain", "save")

LastDrain == DrainResults("lastDrain", "lastTake") \/ TakeRestore("lastTake", "save")

\* app.save_scene(): prepare, the same commit on this thread, finalize.
TeardownSave ==
    /\ eng = "save"
    /\ IF dirty = {}
         THEN eng' = "join" /\ saved' = "None" /\ UNCHANGED <<dirty, adrift, job>>
         ELSE /\ job' = [job EXCEPT ![0] = [NoJob EXCEPT !.at = "read", !.work = Snapshot]]
              /\ dirty' = {} /\ adrift' = adrift \ Snapshot.clears
              /\ eng' = "saving"
              /\ UNCHANGED saved
    /\ UNCHANGED <<doc, prepared, control, saveVerb, openVerb, lane, claims,
                   files, hosts, promised, posted, kept>>

TeardownSaved ==
    /\ eng = "saving" /\ job[0].at \in {"restore", "result"}
    /\ saved' = job[0].err
    /\ dirty' = IF saved' = "None" THEN dirty ELSE dirty \cup job[0].work.clears
    /\ job' = [job EXCEPT ![0] = NoJob]
    /\ eng' = "join"
    /\ UNCHANGED <<doc, prepared, control, saveVerb, openVerb, lane, claims, files,
                   hosts, history>>

\* ~RuntimeTeardown(): io_executor.reset() drains the lane and joins it.
JoinLanes ==
    /\ eng = "join"
    /\ \A n \in Claims : fate[n] \notin {"queued", "running"}
    /\ eng' = "finish"
    /\ UNCHANGED <<doc, dirty, prepared, saved, control, saveVerb, openVerb, lane,
                   closures, files, hosts, history>>

\* Variant: mark_finished() forgets save_.
FinishWithoutSave ==
    /\ eng = "finish"
    /\ Open!Close
    /\ eng' = "exited"
    /\ UNCHANGED <<doc, dirty, prepared, saved, control, saveVerb, lane, closures, files,
                   hosts, history>>

\* mark_finished(): every request is abandoned, and the thread ends.
MarkFinished ==
    /\ eng = "finish"
    /\ Save!Close /\ Open!Close
    /\ eng' = "exited"
    /\ UNCHANGED <<doc, dirty, prepared, saved, control, lane, closures, files, hosts,
                   history>>

-----------------------------------------------------------------------------
(* wz_host_runtime_stop()                                                  *)

RequestStop ==
    /\ stopper = "running"
    /\ stop' = TRUE
    /\ stopper' = "join"
    /\ UNCHANGED <<engine, mailbox, results, restore, closing, active, saveVerb,
                   openVerb, lane, closures, files, phase, target, plan, history>>

\* The engine thread is joined; begin_close() turns the rest away.
JoinAndClose ==
    /\ stopper = "join" /\ eng = "exited"
    /\ closing' = TRUE
    /\ stopper' = "drain"
    /\ UNCHANGED <<engine, mailbox, results, restore, stop, active, saveVerb, openVerb,
                   lane, closures, files, phase, target, plan, history>>

\* Variant: the callers inside are not waited for.
DeleteAtOnce ==
    /\ stopper = "drain"
    /\ stopper' = "deleted"
    /\ UNCHANGED <<engine, control, saveVerb, openVerb, lane, closures, files, phase,
                   target, plan, history>>

\* wait_for_callers_to_exit() saw no caller, and the runtime is deleted.
Delete ==
    /\ stopper = "drain" /\ active = 0
    /\ stopper' = "deleted"
    /\ UNCHANGED <<engine, control, saveVerb, openVerb, lane, closures, files, phase,
                   target, plan, history>>

-----------------------------------------------------------------------------
Frame ==
    \/ LeaveLoop \/ DrainEdits \/ Finalize \/ FinalizeInClaim
    \/ (\E c \in Callers : ClaimSave(c) \/ ClaimOpen(c))
    \/ (\E c \in Callers : LoadScene(c) \/ RestoreCamera(c) \/ LoadFails(c))
    \/ NoSavePending \/ PrepareClean \/ PrepareDirty \/ PostClosure \/ PostFails
    \/ NoOpenPending \/ Simulate

Teardown ==
    \/ CloseLane \/ QuiesceLane \/ LastDrain \/ TeardownSave \/ Commit(0)
    \/ TeardownSaved \/ JoinLanes \/ MarkFinished

Engine == Frame \/ Throw \/ Teardown

LaneStep == StartClosure \/ (\E n \in Claims : Commit(n) \/ Deliver(n))

CallerStep(c) == Admit(c) \/ CallReturns(c) \/ Leave(c)

Host(c) ==
    \/ (\E e \in Edits : PostEdit(c, e))
    \/ Enter(c, "save", NoScene)
    \/ (\E s \in plan.scenes : Enter(c, "open", s))
    \/ CallerStep(c)

Stop == RequestStop \/ JoinAndClose \/ Delete

Next == Engine \/ LaneStep \/ (\E c \in Callers : Host(c)) \/ Stop

Spec == Init /\ [][Next]_vars

\* Every started thread runs on: the engine thread, the lane, a caller inside a
\* verb, stop() once it has begun. Nothing obliges anybody to call or to stop.
Fairness ==
    /\ WF_vars(Engine)
    /\ WF_vars(LaneStep)
    /\ \A c \in Callers : WF_vars(CallerStep(c))
    /\ WF_vars(JoinAndClose) /\ WF_vars(Delete)

FairSpec == Spec /\ Fairness

-----------------------------------------------------------------------------
\* A save answered None is on disk: when a caller is told so, the file of the
\* scene that was open when the engine claimed the save holds every edit and the
\* camera pose the engine had then -- after any number of earlier failed saves,
\* lost results and restores in flight (editor_runtime.cpp:1594-1610), with one
\* owner thread or with several of which none opens scenes.  Only of what an
\* open left adrift, and no snapshot has taken since, it says nothing.
SaveAnswerIsHonest ==
    [][\A c \in Callers :
         saveCall[c].kind = "running" /\ saveCall'[c] = Save!Answer("None") =>
           LET file == durable'[promised.scene]
           IN  /\ "scene" \in adrift \/ promised.edits \subseteq file.edits
               /\ "camera" \in adrift \/ promised.pose = file.pose]_vars

\* Stopping persists: when the teardown save of a runtime that left its frame
\* loop reports None, all the engine had is on disk -- through interactive saves
\* that were queued, running or failed when the loop ended; for the same owners.
\* What an open left adrift was never edited, and does not persist by itself.
TeardownPersists ==
    saved = "None" =>
        /\ "scene" \in adrift \/ doc.edits \subseteq durable[doc.scene].edits
        /\ "camera" \in adrift \/ doc.pose = durable[doc.scene].pose

\* commit_scene_save is a read-modify-write without a lock: at most one of the
\* lane's threads and the engine thread is ever inside it.
OneWriter ==
    LET inside == {n \in DOMAIN job : job[n].at \in {"read", "stage", "rename", "through"}}
    IN  \A m, n \in inside : m = n

\* delete is the last touch: no caller is inside a verb, the engine thread is
\* gone and no closure that captured the control is left on the lane.
NothingTouchesTheDeleted ==
    stopper = "deleted" =>
        /\ eng = "exited"
        /\ \A c \in Callers : phase[c] = "out"
        /\ \A n \in Claims : job[n].at = "none"

\* Every blocking call returns while the runtime lives or dies.
CallsReturn == \A c \in Callers : phase[c] # "out" ~> phase[c] = "out"

\* wz_host_runtime_stop() returns.
StopReturns == stopper = "join" ~> stopper = "deleted"

\* A power loss at any moment, the middle of a save included, leaves every scene
\* file a whole document with all that was answered None, for the same owners
\* ("one whole document or the other", scene_json_export.cpp:2736-2750).  What
\* is answered None is lost only to a later open of the scene that is answered
\* FALSE, after a failed bind, and shows a document without it.
SavedStaysSaved ==
    /\ \A s \in Scenes : durable[s].scene = s
    /\ \A k \in kept : k[2] \in disk[k[1]].edits \cap durable[k[1]].edits

\* "Persist the live scene edits to disk ... so transform / name / visibility
\* edits survive a relaunch": an edit posted before a save that is answered None.
PostedEditIsSaved ==
    [][\A c \in Callers :
         saveCall[c].kind = "running" /\ saveCall'[c] = Save!Answer("None") =>
           \A p \in posted[c] : p[1] = promised.scene => p[2] \in disk'[p[1]].edits]_vars
====
