---------------------------- MODULE AssetStorage ----------------------------
(***************************************************************************)
(* The Sia objects of one video asset: who pins them, which database row   *)
(* leads to each, and who unpins them.                                     *)
(*                                                                         *)
(* The executions of the upload stage record an object in pending_objects  *)
(* just before they pin it; the finalize job of the run turns the objects  *)
(* into artifacts of a ready asset; whatever is no longer wanted is marked *)
(* for release and unpinned by the execution that gave up, by finalize, by *)
(* the sweep of the deletion GC, or by the deletion of the asset. The      *)
(* database and the indexer share no transaction, so every call to one of  *)
(* them is a step of its own, and any of them may fail.                    *)
(*                                                                         *)
(* A batch of the upload is one object here; the fate of each object of a  *)
(* real batch (recorded, pinned, lost reply) is the fate of this one.      *)
(***************************************************************************)
EXTENDS Naturals

CONSTANTS
    Exec,        \* executions of the upload stage, of every run together
    Batches,     \* uploads of one execution that depend on each other
    Attempts,    \* tries of the first batch within one execution
    MaxRetries,  \* bound: how often a failed asset is retried
    Faults,      \* whether the database, Redis or the indexer may fail a call
    StaleRuns    \* whether the queue may give up a run that still does something

ASSUME StorageAssumption ==
    /\ Batches \in Nat \ {0}
    /\ Attempts \in Nat \ {0}
    /\ MaxRetries \in Nat
    /\ Faults \in BOOLEAN
    /\ StaleRuns \in BOOLEAN
    /\ Exec \cap {"finalize", "gc", "delete"} = {}

VARIABLES
    \* the database
    status,     \* of the asset; "deleted" is soft-deleted, "removed" has no row
    artifacts,  \* the objects its artifact rows name
    pending,    \* the state of each object's pending_objects row
    \* the indexer
    pinned,
    early,      \* history: objects unpinned, as not found, before their pin
    \* the queues
    run,        \* the runs started so far, the retries included
    waiting,    \* runs whose upload job waits for an execution
    handOff,    \* per run: its finalize job, "none", "queued" or "done"
    handed,     \* per run: the objects that job carries
    \* the executions of the upload stage
    phase,
    runOf,
    stalled,    \* the job was given to another execution while this one ran
    batch,
    try,
    recorded,   \* every object handed to the ledger
    kept,       \* the objects of the batches that succeeded
    \* releases: an execution's, finalize's, the sweep's, and the deletion
    call,       \* the call a release makes next, "none" when it is over
    todo,       \* the objects it has yet to go through
    current,    \* the object it unpinned and has yet to forget, at most one
    finalizing, \* the run the finalize worker is at, 0 for none
    deletion    \* "idle", "running", or "missed": it could not unpin some object

dbVars == <<status, artifacts, pending>>
siaVars == <<pinned, early>>
queueVars == <<run, waiting, handOff, handed>>
execVars == <<phase, runOf, stalled, batch, try, recorded, kept>>
releaseVars == <<call, todo, current>>
vars == <<dbVars, siaVars, queueVars, execVars, releaseVars, finalizing, deletion>>

Runs == 1 .. MaxRetries + 1
Object == Exec \X (1 .. Batches) \X (1 .. Attempts)
Actor == Exec \cup {"finalize", "gc", "delete"}

Phases == {"new", "check", "upload", "recorded", "handoff", "retry", "stop", "fail", "done"}
Calls == {"none", "mark", "list", "listAll", "unpin", "forget"}

TypeOK ==
    /\ status \in {"processing", "ready", "failed", "deleted", "removed"}
    /\ artifacts \subseteq Object
    /\ pending \in [Object -> {"none", "uploading", "release"}]
    /\ pinned \subseteq Object
    /\ early \subseteq Object
    /\ run \in Runs
    /\ waiting \subseteq Runs
    /\ handOff \in [Runs -> {"none", "queued", "done"}]
    /\ handed \in [Runs -> SUBSET Object]
    /\ phase \in [Exec -> Phases]
    /\ runOf \in [Exec -> Runs]
    /\ stalled \in [Exec -> BOOLEAN]
    /\ batch \in [Exec -> 1 .. Batches]
    /\ try \in [Exec -> 1 .. Attempts]
    /\ recorded \in [Exec -> SUBSET Object]
    /\ kept \in [Exec -> SUBSET Object]
    /\ call \in [Actor -> Calls]
    /\ todo \in [Actor -> SUBSET Object]
    /\ current \in [Actor -> SUBSET Object]
    /\ finalizing \in Runs \cup {0}
    /\ deletion \in {"idle", "running", "missed"}

\* The transcode has finished and the upload job of the first run is queued.
Init ==
    /\ status = "processing"
    /\ artifacts = {}
    /\ pending = [o \in Object |-> "none"]
    /\ pinned = {} /\ early = {}
    /\ run = 1
    /\ waiting = {1}
    /\ handOff = [r \in Runs |-> "none"]
    /\ handed = [r \in Runs |-> {}]
    /\ phase = [e \in Exec |-> "new"]
    /\ runOf = [e \in Exec |-> 1]
    /\ stalled = [e \in Exec |-> FALSE]
    /\ batch = [e \in Exec |-> 1]
    /\ try = [e \in Exec |-> 1]
    /\ recorded = [e \in Exec |-> {}]
    /\ kept = [e \in Exec |-> {}]
    /\ call = [a \in Actor |-> "none"]
    /\ todo = [a \in Actor |-> {}]
    /\ current = [a \in Actor |-> {}]
    /\ finalizing = 0
    /\ deletion = "idle"

----------------------------------------------------------------------------
(***************************************************************************)
(* Mutants: slips of the code that the properties must notice. No action   *)
(* of the specification uses them.                                         *)
(***************************************************************************)

\* A sweep that does not ask whether the asset still processes.
AbandonedAnyTime(o) == pending[o] = "uploading"

\* A release that lists only the objects of assets that still exist.
ReleasableWhileKept(o) == pending[o] = "release" /\ status # "removed"

\* A failed unpin taken for an unpin.
UnpinFailsUnnoticed(a, o) ==
    /\ Faults
    /\ call[a] = "unpin"
    /\ o \in todo[a]
    /\ call' = [call EXCEPT ![a] = "forget"]
    /\ todo' = [todo EXCEPT ![a] = @ \ {o}]
    /\ current' = [current EXCEPT ![a] = {o}]
    /\ UNCHANGED <<dbVars, siaVars, queueVars, execVars, finalizing, deletion>>

\* A run given up without a look at the asset's status.
FailAnyAsset == status' = "failed"

\* A finalize that runs again and takes its own objects for a stale run's.
NeverReady(r) == FALSE

\* A deletion that removes the asset though an object is still pinned.
EndDeletionAnyway ==
    /\ deletion # "idle"
    /\ call["delete"] = "none"
    /\ status' = "removed" /\ artifacts' = {}
    /\ deletion' = "idle"
    /\ UNCHANGED <<pending, siaVars, queueVars, execVars, releaseVars, finalizing>>

----------------------------------------------------------------------------
(***************************************************************************)
(* Releasing objects (releaseObjects, unpinReleasedObjects, unpinAndForget *)
(* and the loop of runAssetDeletion). The actor that releases waits for    *)
(* the calls one after the other.                                          *)
(***************************************************************************)

\* The release of actor a goes on with call c over the objects S.
Continue(a, c, S) ==
    /\ call' = [call EXCEPT ![a] = c]
    /\ todo' = [todo EXCEPT ![a] = S]

Begin(a, c, S) == Continue(a, c, S) /\ UNCHANGED current

\* It goes through the objects S and is over when none is left.
Loop(a, S) == Continue(a, IF S = {} THEN "none" ELSE "unpin", S)

\* The actor dies or throws in its release.
Drop(a) ==
    /\ Continue(a, "none", {})
    /\ current' = [current EXCEPT ![a] = {}]

\* Rows are marked; an object without a row is left alone.
MarkRows(S) ==
    pending' = [o \in Object |->
        IF o \in S /\ pending[o] # "none" THEN "release" ELSE pending[o]]

\* markObjectsForRelease, before the objects are listed.
Mark(a) ==
    /\ a \in Exec \cup {"finalize"}
    /\ call[a] = "mark"
    /\ MarkRows(todo[a])
    /\ Begin(a, "list", todo[a])
    /\ UNCHANGED <<status, artifacts, siaVars, queueVars, execVars, finalizing, deletion>>

\* No run can promote the object any more, as releaseAbandonedObjects has it.
Abandoned(o) == pending[o] = "uploading" /\ status # "processing"

\* releaseAbandonedObjects, the first query of a sweep. The schedule starts one
\* at any time; only sweeps that find a row matter.
MarkAbandoned ==
    /\ call["gc"] = "none"
    /\ \E o \in Object : pending[o] # "none"
    /\ MarkRows({o \in Object : Abandoned(o)})
    /\ Begin("gc", "listAll", {})
    /\ UNCHANGED <<status, artifacts, siaVars, queueVars, execVars, finalizing, deletion>>

\* An object that an artifact names is left out of the list.
Releasable(o) == pending[o] = "release" /\ o \notin artifacts

\* listReleasedObjects, of the objects given or of the whole asset.
List(a) ==
    /\ call[a] \in {"list", "listAll"}
    /\ Loop(a, {o \in IF call[a] = "list" THEN todo[a] ELSE Object : Releasable(o)})
    /\ UNCHANGED <<current, dbVars, siaVars, queueVars, execVars, finalizing, deletion>>

\* The database fails the mark or the list. releaseObjects unpins what it was
\* given all the same; unpinReleasedObjects, which was given none, throws.
ReleaseFails(a) ==
    /\ Faults
    /\ call[a] \in {"mark", "list", "listAll"}
    /\ Loop(a, todo[a])
    /\ UNCHANGED <<current, dbVars, siaVars, queueVars, execVars, finalizing, deletion>>

\* An execution recorded the object and has yet to pin it.
AboutToPin(o) ==
    \E e \in Exec : phase[e] = "recorded" /\ o = <<e, batch[e], try[e]>>

\* deleteObject: an object the indexer does not have counts as unpinned.
Unpin(a, o) ==
    /\ call[a] = "unpin"
    /\ o \in todo[a]
    /\ pinned' = pinned \ {o}
    /\ early' = IF AboutToPin(o) THEN early \cup {o} ELSE early
    /\ Continue(a, "forget", todo[a] \ {o})
    /\ current' = [current EXCEPT ![a] = {o}]
    /\ UNCHANGED <<dbVars, queueVars, execVars, finalizing, deletion>>

\* The object stays for a later sweep, or for another attempt of the deletion.
UnpinFails(a, o) ==
    /\ Faults
    /\ call[a] = "unpin"
    /\ o \in todo[a]
    /\ Loop(a, todo[a] \ {o})
    /\ deletion' = IF a = "delete" THEN "missed" ELSE deletion
    /\ UNCHANGED <<current, dbVars, siaVars, queueVars, execVars, finalizing>>

\* forgetPendingObjects; a deletion drops the artifact row as well
\* (markObjectsUnpinned).
Forget(a) ==
    /\ call[a] = "forget"
    /\ pending' = [o \in Object |-> IF o \in current[a] THEN "none" ELSE pending[o]]
    /\ artifacts' = IF a = "delete" THEN artifacts \ current[a] ELSE artifacts
    /\ Loop(a, todo[a])
    /\ current' = [current EXCEPT ![a] = {}]
    /\ UNCHANGED <<status, siaVars, queueVars, execVars, finalizing, deletion>>

\* A row that could not be removed is only logged, except that the deletion
\* throws and is attempted again.
ForgetFails(a) ==
    /\ Faults
    /\ call[a] = "forget"
    /\ IF a = "delete"
       THEN Drop(a) /\ deletion' = "idle"
       ELSE /\ Loop(a, todo[a])
            /\ current' = [current EXCEPT ![a] = {}]
            /\ UNCHANGED deletion
    /\ UNCHANGED <<dbVars, siaVars, queueVars, execVars, finalizing>>

----------------------------------------------------------------------------
(***************************************************************************)
(* The upload stage (uploadStage, uploadSegments).                         *)
(***************************************************************************)
Running(e) == phase[e] \notin {"new", "done"}

\* The object of the batch the execution is at.
Uploaded(e) == <<e, batch[e], try[e]>>

\* The stage starts when the asset processes and the run has no finalize job.
StartUpload(e, r) ==
    /\ phase[e] = "new"
    /\ r \in waiting
    /\ status = "processing"
    /\ handOff[r] = "none"
    /\ waiting' = waiting \ {r}
    /\ runOf' = [runOf EXCEPT ![e] = r]
    /\ phase' = [phase EXCEPT ![e] = "check"]
    /\ UNCHANGED <<dbVars, siaVars, run, handOff, handed, stalled, batch, try,
                   recorded, kept, releaseVars, finalizing, deletion>>

\* Otherwise the job completes at once.
SkipUpload(r) ==
    /\ r \in waiting
    /\ status # "processing" \/ handOff[r] # "none"
    /\ waiting' = waiting \ {r}
    /\ UNCHANGED <<dbVars, siaVars, run, handOff, handed, execVars, releaseVars,
                   finalizing, deletion>>

\* The checkpoint before a batch.
Checkpoint(e) ==
    /\ phase[e] = "check"
    /\ status = "processing"
    /\ phase' = [phase EXCEPT ![e] = "upload"]
    /\ UNCHANGED <<dbVars, siaVars, queueVars, runOf, stalled, batch, try, recorded,
                   kept, releaseVars, finalizing, deletion>>

\* The release an execution ends or goes on after: nothing was recorded, or
\* the recorded objects S are marked, listed and unpinned.
GiveBack(e, S, next) ==
    /\ phase' = [phase EXCEPT ![e] = next]
    /\ Begin(e, IF S = {} THEN "none" ELSE "mark", S)

\* The asset left processing, or the lease was lost to another execution.
Stop(e) ==
    /\ phase[e] = "check"
    /\ status # "processing" \/ stalled[e]
    /\ GiveBack(e, recorded[e], "stop")
    /\ UNCHANGED <<dbVars, siaVars, queueVars, runOf, stalled, batch, try, recorded,
                   kept, finalizing, deletion>>

\* The ledger's record, just before the pin.
Record(e) ==
    /\ phase[e] = "upload"
    /\ pending' = [pending EXCEPT ![Uploaded(e)] = IF @ = "none" THEN "uploading" ELSE @]
    /\ recorded' = [recorded EXCEPT ![e] = @ \cup {Uploaded(e)}]
    /\ phase' = [phase EXCEPT ![e] = "recorded"]
    /\ UNCHANGED <<status, artifacts, siaVars, queueVars, runOf, stalled, batch, try,
                   kept, releaseVars, finalizing, deletion>>

LastBatch(e) == batch[e] = Batches

\* The pin; the next batch starts with its checkpoint, the last is followed by
\* the hand-off.
Pin(e) ==
    /\ phase[e] = "recorded"
    /\ pinned' = pinned \cup {Uploaded(e)}
    /\ kept' = [kept EXCEPT ![e] = @ \cup {Uploaded(e)}]
    /\ IF LastBatch(e)
       THEN /\ phase' = [phase EXCEPT ![e] = "handoff"]
            /\ UNCHANGED batch
       ELSE /\ phase' = [phase EXCEPT ![e] = "check"]
            /\ batch' = [batch EXCEPT ![e] = @ + 1]
    /\ UNCHANGED <<dbVars, early, queueVars, runOf, stalled, try, recorded,
                   releaseVars, finalizing, deletion>>

\* A failed batch: the first is tried again once its own object is released,
\* any other ends the stage once all are.
FailBatch(e, attempted) ==
    IF batch[e] = 1 /\ try[e] < Attempts
    THEN GiveBack(e, attempted, "retry")
    ELSE GiveBack(e, recorded[e], "fail")

\* The upload stalls, the prune gate refuses the pin, or the ledger's insert
\* fails, which may have written the row all the same.
UploadFails(e) ==
    /\ Faults
    /\ phase[e] = "upload"
    /\ \/ UNCHANGED pending
       \/ pending' = [pending EXCEPT ![Uploaded(e)] = "uploading"]
    /\ FailBatch(e, {})
    /\ UNCHANGED <<status, artifacts, siaVars, queueVars, runOf, stalled, batch, try,
                   recorded, kept, finalizing, deletion>>

\* The pin fails, or only its answer is lost.
PinFails(e) ==
    /\ Faults
    /\ phase[e] = "recorded"
    /\ pinned' \in {pinned, pinned \cup {Uploaded(e)}}
    /\ FailBatch(e, {Uploaded(e)})
    /\ UNCHANGED <<dbVars, early, queueVars, runOf, stalled, batch, try, recorded,
                   kept, finalizing, deletion>>

\* The execution ends, and its local state with it.
End(e) ==
    /\ phase' = [phase EXCEPT ![e] = "done"]
    /\ runOf' = [runOf EXCEPT ![e] = 1]
    /\ stalled' = [stalled EXCEPT ![e] = FALSE]
    /\ batch' = [batch EXCEPT ![e] = 1]
    /\ try' = [try EXCEPT ![e] = 1]
    /\ recorded' = [recorded EXCEPT ![e] = {}]
    /\ kept' = [kept EXCEPT ![e] = {}]

\* The job goes back to the queue, unless another execution has it.
Requeue(e) == waiting' = IF stalled[e] THEN waiting ELSE waiting \cup {runOf[e]}

\* The first batch is tried again, from its checkpoint.
TryAgain(e) ==
    /\ phase[e] = "retry"
    /\ call[e] = "none"
    /\ phase' = [phase EXCEPT ![e] = "check"]
    /\ try' = [try EXCEPT ![e] = @ + 1]
    /\ UNCHANGED <<dbVars, siaVars, queueVars, runOf, stalled, batch, recorded, kept,
                   releaseVars, finalizing, deletion>>

\* The job of a stopped execution completes.
EndStopped(e) ==
    /\ phase[e] = "stop"
    /\ call[e] = "none"
    /\ End(e)
    /\ UNCHANGED <<dbVars, siaVars, queueVars, releaseVars, finalizing, deletion>>

\* The stage throws.
EndFailed(e) ==
    /\ phase[e] = "fail"
    /\ call[e] = "none"
    /\ End(e)
    /\ Requeue(e)
    /\ UNCHANGED <<dbVars, siaVars, run, handOff, handed, releaseVars, finalizing,
                   deletion>>

\* The finalize job is added under a fixed id, so the first one of a run counts.
AddFinalize(e) ==
    LET r == runOf[e] IN
    IF handOff[r] = "none"
    THEN /\ handOff' = [handOff EXCEPT ![r] = "queued"]
         /\ handed' = [handed EXCEPT ![r] = kept[e]]
    ELSE UNCHANGED <<handOff, handed>>

HandOff(e) ==
    /\ phase[e] = "handoff"
    /\ AddFinalize(e)
    /\ End(e)
    /\ UNCHANGED <<dbVars, siaVars, run, waiting, releaseVars, finalizing, deletion>>

\* The add fails, or only its answer is lost; nothing is released.
HandOffFails(e) ==
    /\ Faults
    /\ phase[e] = "handoff"
    /\ AddFinalize(e) \/ UNCHANGED <<handOff, handed>>
    /\ End(e)
    /\ Requeue(e)
    /\ UNCHANGED <<dbVars, siaVars, run, releaseVars, finalizing, deletion>>

\* The process of the execution dies; BullMQ finds its job stalled.
CrashUpload(e) ==
    /\ Running(e)
    /\ End(e)
    /\ Drop(e)
    /\ Requeue(e)
    /\ UNCHANGED <<dbVars, siaVars, run, handOff, handed, finalizing, deletion>>

\* The execution freezes past its lock and its lease, and its job is given out
\* again; it goes on when it wakes.
Stall(e) ==
    /\ Running(e)
    /\ ~stalled[e]
    /\ stalled' = [stalled EXCEPT ![e] = TRUE]
    /\ waiting' = waiting \cup {runOf[e]}
    /\ UNCHANGED <<dbVars, siaVars, run, handOff, handed, phase, runOf, batch, try,
                   recorded, kept, releaseVars, finalizing, deletion>>

----------------------------------------------------------------------------
(***************************************************************************)
(* Giving up, retrying and finalizing a run.                               *)
(***************************************************************************)

\* Nothing of the run is left that could still pin or finalize.
Quiet(r) ==
    /\ r = run
    /\ handOff[r] # "queued"
    /\ \A e \in Exec : Running(e) => runOf[e] # r

\* failProcessingAsset.
FailAsset == status' = IF status = "processing" THEN "failed" ELSE status

\* The upload job fails for good: its attempts are used up, or it stalled more
\* often than BullMQ allows.
GiveUp(r) ==
    /\ r \in waiting
    /\ Quiet(r) \/ StaleRuns
    /\ waiting' = waiting \ {r}
    /\ FailAsset
    /\ UNCHANGED <<artifacts, pending, siaVars, run, handOff, handed, execVars,
                   releaseVars, finalizing, deletion>>

\* A failed asset is retried as a new run that resumes at the upload.
RetryAsset ==
    /\ status = "failed"
    /\ run <= MaxRetries
    /\ status' = "processing"
    /\ run' = run + 1
    /\ waiting' = waiting \cup {run + 1}
    /\ UNCHANGED <<artifacts, pending, siaVars, handOff, handed, execVars, releaseVars,
                   finalizing, deletion>>

\* What the transaction of finalizeAssetStorage makes of the rows: those of the
\* run's objects go, and every other object of the asset is to be released.
RowsAfter(r) ==
    [o \in Object |->
        IF o \in handed[r] THEN "none"
        ELSE IF o \in artifacts \/ pending[o] # "none" THEN "release"
        ELSE "none"]

\* It makes a processing asset ready, whichever run that processes.
MakeReady(r) ==
    /\ status = "processing"
    /\ status' = "ready"
    /\ artifacts' = handed[r]
    /\ pending' = RowsAfter(r)
    /\ Begin("finalize", "listAll", {})

\* The same transaction ran before.
AlreadyReady(r) == status = "ready" /\ artifacts = handed[r]

\* It writes nothing when it ran before, or when the asset is deleted, failed,
\* or ready with other objects; then the run's objects are released.
LeaveAsset(r) ==
    /\ status # "processing"
    /\ UNCHANGED dbVars
    /\ IF AlreadyReady(r)
       THEN Begin("finalize", "listAll", {})
       ELSE Begin("finalize", "mark", handed[r])

Finalize(r) ==
    /\ finalizing = 0
    /\ handOff[r] = "queued"
    /\ finalizing' = r
    /\ MakeReady(r) \/ LeaveAsset(r)
    /\ UNCHANGED <<siaVars, queueVars, execVars, deletion>>

\* The job completes; a release the database failed does not fail it.
EndFinalize ==
    /\ finalizing # 0
    /\ call["finalize"] = "none"
    /\ handOff' = [handOff EXCEPT ![finalizing] = "done"]
    /\ finalizing' = 0
    /\ UNCHANGED <<dbVars, siaVars, run, waiting, handed, execVars, releaseVars,
                   deletion>>

\* The worker dies after the transaction; the job runs again.
CrashFinalize ==
    /\ finalizing # 0
    /\ finalizing' = 0
    /\ Drop("finalize")
    /\ UNCHANGED <<dbVars, siaVars, queueVars, execVars, deletion>>

\* The transaction keeps failing until the job's attempts are used up.
GiveUpFinalize(r) ==
    /\ Faults
    /\ handOff[r] = "queued"
    /\ finalizing # r
    /\ handOff' = [handOff EXCEPT ![r] = "done"]
    /\ FailAsset
    /\ UNCHANGED <<artifacts, pending, siaVars, run, waiting, handed, execVars,
                   releaseVars, finalizing, deletion>>

----------------------------------------------------------------------------
(***************************************************************************)
(* Deletion and the sweep of the deletion GC.                              *)
(***************************************************************************)
SoftDelete ==
    /\ status \in {"processing", "ready", "failed"}
    /\ status' = "deleted"
    /\ UNCHANGED <<artifacts, pending, siaVars, queueVars, execVars, releaseVars,
                   finalizing, deletion>>

\* An attempt of the delete job collects the asset's objects afresh: its
\* artifacts and its pending rows.
CollectObjects ==
    /\ status = "deleted"
    /\ deletion = "idle"
    /\ deletion' = "running"
    /\ Loop("delete", artifacts \cup {o \in Object : pending[o] # "none"})
    /\ UNCHANGED <<current, dbVars, siaVars, queueVars, execVars, finalizing>>

\* The asset's row goes, with its artifact rows, once every object was
\* unpinned; otherwise the job throws.
EndDeletion ==
    /\ deletion # "idle"
    /\ call["delete"] = "none"
    /\ IF deletion = "running"
       THEN status' = "removed" /\ artifacts' = {}
       ELSE UNCHANGED <<status, artifacts>>
    /\ deletion' = "idle"
    /\ UNCHANGED <<pending, siaVars, queueVars, execVars, releaseVars, finalizing>>

\* The process of the deletion worker dies; the job is attempted again.
CrashDeletion ==
    /\ deletion # "idle"
    /\ deletion' = "idle"
    /\ Drop("delete")
    /\ UNCHANGED <<dbVars, siaVars, queueVars, execVars, finalizing>>

CrashSweep ==
    /\ call["gc"] # "none"
    /\ Drop("gc")
    /\ UNCHANGED <<dbVars, siaVars, queueVars, execVars, finalizing, deletion>>

----------------------------------------------------------------------------
ReleaseStep(a) ==
    \/ Mark(a) \/ List(a) \/ ReleaseFails(a) \/ Forget(a) \/ ForgetFails(a)
    \/ \E o \in Object : Unpin(a, o) \/ UnpinFails(a, o)

UploadProgress(e) ==
    \/ Checkpoint(e) \/ Stop(e) \/ Record(e) \/ Pin(e) \/ UploadFails(e)
    \/ PinFails(e) \/ TryAgain(e) \/ EndStopped(e) \/ EndFailed(e) \/ HandOff(e)
    \/ HandOffFails(e)

UploadStep(e) ==
    \/ \E r \in Runs : StartUpload(e, r)
    \/ UploadProgress(e) \/ CrashUpload(e) \/ Stall(e)

RunStep(r) == SkipUpload(r) \/ GiveUp(r) \/ Finalize(r) \/ GiveUpFinalize(r)

Next ==
    \/ \E e \in Exec : UploadStep(e)
    \/ \E r \in Runs : RunStep(r)
    \/ RetryAsset \/ EndFinalize \/ CrashFinalize
    \/ SoftDelete \/ CollectObjects \/ EndDeletion \/ CrashDeletion
    \/ MarkAbandoned \/ CrashSweep
    \/ \E a \in Actor : ReleaseStep(a)

Spec == Init /\ [][Next]_vars

\* The workers take their steps, and the indexer and the database answer again
\* after they failed: a sweep or a deletion that is repeated gets through, and
\* is not killed for ever.
Fairness ==
    /\ \A e \in Exec : WF_vars(UploadProgress(e))
    /\ \A a \in Actor : WF_vars(Mark(a) \/ List(a)) /\ WF_vars(ReleaseStep(a))
    /\ \A o \in Object : SF_vars(Unpin("gc", o)) /\ SF_vars(Unpin("delete", o))
    /\ SF_vars(Forget("gc")) /\ SF_vars(Forget("delete"))
    /\ WF_vars(EndFinalize)
    /\ WF_vars(CollectObjects) /\ SF_vars(EndDeletion)
    /\ WF_vars(MarkAbandoned) /\ SF_vars(List("gc"))

FairSpec == Spec /\ Fairness

----------------------------------------------------------------------------
(***************************************************************************)
(* Properties.                                                             *)
(***************************************************************************)

\* Every object of a ready asset is pinned, whatever earlier attempts, other
\* executions, the sweep and finalize release (listReleasedObjects: "unpinning
\* it would break a live asset"). It needs a queue that does not give up a run
\* that still does something.
ReadyIsPinned == status = "ready" => artifacts \subseteq pinned

\* Every pinned object is named by a pending row or an artifact row, except one
\* that a release unpinned, as not found, between its record and its pin.
PinnedIsAccounted ==
    \A o \in pinned : pending[o] # "none" \/ o \in artifacts \/ o \in early

\* The comment over recordUploadingObjects, as it stands: "no pinned object is
\* ever left without a row that leads to it".
NoOrphan == \A o \in pinned : pending[o] # "none" \/ o \in artifacts

\* A ready asset keeps its objects until it is deleted, whatever a duplicate
\* execution, a late finalize or a run that gives up does afterwards
\* (finalizeAssetStorage, failProcessingAsset).
ReadyIsKept ==
    [][status = "ready" =>
        \/ status' = "ready" /\ artifacts' = artifacts
        \/ status' = "deleted"]_vars

\* A deletion goes through in the end and leaves nothing pinned, though the
\* indexer and the database fail calls, the worker dies part way and uploads
\* that still ran go on pinning (runAssetDeletion, the redrive of the GC).
DeletedIsFreed ==
    [](status = "deleted" => <>[](status = "removed" /\ pinned \subseteq early))

\* An object marked for release is unpinned and forgotten in the end
\* (unpinReleasedObjects).
ReleasedIsForgotten ==
    \A o \in Object : pending[o] = "release" ~> pending[o] = "none"

----------------------------------------------------------------------------
(***************************************************************************)
(* The inductive invariant behind ReadyIsPinned. It holds when the queue   *)
(* gives up only runs that do nothing any more (~StaleRuns).               *)
(***************************************************************************)

\* The run of the execution may still get its finalize job from it.
MayHandOff(e) == status = "processing" /\ handOff[runOf[e]] = "none"

\* No release is about to unpin the object.
Untouched(o) == pending[o] # "release" /\ \A a \in Actor : o \notin todo[a]

\* The execution has yet to record the object.
Ahead(e, o) ==
    /\ phase[e] \in {"new", "check", "upload", "recorded", "handoff", "retry"}
    /\ o[1] = e /\ o[2] >= batch[e] /\ o[3] >= try[e]
    /\ phase[e] \in {"recorded", "handoff", "retry"} => o # Uploaded(e)

\* An execution releases after it failed or stopped, and only its own objects.
ReleasesAreOwn ==
    /\ \A a \in Actor : call[a] = "none" => todo[a] = {}
    /\ \A e \in Exec :
        /\ call[e] # "none" => phase[e] \in {"retry", "stop", "fail"}
        /\ call[e] # "listAll"
        /\ \A o \in recorded[e] \cup todo[e] : o[1] = e
        /\ phase[e] = "retry" => todo[e] \subseteq {Uploaded(e)}
        /\ phase[e] = "new" => batch[e] = 1 /\ try[e] = 1

\* What an execution keeps is of the batches behind it.
KeptIsBehind ==
    \A e \in Exec : \A o \in kept[e] :
        o[1] = e /\ (phase[e] \in {"handoff", "stop", "fail"} \/ o[2] < batch[e])

\* finalize releases once the asset left processing for good, and a deletion
\* once the asset is deleted.
LateReleases ==
    /\ finalizing # 0 => status \in {"ready", "deleted", "removed"} /\ handOff[finalizing] = "queued"
    /\ call["finalize"] # "none" => finalizing # 0
    /\ deletion # "idle" => status = "deleted"
    /\ call["delete"] # "none" => deletion # "idle"

\* A run that was given up, or followed by another, neither pins nor finalizes.
OldRunsAreOver ==
    /\ \A r \in Runs : r < run \/ (status = "failed" /\ r = run) =>
        /\ handOff[r] # "queued"
        /\ handOff[r] = "none" =>
            r \notin waiting /\ \A e \in Exec : Running(e) => runOf[e] # r
    /\ \A r \in Runs : r > run =>
        /\ handOff[r] = "none"
        /\ r \notin waiting
        /\ \A e \in Exec : Running(e) => runOf[e] # r

\* The objects that a finalize job carries, and those of the artifacts, are of
\* executions that ended, each of one run.
HandedIsDone ==
    /\ \A r \in Runs : handOff[r] = "none" => handed[r] = {}
    /\ \A r \in Runs : \A o \in handed[r] : phase[o[1]] = "done"
    /\ \A r, s \in Runs : r # s => handed[r] \cap handed[s] = {}
    /\ artifacts # {} => \E r \in Runs : artifacts \subseteq handed[r]
    /\ status = "ready" => \E r \in Runs : handOff[r] # "none" /\ artifacts = handed[r]

\* Nothing knows of an object before its record.
AheadIsFresh ==
    \A e \in Exec : \A o \in Object : Ahead(e, o) =>
        pending[o] = "none" /\ \A a \in Actor : o \notin todo[a]

\* What an execution may still hand off is left alone, and pinned once kept.
KeptIsSafe ==
    \A e \in Exec : MayHandOff(e) /\ phase[e] \in {"check", "upload", "recorded", "handoff", "retry"} =>
        /\ \A o \in kept[e] : o \in pinned /\ Untouched(o)
        /\ phase[e] = "recorded" => Untouched(Uploaded(e))

\* So is what a finalize job carries that may make the asset ready.
HandedIsSafe ==
    \A r \in Runs : status = "processing" /\ handOff[r] = "queued" =>
        \A o \in handed[r] : o \in pinned /\ Untouched(o)

\* And so are the objects of a ready asset.
ReadyIsSafe ==
    status = "ready" =>
        \A o \in artifacts : o \in pinned /\ \A a \in Actor : o \notin todo[a]

StorageInv ==
    /\ ReleasesAreOwn
    /\ KeptIsBehind
    /\ LateReleases
    /\ OldRunsAreOver
    /\ HandedIsDone
    /\ AheadIsFresh
    /\ KeptIsSafe
    /\ HandedIsSafe
    /\ ReadyIsSafe
=============================================================================
