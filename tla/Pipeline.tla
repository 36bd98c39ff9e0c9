------------------------------ MODULE Pipeline ------------------------------
(***************************************************************************)
(* The run of one video through the queues: its status, its source file,   *)
(* its run directories, and the transcode, upload and finalize jobs of     *)
(* each run, the retries included.                                         *)
(*                                                                         *)
(* The transcode stage is modelled await by await, since BullMQ may give   *)
(* its job to a second execution while the first goes on. What the upload  *)
(* does with Sia is in AssetStorage; here it reads a run directory and     *)
(* hands off.                                                              *)
(***************************************************************************)
EXTENDS Naturals, Sequences, SequencesExt

CONSTANTS
    Exec,         \* executions of the transcode stage, of every run together
    Attempts,     \* tries of a job before BullMQ gives it up
    Stalls,       \* times BullMQ gives a stalled job out again
    MaxRetries,   \* bound: how often a failed asset is retried
    MaxFaults     \* bound: how many calls fail or lose their answer, and how
                  \* many processes die, together

ASSUME PipelineAssumption ==
    /\ Attempts \in Nat \ {0}
    /\ {Stalls, MaxRetries, MaxFaults} \subseteq Nat
    /\ Exec \cap {"none", "litter", "source"} = {}

VARIABLES
    status,     \* "created" stands for uploading too; "deleted" for no row too
    run,        \* the runs started so far
    source,     \* whether the uploaded file is on disk
    writing,    \* executions writing a run directory, and "litter" if one is
                \* left without its marker
    finished,   \* those whose directory has one, in the order of the markers
    job,        \* per run: its transcode job, as [state, tries, stalls, lock]
    upload,     \* per run: its upload job, as [state, tries, dir]
    finalize,   \* per run: its finalize job, as [state, tries]
    winner,     \* the run whose objects the asset has, 0 for none
    failing,    \* runs with a job that failed for good, to be recorded
    phase,      \* of an execution of the transcode stage
    runOf,
    seen,       \* the status an execution read
    out,        \* the directory it goes on with
    retry,      \* the request to retry: "none" or what it found on disk
    claimed,    \* whether that request moved the asset
    sweeping,   \* whether a sweep is about to remove files
    faults,     \* failed calls and deaths so far
    lost        \* what happened that may leave a run without an end: the write of
                \* a "failure" or the job of a "claim" was lost, or a late "mark"
                \* took an asset that was done back to processing

diskVars == <<source, writing, finished>>
queueVars == <<job, upload, finalize>>
execVars == <<phase, runOf, seen, out>>
retryVars == <<retry, claimed>>
faultVars == <<faults, lost>>
vars == <<status, run, diskVars, queueVars, winner, failing, execVars, retryVars, sweeping,
          faultVars>>

Runs == 1 .. MaxRetries + 1
None == "none"
Litter == "litter"
Statuses == {"created", "processing", "ready", "failed", "deleted"}
Phases == {"new", "read", "look", "mark", "find", "ffmpeg", "thumbs",
           "check", "drop", "add", "compare"}
JobStates == {"none", "waiting", "active", "read", "clean", "source", "ended"}

NoJob == [state |-> "none", tries |-> 0, stalls |-> 0, lock |-> None]
NoUpload == [state |-> "none", tries |-> 0, dir |-> None]
NoFinalize == [state |-> "none", tries |-> 0]

TypeOK ==
    /\ status \in Statuses
    /\ run \in Runs
    /\ source \in BOOLEAN
    /\ writing \subseteq Exec \cup {Litter}
    /\ finished \in Seq(Exec) /\ IsInjective(finished)
    /\ job \in [Runs -> [state : JobStates, tries : 0 .. Attempts,
                         stalls : 0 .. Stalls + 1, lock : Exec \cup {None}]]
    /\ upload \in [Runs -> [state : JobStates, tries : 0 .. Attempts,
                            dir : Exec \cup {None}]]
    /\ finalize \in [Runs -> [state : JobStates, tries : 0 .. Attempts]]
    /\ winner \in Runs \cup {0}
    /\ failing \subseteq {"transcode", "upload", "finalize"} \X Runs
    /\ phase \in [Exec -> Phases]
    /\ runOf \in [Exec -> Runs]
    /\ seen \in [Exec -> Statuses]
    /\ out \in [Exec -> Exec \cup {None}]
    /\ retry \in {"none", "source"} \cup Exec
    /\ claimed \in BOOLEAN
    /\ sweeping \in BOOLEAN
    /\ faults \in 0 .. MaxFaults
    /\ lost \subseteq {"failure", "claim", "mark"}

\* The upload has completed and the first transcode job is queued.
Init ==
    /\ status = "created"
    /\ run = 1
    /\ source = TRUE
    /\ writing = {} /\ finished = <<>>
    /\ job = [r \in Runs |-> IF r = 1 THEN [NoJob EXCEPT !.state = "waiting"] ELSE NoJob]
    /\ upload = [r \in Runs |-> NoUpload]
    /\ finalize = [r \in Runs |-> NoFinalize]
    /\ winner = 0
    /\ failing = {}
    /\ phase = [e \in Exec |-> "new"]
    /\ runOf = [e \in Exec |-> 1]
    /\ seen = [e \in Exec |-> "created"]
    /\ out = [e \in Exec |-> None]
    /\ retry = "none" /\ claimed = FALSE
    /\ sweeping = FALSE
    /\ faults = 0 /\ lost = {}
----------------------------------------------------------------------------
(***************************************************************************)
(* The disk.                                                               *)
(***************************************************************************)
HasDir(d) == d \in ToSet(finished)

\* The directories with a marker, without directory d.
FinishedBut(d) ==
    IF HasDir(d) THEN RemoveAt(finished, CHOOSE i \in DOMAIN finished : finished[i] = d)
    ELSE finished

\* removeOutput, of a directory that has its marker.
RemoveFinished(d) == finished' = FinishedBut(d) /\ UNCHANGED writing

\* removeAssetOutput: every run directory of the asset.
RemoveOutput == writing' = {} /\ finished' = <<>>

\* findCompletedOutput: the newest directory with a marker.
Completed == IF finished = <<>> THEN None ELSE Last(finished)

----------------------------------------------------------------------------
\* A call fails or loses its answer, or a process dies.
Fault == faults < MaxFaults /\ faults' = faults + 1
NoFault == UNCHANGED faults

(***************************************************************************)
(* The transcode stage and its job.                                        *)
(***************************************************************************)
Running(e) == phase[e] # "new"
Holds(e) == job[runOf[e]].lock = e
Goto(e, p) == phase' = [phase EXCEPT ![e] = p]

\* The execution is over. Its identity is free again.
End(e) ==
    /\ Goto(e, "new")
    /\ runOf' = [runOf EXCEPT ![e] = 1]
    /\ seen' = [seen EXCEPT ![e] = "created"]
    /\ out' = [out EXCEPT ![e] = None]

\* What it was writing stays behind, without a marker.
LeaveDir(e) ==
    /\ writing' = IF e \in writing THEN (writing \ {e}) \cup {Litter} ELSE writing
    /\ UNCHANGED finished

\* The job of the execution completes, if it still has it.
JobEnds(e) ==
    job' = IF Holds(e)
           THEN [job EXCEPT ![runOf[e]].state = "ended", ![runOf[e]].lock = None]
           ELSE job

Complete(e) == End(e) /\ JobEnds(e) /\ UNCHANGED failing

\* The job of run r is tried again, or fails for good.
TryAgain(r, again, count) ==
    /\ job' = [job EXCEPT ![r].state = IF again THEN "waiting" ELSE "ended",
                          ![r][count] = @ + 1,
                          ![r].lock = None]
    /\ failing' = IF again THEN failing ELSE failing \cup {<<"transcode", r>>}

\* The stage throws. BullMQ ignores an execution that lost its job.
Throw(e, again) ==
    /\ End(e)
    /\ IF Holds(e) THEN TryAgain(runOf[e], again, "tries") ELSE UNCHANGED <<job, failing>>

TriesLeft(e) == job[runOf[e]].tries + 1 < Attempts

\* A stalled job that is given out once more than BullMQ allows.
LoseJobLate(e) == TryAgain(runOf[e], job[runOf[e]].stalls <= Stalls, "stalls")

\* The lock of the job runs out: it is given out again, up to a limit.
LoseJob(e) == TryAgain(runOf[e], job[runOf[e]].stalls < Stalls, "stalls")

Unused(e) ==
    /\ phase[e] = "new"
    /\ e \notin writing /\ ~HasDir(e) /\ retry # e
    /\ \A x \in Exec : out[x] # e
    /\ \A r \in Runs : upload[r].state # "ended" => upload[r].dir # e

Start(e, r) ==
    /\ Unused(e)
    /\ job[r].state = "waiting"
    /\ job' = [job EXCEPT ![r].state = "active", ![r].lock = e]
    /\ Goto(e, "read")
    /\ runOf' = [runOf EXCEPT ![e] = r]
    /\ UNCHANGED <<status, run, diskVars, upload, finalize, winner, failing, seen, out,
                   retryVars, sweeping, faultVars>>

\* The first look at the asset: one that is gone, ready or failed is skipped.
Read(e) ==
    /\ phase[e] = "read"
    /\ \/ /\ status \in {"created", "processing"}
          /\ seen' = [seen EXCEPT ![e] = status]
          /\ Goto(e, "look")
          /\ UNCHANGED <<writing, finished, job, failing, runOf, out>>
       \/ /\ status \in {"ready", "failed"}
          /\ Complete(e)
          /\ UNCHANGED <<writing, finished>>
       \/ /\ status = "deleted"
          /\ RemoveOutput
          /\ Complete(e)
    /\ UNCHANGED <<status, run, source, upload, finalize, winner, retryVars, sweeping, faultVars>>

\* Another execution handed off already, or this one goes on.
Look(e) ==
    /\ phase[e] = "look"
    /\ IF upload[runOf[e]].state # "none"
       THEN Complete(e)
       ELSE Goto(e, "mark") /\ UNCHANGED <<job, failing, runOf, seen, out>>
    /\ UNCHANGED <<status, run, diskVars, upload, finalize, winner, retryVars, sweeping, faultVars>>

\* A row that is deleted by now shows no status to anybody.
SetStatus(s) == status' = IF status = "deleted" THEN status ELSE s

\* The asset is marked processing, unless it was when it was read.
Mark(e) ==
    /\ phase[e] = "mark"
    /\ IF seen[e] = "processing" THEN UNCHANGED status ELSE SetStatus("processing")
    /\ lost' = IF seen[e] # "processing" /\ status \in {"ready", "failed"}
               THEN lost \cup {"mark"} ELSE lost
    /\ Goto(e, "find")
    /\ UNCHANGED <<run, diskVars, queueVars, winner, failing, runOf, seen, out, retryVars,
                   sweeping, faults>>

\* A finished transcode is used again; otherwise FFmpeg starts in a directory
\* of this execution, and fails at once when the source is gone.
Find(e) ==
    /\ phase[e] = "find"
    /\ \/ /\ finished # <<>>
          /\ out' = [out EXCEPT ![e] = Completed]
          /\ Goto(e, "check")
          /\ UNCHANGED <<writing, job, failing, runOf, seen>>
       \/ /\ finished = <<>> /\ source
          /\ writing' = writing \cup {e}
          /\ out' = [out EXCEPT ![e] = e]
          /\ Goto(e, "ffmpeg")
          /\ UNCHANGED <<job, failing, runOf, seen>>
       \/ /\ finished = <<>> /\ ~source
          /\ writing' = writing \cup {Litter}
          /\ Throw(e, TriesLeft(e))
    /\ UNCHANGED <<status, run, source, finished, upload, finalize, winner, retryVars,
                   sweeping, faultVars>>

\* FFmpeg is done. Is the asset still processing, before the thumbnails?
Probe(e) ==
    /\ phase[e] = "ffmpeg"
    /\ e \in writing
    /\ Goto(e, IF status = "processing" THEN "thumbs" ELSE "drop")
    /\ UNCHANGED <<status, run, diskVars, queueVars, winner, failing, runOf, seen, out,
                   retryVars, sweeping, faultVars>>

\* writeCompletionMarker.
WriteMarker(e) ==
    /\ phase[e] = "thumbs"
    /\ e \in writing
    /\ writing' = writing \ {e}
    /\ finished' = Append(finished, e)
    /\ Goto(e, "check")
    /\ UNCHANGED <<status, run, source, queueVars, winner, failing, runOf, seen, out,
                   retryVars, sweeping, faultVars>>

\* And before the hand-off?
Check(e) ==
    /\ phase[e] = "check"
    /\ Goto(e, IF status = "processing" THEN "add" ELSE "drop")
    /\ UNCHANGED <<status, run, diskVars, queueVars, winner, failing, runOf, seen, out,
                   retryVars, sweeping, faultVars>>

\* dropOutput: all the output of an asset that is gone, otherwise the directory
\* this execution wrote.
Drop(e) ==
    /\ phase[e] = "drop"
    /\ IF status = "deleted" THEN RemoveOutput
       ELSE /\ writing' = writing \ {e}
            /\ finished' = FinishedBut(e)
    /\ Complete(e)
    /\ UNCHANGED <<status, run, source, upload, finalize, winner, retryVars, sweeping, faultVars>>

\* The upload job is added under a fixed id, so the first one of a run counts.
AddUpload(r, d) ==
    upload' = IF upload[r].state = "none"
              THEN [upload EXCEPT ![r] = [state |-> "waiting", tries |-> 0, dir |-> d]]
              ELSE upload

Add(e) ==
    /\ phase[e] = "add"
    /\ AddUpload(runOf[e], out[e])
    /\ Goto(e, "compare")
    /\ UNCHANGED <<status, run, diskVars, job, finalize, winner, failing, runOf, seen, out,
                   retryVars, sweeping, faultVars>>

\* A comparison with the execution's own directory, though it may reuse another.
CompareOwn(e) ==
    /\ phase[e] = "compare"
    /\ IF upload[runOf[e]].dir # e
       THEN RemoveFinished(out[e])
       ELSE UNCHANGED <<writing, finished>>
    /\ Complete(e)
    /\ UNCHANGED <<status, run, source, upload, finalize, winner, retryVars, sweeping, faultVars>>

\* A directory that the upload will not read is dropped.
Compare(e) ==
    /\ phase[e] = "compare"
    /\ IF upload[runOf[e]].dir # out[e]
       THEN RemoveFinished(out[e])
       ELSE UNCHANGED <<writing, finished>>
    /\ Complete(e)
    /\ UNCHANGED <<status, run, source, upload, finalize, winner, retryVars, sweeping, faultVars>>

\* A call fails; FFmpeg fails, or its directory is gone; or the source is no
\* video, which is not tried again.
StageFails(e) ==
    /\ Running(e)
    /\ \/ Fault /\ Throw(e, TriesLeft(e))
       \/ Fault /\ phase[e] = "ffmpeg" /\ Throw(e, FALSE)
       \/ /\ phase[e] \in {"ffmpeg", "thumbs"} /\ e \notin writing
          /\ NoFault /\ Throw(e, TriesLeft(e))
    /\ LeaveDir(e)
    /\ \/ UNCHANGED upload
       \/ phase[e] = "add" /\ AddUpload(runOf[e], out[e])
    /\ UNCHANGED <<status, run, source, finalize, winner, retryVars, sweeping, lost>>

\* The execution freezes past its lock, and goes on when it wakes.
Stall(e) ==
    /\ Running(e) /\ Holds(e)
    /\ LoseJob(e)
    /\ UNCHANGED <<status, run, diskVars, upload, finalize, winner, execVars, retryVars,
                   sweeping, faultVars>>

Crash(e) ==
    /\ Fault
    /\ Running(e)
    /\ End(e)
    /\ LeaveDir(e)
    /\ IF Holds(e) THEN LoseJob(e) ELSE UNCHANGED <<job, failing>>
    /\ UNCHANGED <<status, run, source, upload, finalize, winner, retryVars, sweeping, lost>>

----------------------------------------------------------------------------
(***************************************************************************)
(* The upload stage, one execution at a time (its lease), and finalize.    *)
(***************************************************************************)
SetUpload(r, s) == upload' = [upload EXCEPT ![r].state = s]

UploadStart(r) ==
    /\ upload[r].state = "waiting"
    /\ IF status = "processing" /\ finalize[r].state = "none"
       THEN SetUpload(r, "active")
       ELSE SetUpload(r, "ended")
    /\ IF status = "deleted" THEN RemoveOutput ELSE UNCHANGED <<writing, finished>>
    /\ UNCHANGED <<status, run, source, job, finalize, winner, failing, execVars, retryVars,
                   sweeping, faultVars>>

\* The last batch is read and uploaded, after its checkpoint.
UploadRead(r) ==
    /\ upload[r].state = "active"
    /\ status = "processing"
    /\ HasDir(upload[r].dir)
    /\ SetUpload(r, "read")
    /\ UNCHANGED <<status, run, diskVars, job, finalize, winner, failing, execVars, retryVars,
                   sweeping, faultVars>>

\* A checkpoint finds that the asset left processing.
UploadStops(r) ==
    /\ upload[r].state = "active"
    /\ status # "processing"
    /\ SetUpload(r, "ended")
    /\ IF status = "deleted" THEN RemoveOutput ELSE UNCHANGED <<writing, finished>>
    /\ UNCHANGED <<status, run, source, job, finalize, winner, failing, execVars, retryVars,
                   sweeping, faultVars>>

AddFinalize(r) ==
    finalize' = IF finalize[r].state = "none"
                THEN [finalize EXCEPT ![r].state = "waiting"] ELSE finalize

HandOff(r) ==
    /\ upload[r].state = "read"
    /\ AddFinalize(r)
    /\ SetUpload(r, "ended")
    /\ UNCHANGED <<status, run, diskVars, job, winner, failing, execVars, retryVars, sweeping, faultVars>>

\* Sia, the database or Redis fails a call, or the directory is gone.
UploadFails(r) ==
    /\ \/ Fault /\ upload[r].state \in {"active", "read"}
       \/ upload[r].state = "active" /\ ~HasDir(upload[r].dir) /\ NoFault
    /\ LET again == upload[r].tries + 1 < Attempts
       IN  /\ upload' = [upload EXCEPT ![r].state = IF again THEN "waiting" ELSE "ended",
                                     ![r].tries = @ + 1]
           /\ failing' = IF again THEN failing ELSE failing \cup {<<"upload", r>>}
    /\ UNCHANGED finalize \/ (upload[r].state = "read" /\ AddFinalize(r))
    /\ UNCHANGED <<status, run, diskVars, job, winner, execVars, retryVars, sweeping, lost>>

SetFinalize(r, s) == finalize' = [finalize EXCEPT ![r].state = s]

\* A finalize that cleans up after every outcome.
FinalizeCleansAlways(r) ==
    /\ finalize[r].state = "waiting"
    /\ SetFinalize(r, "clean")
    /\ IF status = "processing" THEN status' = "ready" /\ winner' = r
       ELSE UNCHANGED <<status, winner>>
    /\ UNCHANGED <<run, diskVars, job, upload, failing, execVars, retryVars, sweeping, faultVars>>

\* The transaction of finalizeAssetStorage: it makes a processing asset ready
\* with the objects of this run, and is repeated for nothing; anything else
\* leaves the asset alone.
Finalize(r) ==
    /\ finalize[r].state = "waiting"
    /\ \/ /\ status = "processing"
          /\ status' = "ready" /\ winner' = r
          /\ SetFinalize(r, "clean")
          /\ UNCHANGED <<writing, finished>>
       \/ /\ status # "processing"
          /\ SetFinalize(r, IF status = "ready" /\ winner = r THEN "clean" ELSE "ended")
          /\ IF status = "deleted" THEN RemoveOutput ELSE UNCHANGED <<writing, finished>>
          /\ UNCHANGED <<status, winner>>
    /\ UNCHANGED <<run, source, job, upload, failing, execVars, retryVars, sweeping, faultVars>>

\* Then all run directories go, and the source; a removal that fails is left to
\* the sweep.
CleanOutput(r) ==
    /\ finalize[r].state = "clean"
    /\ SetFinalize(r, "source")
    /\ (RemoveOutput /\ NoFault) \/ (Fault /\ UNCHANGED <<writing, finished>>)
    /\ UNCHANGED <<status, run, source, job, upload, winner, failing, execVars, retryVars,
                   sweeping, lost>>

CleanSource(r) ==
    /\ finalize[r].state = "source"
    /\ SetFinalize(r, "ended")
    /\ (source' = FALSE /\ NoFault) \/ (Fault /\ UNCHANGED source)
    /\ UNCHANGED <<status, run, writing, finished, job, upload, winner, failing, execVars,
                   retryVars, sweeping, lost>>

FinalizeFails(r) ==
    /\ Fault
    /\ finalize[r].state = "waiting"
    /\ LET again == finalize[r].tries + 1 < Attempts
       IN  /\ finalize' = [finalize EXCEPT ![r].state = IF again THEN "waiting" ELSE "ended",
                                         ![r].tries = @ + 1]
           /\ failing' = IF again THEN failing ELSE failing \cup {<<"finalize", r>>}
    /\ UNCHANGED <<status, run, diskVars, job, upload, winner, execVars, retryVars, sweeping, lost>>

\* The process of an upload or of finalize dies; its job is given out again.
WorkerDies(r) ==
    /\ Fault
    /\ \/ upload[r].state \in {"active", "read"} /\ SetUpload(r, "waiting")
          /\ UNCHANGED finalize
       \/ finalize[r].state \in {"clean", "source"} /\ SetFinalize(r, "waiting")
          /\ UNCHANGED upload
    /\ UNCHANGED <<status, run, diskVars, job, winner, failing, execVars, retryVars, sweeping, lost>>

----------------------------------------------------------------------------
(***************************************************************************)
(* Failed runs, and the request to retry one.                              *)
(***************************************************************************)

\* A failure write that forgets the first attempt of a new asset, and one that
\* looks at nothing.
FailProcessing == status' = IF status = "processing" THEN "failed" ELSE status
FailAnyAsset == status' = IF status = "deleted" THEN status ELSE "failed"

\* failProcessingAsset.
FailAsset == status' = IF status \in {"created", "processing"} THEN "failed" ELSE status

\* recordFailure; when only the answer is lost it is repeated.
RecordFailure(f) ==
    /\ f \in failing
    /\ FailAsset
    /\ (failing' = failing \ {f} /\ NoFault) \/ (Fault /\ UNCHANGED failing)
    /\ UNCHANGED <<run, diskVars, queueVars, winner, execVars, retryVars, sweeping, lost>>

\* The process dies before it is recorded, or every try fails.
LoseFailure(f) ==
    /\ Fault
    /\ f \in failing
    /\ failing' = failing \ {f}
    /\ lost' = lost \cup {"failure"}
    /\ UNCHANGED <<status, run, diskVars, queueVars, winner, execVars, retryVars, sweeping>>

\* A retry needs a failed asset and something to start from.
RetryCheck ==
    /\ retry = "none"
    /\ status = "failed"
    /\ run <= MaxRetries
    /\ retry' \in IF finished # <<>> THEN {Completed} ELSE IF source THEN {"source"} ELSE {}
    /\ UNCHANGED <<status, run, diskVars, queueVars, winner, failing, execVars, claimed,
                   sweeping, faultVars>>

\* It claims the asset as it is by now.
RetryClaim ==
    /\ retry # "none" /\ ~claimed
    /\ IF status = "failed"
       THEN /\ status' = "processing"
            /\ run' = run + 1
            /\ claimed' = TRUE
            /\ UNCHANGED retry
       ELSE retry' = "none" /\ UNCHANGED <<status, run, claimed>>
    /\ UNCHANGED <<diskVars, queueVars, winner, failing, execVars, sweeping, faultVars>>

\* It resumes at the upload of what it found, or transcodes the source again.
Enqueue ==
    IF retry = "source"
    THEN job' = [job EXCEPT ![run].state = "waiting"] /\ UNCHANGED upload
    ELSE AddUpload(run, retry) /\ UNCHANGED job

RetryQueue ==
    /\ claimed
    /\ Enqueue
    /\ retry' = "none" /\ claimed' = FALSE
    /\ UNCHANGED <<status, run, diskVars, finalize, winner, failing, execVars, sweeping, faultVars>>

\* releaseRetryClaim, when the job could not be queued, or only seems so.
RetryFails ==
    /\ Fault
    /\ claimed
    /\ Enqueue \/ UNCHANGED <<job, upload>>
    /\ status' = IF status = "processing" THEN "failed" ELSE status
    /\ retry' = "none" /\ claimed' = FALSE
    /\ UNCHANGED <<run, diskVars, finalize, winner, failing, execVars, sweeping, lost>>

\* The process dies, or the claim cannot be released either.
RetryDies ==
    /\ Fault
    /\ retry # "none"
    /\ lost' = IF claimed THEN lost \cup {"claim"} ELSE lost
    /\ retry' = "none" /\ claimed' = FALSE
    /\ UNCHANGED <<status, run, diskVars, queueVars, winner, failing, execVars, sweeping>>

----------------------------------------------------------------------------
(***************************************************************************)
(* Deletion and the sweeps.                                                *)
(***************************************************************************)
SoftDelete ==
    /\ status # "deleted"
    /\ status' = "deleted"
    /\ UNCHANGED <<run, diskVars, queueVars, winner, failing, execVars, retryVars, sweeping, faultVars>>

\* The deletion worker removes the files, or a sweep that sees the asset gone.
DeleteFiles ==
    /\ status = "deleted"
    /\ RemoveOutput
    /\ source' = FALSE
    /\ UNCHANGED <<status, run, queueVars, winner, failing, execVars, retryVars, sweeping, faultVars>>

\* A sweep reads that a ready asset needs no files.
SweepLooks ==
    /\ status = "ready"
    /\ sweeping' = TRUE
    /\ UNCHANGED <<status, run, diskVars, queueVars, winner, failing, execVars, retryVars, faultVars>>

\* Then it removes them: one sweep the output, another the source.
SweepRemoves ==
    /\ sweeping
    /\ sweeping' = FALSE
    /\ \/ RemoveOutput /\ UNCHANGED source
       \/ source' = FALSE /\ UNCHANGED <<writing, finished>>
    /\ UNCHANGED <<status, run, queueVars, winner, failing, execVars, retryVars, faultVars>>

----------------------------------------------------------------------------
StageStep(e) ==
    \/ Read(e) \/ Look(e) \/ Mark(e) \/ Find(e) \/ Probe(e) \/ WriteMarker(e)
    \/ Check(e) \/ Drop(e) \/ Add(e) \/ Compare(e) \/ StageFails(e)

TranscodeStep(e) ==
    \/ \E r \in Runs : Start(e, r)
    \/ StageStep(e) \/ Stall(e) \/ Crash(e)

LaterStages(r) ==
    \/ UploadStart(r) \/ UploadRead(r) \/ UploadStops(r) \/ HandOff(r) \/ UploadFails(r)
    \/ Finalize(r) \/ CleanOutput(r) \/ CleanSource(r) \/ FinalizeFails(r)

RetryStep == RetryCheck \/ RetryClaim \/ RetryQueue \/ RetryFails \/ RetryDies

Failures == {"transcode", "upload", "finalize"} \X Runs

Next ==
    \/ \E e \in Exec : TranscodeStep(e)
    \/ \E r \in Runs : LaterStages(r) \/ WorkerDies(r)
    \/ \E f \in Failures : RecordFailure(f) \/ LoseFailure(f)
    \/ RetryStep
    \/ SoftDelete \/ DeleteFiles \/ SweepLooks \/ SweepRemoves

Spec == Init /\ [][Next]_vars
----------------------------------------------------------------------------
(***************************************************************************)
(* What the pipeline promises.                                             *)
(***************************************************************************)

\* A ready video plays until it is deleted: no retry and no late failure of any
\* run takes it back, though their writes follow their reads by a while. Only one
\* of two executions of the first transcode can, whose look at the asset was
\* before the first write of the other: its own (updateVideoAsset) checks nothing.
ReadyIsFinal ==
    [][status = "ready" =>
        \/ status' \in {"ready", "deleted"}
        \/ \E e \in Exec : phase[e] = "mark" /\ seen[e] = "created" /\ phase'[e] = "find"]_vars

\* A failed video can be retried: its source or a finished transcode is on disk,
\* whatever the executions, finalize and the sweeps remove.
FailedCanRetry == status = "failed" => source \/ finished # <<>> \/ "mark" \in lost

\* A run that is under way has somebody to end it: a job, a failure about to be
\* recorded, or the request that is about to queue a job. The losses are the only
\* ways for it to stay processing for good.
RunIsDriven ==
    status \in {"created", "processing"} =>
        \/ \E r \in Runs : job[r].state \in {"waiting", "active"}
        \/ \E r \in Runs : upload[r].state \in {"waiting", "active", "read"}
        \/ \E r \in Runs : finalize[r].state = "waiting"
        \/ failing # {} \/ claimed
        \/ lost # {}

\* A second execution of a transcode never removes what the upload of that run
\* reads: it drops its own directory, or one the upload was not given. (After a
\* retry or such a late mark it may: see the README.)
UploadHasOutput ==
    run = 1 /\ "mark" \notin lost /\ status = "processing" /\ upload[1].state \in {"waiting", "active"}
        => HasDir(upload[1].dir)
=============================================================================
