---------------------------- MODULE PipelineProofs ----------------------------
(***************************************************************************)
(* Proofs about Pipeline, for every set of executions, every number of     *)
(* attempts, stalls and retries, and any number of faults.                 *)
(***************************************************************************)
EXTENDS Pipeline, SequenceTheorems, TLAPS

----------------------------------------------------------------------------
(***************************************************************************)
(* The inductive invariant behind RunIsDriven.                             *)
(***************************************************************************)

UploadStates == {"none", "waiting", "active", "read", "ended"}
FinalizeStates == {"none", "waiting", "clean", "source", "ended"}

\* The transcode jobs.
Jobs == [Runs -> [state : JobStates, tries : Nat, stalls : Nat, lock : Exec \cup {None}]]

USE DEF Jobs

\* An upload job has a state and a count; what it reads does not matter here.
UploadRows == \E D : upload \in [Runs -> [state : UploadStates, tries : Nat, dir : D]]

\* The types the argument needs.
DriveTypes ==
    /\ status \in Statuses
    /\ run \in Runs
    /\ job \in Jobs
    /\ UploadRows
    /\ finalize \in [Runs -> [state : FinalizeStates, tries : Nat]]
    /\ failing \subseteq Failures
    /\ phase \in [Exec -> Phases]
    /\ runOf \in [Exec -> Runs]
    /\ seen \in [Exec -> {"created", "processing"}]
    /\ claimed \in BOOLEAN

\* There are runs left for a retry that is about to claim the asset.
ClaimFits ==
    /\ claimed => retry # "none"
    /\ retry # "none" /\ ~claimed => run <= MaxRetries

\* Nothing happened in the run yet.
Blank(r) ==
    /\ job[r].state = "none" /\ upload[r].state = "none" /\ finalize[r].state = "none"
    /\ \A e \in Exec : Running(e) => runOf[e] # r

\* So it is with the runs to come, and with the one that was just claimed.
LaterRunsAreBlank == \A r \in Runs : r > run \/ (r = run /\ claimed) => Blank(r)

\* An asset whose transcode went past its mark is not as it was created.
PastCreation ==
    status = "created" =>
        /\ ~claimed
        /\ \A r \in Runs : upload[r].state = "none" /\ finalize[r].state = "none"
        /\ \A e \in Exec : seen[e] = "created" /\ phase[e] \in {"new", "read", "look", "mark"}

\* The asset waits for its run to end, and nothing was lost.
Open == status \in {"created", "processing"} /\ lost = {}

\* An execution drops its output once the run is over.
DropIsLate == \A e \in Exec : phase[e] = "drop" /\ runOf[e] = run => ~Open

\* It compares after it added the upload.
CompareIsLate == \A e \in Exec : phase[e] = "compare" => upload[runOf[e]].state # "none"

\* A job of the current run failed for good, and nobody wrote it down yet.
Failing(kind) == <<kind, run>> \in failing

\* A finalize that is over ended the run, or failed.
FinalizeEnds == Open /\ finalize[run].state \in {"clean", "source", "ended"} => Failing("finalize")

\* An upload that is over handed the run on, or failed.
UploadEnds ==
    Open /\ upload[run].state = "ended" =>
        finalize[run].state = "waiting" \/ Failing("upload") \/ Failing("finalize")

\* RunIsDriven, of the current run.
RunIsHeld ==
    Open =>
        \/ claimed
        \/ job[run].state \in {"waiting", "active"}
        \/ upload[run].state \in {"waiting", "active", "read"}
        \/ finalize[run].state = "waiting"
        \/ Failing("transcode") \/ Failing("upload") \/ Failing("finalize")

DriveParts ==
    /\ ClaimFits
    /\ LaterRunsAreBlank
    /\ PastCreation
    /\ DropIsLate
    /\ CompareIsLate
    /\ FinalizeEnds
    /\ UploadEnds
    /\ RunIsHeld

DriveInv == DriveTypes /\ DriveParts

----------------------------------------------------------------------------
(***************************************************************************)
(* Types, and what the steps do to the jobs.                               *)
(***************************************************************************)

\* The upload of run r gets state s, and no other changes its own.
UploadMoves(r, s) ==
    \A x \in Runs : upload'[x].state = IF x = r THEN s ELSE upload[x].state

\* The write of an upload's state.
LEMMA SetUploadTypes ==
    ASSUME UploadRows, NEW r \in Runs, NEW s \in UploadStates, SetUpload(r, s)
    PROVE  UploadRows' /\ UploadMoves(r, s)
BY DEF UploadRows, SetUpload, UploadMoves

\* The add of an upload.
LEMMA AddUploadTypes ==
    ASSUME UploadRows, NEW r \in Runs, NEW d, AddUpload(r, d)
    PROVE  /\ UploadRows'
           /\ UploadMoves(r, IF upload[r].state = "none" THEN "waiting" ELSE upload[r].state)
<1>1. CASE upload[r].state # "none"
  BY <1>1 DEF AddUpload, UploadRows, UploadMoves
<1>2. CASE upload[r].state = "none"
  <2>1. PICK D : upload \in [Runs -> [state : UploadStates, tries : Nat, dir : D]]
    BY DEF UploadRows
  <2> DEFINE new == [state |-> "waiting", tries |-> 0, dir |-> d]
  <2>2. upload' = [upload EXCEPT ![r] = new]
    BY <1>2 DEF AddUpload
  <2>3. new \in [state : UploadStates, tries : Nat, dir : D \cup {d}]
    BY DEF UploadStates
  <2>4. upload' \in [Runs -> [state : UploadStates, tries : Nat, dir : D \cup {d}]]
    BY <2>1, <2>2, <2>3
  <2>5. UploadMoves(r, "waiting")
    BY <2>1, <2>2 DEF UploadMoves
  <2> QED
    BY <1>2, <2>4, <2>5 DEF UploadRows
<1> QED
  BY <1>1, <1>2

\* The job of a run is tried again, or fails for good.
LEMMA TryAgainTypes ==
    ASSUME DriveTypes, NEW r \in Runs, NEW again \in BOOLEAN, NEW c \in {"tries", "stalls"},
           TryAgain(r, again, c)
    PROVE  /\ job' \in Jobs
           /\ \A x \in Runs : x # r => job'[x] = job[x]
           /\ job'[r].state = IF again THEN "waiting" ELSE "ended"
           /\ failing \subseteq failing' /\ failing' \subseteq Failures
           /\ ~again => <<"transcode", r>> \in failing'
<1>1. CASE c = "tries"
  BY <1>1 DEF DriveTypes, TryAgain, JobStates, Failures
<1>2. CASE c = "stalls"
  BY <1>2 DEF DriveTypes, TryAgain, JobStates, Failures
<1> QED
  BY <1>1, <1>2

\* So it is when the stage throws, if the execution still has the job.
LEMMA ThrowTypes ==
    ASSUME DriveTypes, NEW e \in Exec, NEW again \in BOOLEAN, Throw(e, again)
    PROVE  /\ job' \in Jobs
           /\ \A x \in Runs : x # runOf[e] => job'[x] = job[x]
           /\ \/ job'[runOf[e]] = job[runOf[e]]
              \/ job'[runOf[e]].state = "waiting"
              \/ <<"transcode", runOf[e]>> \in failing'
           /\ failing \subseteq failing' /\ failing' \subseteq Failures
<1>1. runOf[e] \in Runs
  BY DEF DriveTypes
<1>2. CASE Holds(e)
  BY <1>1, <1>2, TryAgainTypes DEF Throw
<1>3. CASE ~Holds(e)
  BY <1>1, <1>3 DEF Throw, DriveTypes
<1> QED
  BY <1>2, <1>3

\* And when a job is lost.
LEMMA LoseJobTypes ==
    ASSUME DriveTypes, NEW e \in Exec, LoseJob(e)
    PROVE  /\ job' \in Jobs
           /\ \A x \in Runs : x # runOf[e] => job'[x] = job[x]
           /\ job'[runOf[e]].state = "waiting" \/ <<"transcode", runOf[e]>> \in failing'
           /\ failing \subseteq failing' /\ failing' \subseteq Failures
<1>1. runOf[e] \in Runs
  BY DEF DriveTypes
<1> DEFINE again == job[runOf[e]].stalls < Stalls
<1>2. TryAgain(runOf[e], again, "stalls") /\ again \in BOOLEAN
  BY DEF LoseJob
<1> HIDE DEF again
<1> QED
  BY <1>1, <1>2, TryAgainTypes

\* A job that completes.
LEMMA JobEndsTypes ==
    ASSUME DriveTypes, NEW e \in Exec, JobEnds(e)
    PROVE  /\ job' \in Jobs
           /\ \A x \in Runs : x # runOf[e] => job'[x] = job[x]
           /\ job'[runOf[e]] = job[runOf[e]] \/ job'[runOf[e]].state = "ended"
BY DEF DriveTypes, JobEnds, JobStates

\* A job that an execution takes.
LEMMA StartTypes ==
    ASSUME DriveTypes, NEW e \in Exec, NEW r \in Runs,
           job' = [job EXCEPT ![r].state = "active", ![r].lock = e]
    PROVE  /\ job' \in Jobs
           /\ \A x \in Runs : x # r => job'[x] = job[x]
           /\ job'[r].state = "active"
<1>1. "active" \in JobStates
  BY DEF JobStates
<1>2. job \in Jobs
  BY DEF DriveTypes
<1>3. job' \in Jobs
  BY <1>1, <1>2
<1>4. \A x \in Runs : x # r => job'[x] = job[x]
  BY <1>2
<1>5. job'[r].state = "active"
  BY <1>2
<1> QED
  BY <1>3, <1>4, <1>5

\* The local state of an execution that ends.
LEMMA EndTypes ==
    ASSUME DriveTypes, NEW e \in Exec, End(e)
    PROVE  /\ phase' \in [Exec -> Phases] /\ runOf' \in [Exec -> Runs]
           /\ seen' \in [Exec -> {"created", "processing"}]
           /\ phase'[e] = "new" /\ seen'[e] = "created"
           /\ \A x \in Exec : x # e =>
                phase'[x] = phase[x] /\ runOf'[x] = runOf[x] /\ seen'[x] = seen[x]
BY PipelineAssumption DEF DriveTypes, End, Goto, Phases, Runs

\* The steps that end an execution whose job completes.
CompleteStep(e) ==
    \/ Read(e) /\ Complete(e)
    \/ Look(e) /\ Complete(e)
    \/ Drop(e)
    \/ Compare(e)

\* The steps in which an execution throws or dies.
ThrowStep(e) ==
    \/ Find(e) /\ \E again \in BOOLEAN : Throw(e, again)
    \/ StageFails(e)
    \/ Crash(e)

\* The steps in which it goes on.
GoStep(e) ==
    \/ \E r \in Runs : Start(e, r)
    \/ Read(e) /\ Goto(e, "look")
    \/ Look(e) /\ Goto(e, "mark")
    \/ Mark(e)
    \/ Find(e) /\ (Goto(e, "check") \/ Goto(e, "ffmpeg"))
    \/ Probe(e) \/ WriteMarker(e) \/ Check(e) \/ Add(e)

\* The steps of an execution, by what becomes of it.
LEMMA TranscodeSteps ==
    ASSUME NEW e \in Exec, TranscodeStep(e)
    PROVE  CompleteStep(e) \/ ThrowStep(e) \/ GoStep(e) \/ Stall(e)
<1>1. TriesLeft(e) \in BOOLEAN
  BY DEF TriesLeft
<1>2. Read(e) => CompleteStep(e) \/ GoStep(e)
  BY DEF Read, CompleteStep, GoStep
<1>3. Look(e) => CompleteStep(e) \/ GoStep(e)
  BY DEF Look, CompleteStep, GoStep
<1>4. Find(e) => ThrowStep(e) \/ GoStep(e)
  BY <1>1 DEF Find, ThrowStep, GoStep
<1> QED
  BY <1>2, <1>3, <1>4 DEF TranscodeStep, StageStep, CompleteStep, ThrowStep, GoStep

\* Every step keeps the types.
LEMMA TypesStep ==
    ASSUME DriveTypes, ClaimFits, [Next]_vars
    PROVE  DriveTypes'
<1> USE DEF Statuses, vars, diskVars, queueVars, execVars, retryVars, faultVars
<1>1. CASE UNCHANGED vars
  BY <1>1 DEF DriveTypes, UploadRows, Failures
<1>2. ASSUME NEW e \in Exec, TranscodeStep(e) PROVE DriveTypes'
  <2>1. CASE CompleteStep(e)
    <3>1. Complete(e) /\ UNCHANGED <<status, run, upload, finalize, claimed>>
      BY <2>1 DEF CompleteStep, Read, Look, Drop, Compare
    <3>2. UploadRows'
      BY <3>1 DEF DriveTypes, UploadRows
    <3> QED
      BY <3>1, <3>2, EndTypes, JobEndsTypes DEF Complete, DriveTypes, Failures
  <2>2. CASE ThrowStep(e)
    <3>1. End(e) /\ UNCHANGED <<status, run, finalize, claimed>>
      BY <2>2 DEF ThrowStep, Find, StageFails, Crash, Throw
    <3>2. UploadRows'
      <4>1. CASE UNCHANGED upload
        BY <4>1 DEF DriveTypes, UploadRows
      <4>2. CASE AddUpload(runOf[e], out[e])
        BY <4>2, AddUploadTypes DEF DriveTypes
      <4> QED
        BY <2>2, <4>1, <4>2 DEF ThrowStep, Find, StageFails, Crash
    <3>3. /\ job' \in Jobs
          /\ failing' \subseteq Failures
      <4>1. ASSUME NEW again \in BOOLEAN, Throw(e, again)
            PROVE  /\ job' \in Jobs
                   /\ failing' \subseteq Failures
        BY <4>1, ThrowTypes
      <4>2. CASE LoseJob(e)
        BY <4>2, LoseJobTypes
      <4>3. CASE UNCHANGED <<job, failing>>
        BY <4>3 DEF DriveTypes
      <4>4. TriesLeft(e) \in BOOLEAN
        BY DEF TriesLeft
      <4> QED
        BY <2>2, <4>1, <4>2, <4>3, <4>4 DEF ThrowStep, StageFails, Crash
    <3> QED
      BY <3>1, <3>2, <3>3, EndTypes DEF DriveTypes, Failures
  <2>3. CASE GoStep(e)
    <3>1. UploadRows'
      <4>1. CASE UNCHANGED upload
        BY <4>1 DEF DriveTypes, UploadRows
      <4>2. CASE AddUpload(runOf[e], out[e])
        BY <4>2, AddUploadTypes DEF DriveTypes
      <4> QED
        BY <2>3, <4>1, <4>2 DEF GoStep, Start, Read, Look, Mark, Find, Probe, WriteMarker,
          Check, Add
    <3>2. CASE \E r \in Runs : Start(e, r)
      <4>1. PICK r \in Runs : Start(e, r)
        BY <3>2
      <4>2. job' \in Jobs
        BY <4>1, StartTypes DEF Start
      <4> QED
        BY <3>1, <4>1, <4>2 DEF Start, Goto, DriveTypes, Phases, Failures
    <3>3. CASE Read(e) /\ Goto(e, "look")
      <4>1. UNCHANGED <<job, failing, runOf>> /\ seen' = [seen EXCEPT ![e] = status]
            /\ status \in {"created", "processing"}
        <5>1. ~End(e)
          BY <3>3 DEF Read, End, Goto, DriveTypes
        <5> QED
          BY <3>3, <5>1 DEF Read, Complete
      <4> QED
        BY <3>1, <3>3, <4>1 DEF Read, Goto, DriveTypes, Phases, Failures
    <3>4. CASE Look(e) /\ Goto(e, "mark")
      <4>1. ~End(e)
        BY <3>4 DEF Look, End, Goto, DriveTypes
      <4> QED
        BY <3>1, <3>4, <4>1 DEF Look, Complete, Goto, DriveTypes, Phases, Failures
    <3>5. CASE Find(e) /\ (Goto(e, "check") \/ Goto(e, "ffmpeg"))
      <4>1. ~End(e)
        BY <3>5 DEF Find, End, Goto, DriveTypes
      <4> QED
        BY <3>1, <3>5, <4>1 DEF Find, Throw, Goto, DriveTypes, Phases, Failures
    <3>6. CASE Mark(e) \/ Probe(e) \/ WriteMarker(e) \/ Check(e) \/ Add(e)
      BY <3>1, <3>6 DEF Mark, SetStatus, Probe, WriteMarker, Check, Add, Goto, DriveTypes,
        Phases, Failures
    <3> QED
      BY <2>3, <3>2, <3>3, <3>4, <3>5, <3>6 DEF GoStep
  <2>4. CASE Stall(e)
    <3>1. UploadRows'
      BY <2>4 DEF Stall, DriveTypes, UploadRows
    <3> QED
      BY <2>4, <3>1, LoseJobTypes DEF Stall, DriveTypes, Failures
  <2> QED
    BY <1>2, <2>1, <2>2, <2>3, <2>4, TranscodeSteps
<1>3. ASSUME NEW r \in Runs, LaterStages(r) \/ WorkerDies(r) PROVE DriveTypes'
  <2>1. UploadRows'
    <3>1. CASE UNCHANGED upload
      BY <3>1 DEF DriveTypes, UploadRows
    <3>2. ASSUME NEW s \in UploadStates, SetUpload(r, s) PROVE UploadRows'
      BY <3>2, SetUploadTypes DEF DriveTypes
    <3>3. CASE UploadFails(r)
      <4>1. PICK D : upload \in [Runs -> [state : UploadStates, tries : Nat, dir : D]]
        BY DEF DriveTypes, UploadRows
      <4>2. upload' \in [Runs -> [state : UploadStates, tries : Nat, dir : D]]
        BY <3>3, <4>1 DEF UploadFails, UploadStates
      <4> QED
        BY <4>2 DEF UploadRows
    <3> QED
      BY <1>3, <3>1, <3>2, <3>3 DEF LaterStages, WorkerDies, UploadStart, UploadRead,
        UploadStops, HandOff, Finalize, CleanOutput, CleanSource, FinalizeFails, UploadStates
  <2>2. finalize' \in [Runs -> [state : FinalizeStates, tries : Nat]]
    <3>1. CASE UNCHANGED finalize
      BY <3>1 DEF DriveTypes
    <3>2. CASE AddFinalize(r)
      BY <3>2 DEF AddFinalize, DriveTypes, FinalizeStates
    <3>3. ASSUME NEW s \in FinalizeStates, SetFinalize(r, s)
          PROVE  finalize' \in [Runs -> [state : FinalizeStates, tries : Nat]]
      BY <3>3 DEF SetFinalize, DriveTypes
    <3>4. CASE FinalizeFails(r)
      <4>1. PICK s \in FinalizeStates :
              finalize' = [finalize EXCEPT ![r].state = s, ![r].tries = @ + 1]
        BY <3>4 DEF FinalizeFails, FinalizeStates
      <4>2. finalize \in [Runs -> [state : FinalizeStates, tries : Nat]]
        BY DEF DriveTypes
      <4> QED
        BY <4>1, <4>2
    <3> QED
      BY <1>3, <3>1, <3>2, <3>3, <3>4 DEF LaterStages, WorkerDies, UploadStart, UploadRead,
        UploadStops, HandOff, UploadFails, Finalize, CleanOutput, CleanSource, FinalizeStates
  <2>3. failing' \subseteq Failures /\ status' \in Statuses
    BY <1>3 DEF LaterStages, WorkerDies, UploadStart, UploadRead, UploadStops, HandOff,
      UploadFails, Finalize, CleanOutput, CleanSource, FinalizeFails, DriveTypes, Failures
  <2> QED
    BY <1>3, <2>1, <2>2, <2>3 DEF LaterStages, WorkerDies, UploadStart, UploadRead,
      UploadStops, HandOff, UploadFails, Finalize, CleanOutput, CleanSource, FinalizeFails,
      DriveTypes
<1>4. ASSUME NEW f \in Failures, RecordFailure(f) \/ LoseFailure(f) PROVE DriveTypes'
  BY <1>4 DEF RecordFailure, LoseFailure, FailAsset, DriveTypes, UploadRows, Failures
<1>5. CASE RetryStep
  <2>1. UNCHANGED <<finalize, failing, execVars>>
    BY <1>5 DEF RetryStep, RetryCheck, RetryClaim, RetryQueue, RetryFails, RetryDies
  <2>2. run' \in Runs /\ claimed' \in BOOLEAN /\ status' \in Statuses
    <3>1. CASE RetryClaim
      <4>1. run + 1 \in Runs
        BY <3>1, PipelineAssumption DEF RetryClaim, DriveTypes, ClaimFits, Runs
      <4> QED
        BY <3>1, <4>1 DEF RetryClaim, DriveTypes
    <3>2. CASE RetryCheck \/ RetryQueue \/ RetryFails \/ RetryDies
      BY <3>2 DEF RetryCheck, RetryQueue, RetryFails, RetryDies, DriveTypes
    <3> QED
      BY <1>5, <3>1, <3>2 DEF RetryStep
  <2>3. /\ UploadRows'
        /\ job' \in Jobs
    <3>1. CASE UNCHANGED <<job, upload>>
      BY <3>1 DEF DriveTypes, UploadRows
    <3>2. CASE Enqueue
      <4>1. CASE retry = "source"
        <5>1. UploadRows'
          BY ZenonT(30), <3>2, <4>1 DEF Enqueue, DriveTypes, UploadRows
        <5>2. job' = [job EXCEPT ![run].state = "waiting"] /\ "waiting" \in JobStates
          BY <3>2, <4>1 DEF Enqueue, JobStates
        <5> QED
          BY <5>1, <5>2 DEF DriveTypes
      <4>2. CASE retry # "source"
        BY <3>2, <4>2, AddUploadTypes DEF Enqueue, DriveTypes
      <4> QED
        BY <4>1, <4>2
    <3> QED
      BY <1>5, <3>1, <3>2 DEF RetryStep, RetryCheck, RetryClaim, RetryQueue, RetryFails,
        RetryDies
  <2> QED
    BY <2>1, <2>2, <2>3 DEF DriveTypes, Failures
<1>6. CASE SoftDelete \/ DeleteFiles \/ SweepLooks \/ SweepRemoves
  BY <1>6 DEF SoftDelete, DeleteFiles, SweepLooks, SweepRemoves, DriveTypes, UploadRows,
    Failures
<1> QED
  BY <1>1, <1>2, <1>3, <1>4, <1>5, <1>6 DEF Next

----------------------------------------------------------------------------
(***************************************************************************)
(* The executions of the transcode stage.                                  *)
(***************************************************************************)

\* The job of an execution that completes is not needed any more: the run is
\* over, or its upload was queued.
LEMMA CompleteKeeps ==
    ASSUME DriveInv, DriveTypes', NEW e \in Exec, CompleteStep(e)
    PROVE  DriveParts'
<1> USE DEF DriveInv, DriveTypes, DriveParts
<1>1. /\ Complete(e) /\ Running(e)
      /\ UNCHANGED <<status, run, upload, finalize, failing, retry, claimed, lost>>
  BY DEF CompleteStep, Read, Look, Drop, Compare, Complete, Running, retryVars, faultVars
<1>2. /\ phase'[e] = "new" /\ seen'[e] = "created"
      /\ \A x \in Exec : x # e =>
            phase'[x] = phase[x] /\ runOf'[x] = runOf[x] /\ seen'[x] = seen[x]
  BY <1>1, EndTypes DEF Complete
<1>3. /\ \A x \in Runs : x # runOf[e] => job'[x] = job[x]
      /\ job'[runOf[e]] = job[runOf[e]] \/ job'[runOf[e]].state = "ended"
  BY <1>1, JobEndsTypes DEF Complete
<1>4. ClaimFits' /\ FinalizeEnds' /\ UploadEnds'
  BY <1>1 DEF ClaimFits, FinalizeEnds, UploadEnds, Open, Failing
<1>5. LaterRunsAreBlank'
  BY <1>1, <1>2, <1>3 DEF LaterRunsAreBlank, Blank, Running
<1>6. PastCreation'
  BY <1>1, <1>2 DEF PastCreation
<1>7. DropIsLate' /\ CompareIsLate'
  BY <1>1, <1>2 DEF DropIsLate, CompareIsLate, Open
<1>8. RunIsHeld'
  <2>1. CASE job'[run] = job[run]
    BY <1>1, <2>1 DEF RunIsHeld, Open, Failing
  <2>2. CASE runOf[e] = run
    <3>1. ~Open \/ upload[run].state # "none"
      BY <2>2 DEF CompleteStep, Read, Look, Goto, Complete, End, Drop, DropIsLate, Compare,
        CompareIsLate, Open
    <3> QED
      BY <1>1, <3>1 DEF RunIsHeld, UploadEnds, Open, Failing, UploadStates, UploadRows
  <2> QED
    BY <1>3, <2>1, <2>2
<1> QED
  BY <1>4, <1>5, <1>6, <1>7, <1>8

\* The job of an execution that throws or dies is tried again, or it fails.
LEMMA ThrowKeeps ==
    ASSUME DriveInv, DriveTypes', NEW e \in Exec, ThrowStep(e)
    PROVE  DriveParts'
<1> USE DEF DriveInv, DriveTypes, DriveParts
<1>1. /\ End(e) /\ Running(e)
      /\ UNCHANGED <<status, run, finalize, retry, claimed, lost>>
  BY DEF ThrowStep, Find, StageFails, Crash, Throw, Running, retryVars, faultVars
<1>2. /\ phase'[e] = "new" /\ seen'[e] = "created"
      /\ \A x \in Exec : x # e =>
            phase'[x] = phase[x] /\ runOf'[x] = runOf[x] /\ seen'[x] = seen[x]
  BY <1>1, EndTypes
<1>3. /\ \A x \in Runs : x # runOf[e] => job'[x] = job[x]
      /\ \/ job'[runOf[e]] = job[runOf[e]]
         \/ job'[runOf[e]].state = "waiting"
         \/ <<"transcode", runOf[e]>> \in failing'
      /\ failing \subseteq failing'
  <2>1. CASE \E again \in BOOLEAN : Throw(e, again)
    BY <2>1, ThrowTypes
  <2>2. CASE LoseJob(e)
    BY <2>2, LoseJobTypes
  <2>3. CASE UNCHANGED <<job, failing>>
    BY <2>3
  <2>4. TriesLeft(e) \in BOOLEAN
    BY DEF TriesLeft
  <2> QED
    BY <2>1, <2>2, <2>3, <2>4 DEF ThrowStep, StageFails, Crash
<1>4. \/ UNCHANGED upload
      \/ /\ phase[e] = "add"
         /\ UploadMoves(runOf[e], IF upload[runOf[e]].state = "none" THEN "waiting"
                                  ELSE upload[runOf[e]].state)
  BY AddUploadTypes DEF ThrowStep, Find, StageFails, Crash
<1>5. \A r \in Runs :
        \/ upload'[r].state = upload[r].state
        \/ /\ r = runOf[e] /\ phase[e] = "add"
           /\ upload[r].state = "none" /\ upload'[r].state = "waiting"
  BY <1>4 DEF UploadMoves
<1>6. ClaimFits' /\ FinalizeEnds' /\ UploadEnds'
  BY <1>1, <1>3, <1>5 DEF ClaimFits, FinalizeEnds, UploadEnds, Open, Failing
<1>7. LaterRunsAreBlank'
  <2> SUFFICES ASSUME NEW r \in Runs, r > run \/ (r = run /\ claimed)
               PROVE  Blank(r)'
    BY <1>1 DEF LaterRunsAreBlank
  <2>1. Blank(r) /\ runOf[e] # r
    BY <1>1 DEF LaterRunsAreBlank, Blank
  <2>2. job'[r] = job[r] /\ upload'[r].state = upload[r].state
    BY <1>3, <1>5, <2>1
  <2> QED
    BY <1>1, <1>2, <2>1, <2>2 DEF Blank, Running
<1>8. PastCreation'
  BY <1>1, <1>2, <1>5 DEF PastCreation
<1>9. DropIsLate' /\ CompareIsLate'
  <2>1. DropIsLate'
    BY <1>1, <1>2 DEF DropIsLate, Open
  <2>2. CompareIsLate'
    <3> SUFFICES ASSUME NEW x \in Exec, phase'[x] = "compare"
                 PROVE  upload'[runOf'[x]].state # "none"
      BY DEF CompareIsLate
    <3>1. x # e /\ phase[x] = "compare" /\ runOf'[x] = runOf[x]
      BY <1>2
    <3> QED
      BY <3>1, <1>5 DEF CompareIsLate
  <2> QED
    BY <2>1, <2>2
<1>10. RunIsHeld'
  BY <1>1, <1>3, <1>5 DEF RunIsHeld, Open, Failing
<1> QED
  BY <1>6, <1>7, <1>8, <1>9, <1>10

\* So it is when an execution is taken for stalled.
LEMMA StallKeeps ==
    ASSUME DriveInv, DriveTypes', NEW e \in Exec, Stall(e)
    PROVE  DriveParts'
<1> USE DEF DriveInv, DriveTypes, DriveParts
<1>1. /\ Running(e)
      /\ UNCHANGED <<status, run, upload, finalize, phase, runOf, seen, retry, claimed, lost>>
  BY DEF Stall, execVars, retryVars, faultVars
<1>2. /\ \A x \in Runs : x # runOf[e] => job'[x] = job[x]
      /\ job'[runOf[e]].state = "waiting" \/ <<"transcode", runOf[e]>> \in failing'
      /\ failing \subseteq failing'
  BY LoseJobTypes DEF Stall
<1>3. ClaimFits' /\ FinalizeEnds' /\ UploadEnds'
  BY <1>1, <1>2 DEF ClaimFits, FinalizeEnds, UploadEnds, Open, Failing
<1>4. LaterRunsAreBlank' /\ PastCreation'
  BY <1>1, <1>2 DEF LaterRunsAreBlank, Blank, Running, PastCreation
<1>5. DropIsLate' /\ CompareIsLate'
  BY <1>1 DEF DropIsLate, CompareIsLate, Open
<1>6. RunIsHeld'
  BY <1>1, <1>2 DEF RunIsHeld, Open, Failing
<1> QED
  BY <1>3, <1>4, <1>5, <1>6

\* An execution that goes on.
LEMMA GoKeeps ==
    ASSUME DriveInv, DriveTypes', NEW e \in Exec, GoStep(e)
    PROVE  DriveParts'
<1> USE DEF DriveInv, DriveTypes, DriveParts
<1>1. UNCHANGED <<run, finalize, failing, retry, claimed>>
  <2>1. Read(e) /\ Goto(e, "look") => UNCHANGED failing
    BY DEF Read, Complete
  <2>2. Look(e) => UNCHANGED failing
    BY DEF Look, Complete
  <2>3. Find(e) /\ (Goto(e, "check") \/ Goto(e, "ffmpeg")) => UNCHANGED failing
    BY DEF Find, Throw, End, Goto
  <2> QED
    <3>1. UNCHANGED <<run, finalize, retry, claimed>>
      BY DEF GoStep, Start, Read, Look, Mark, Find, Probe, WriteMarker, Check, Add,
        retryVars, queueVars
    <3>2. UNCHANGED failing
      BY <2>1, <2>2, <2>3 DEF GoStep, Start, Mark, Probe, WriteMarker, Check, Add
    <3> QED
      BY <3>1, <3>2
<1>2. CASE \E r \in Runs : Start(e, r)
  <2>1. PICK r \in Runs : Start(e, r)
    BY <1>2
  <2>2. /\ \A x \in Runs : x # r => job'[x] = job[x]
        /\ job'[r].state = "active"
    BY <2>1, StartTypes DEF Start
  <2>3. /\ phase[e] = "new" /\ phase' = [phase EXCEPT ![e] = "read"]
        /\ runOf' = [runOf EXCEPT ![e] = r] /\ job[r].state = "waiting"
        /\ UNCHANGED <<status, upload, seen, lost>>
    BY <2>1 DEF Start, Unused, Goto, faultVars
  <2>4. ClaimFits' /\ FinalizeEnds' /\ UploadEnds' /\ RunIsHeld'
    BY <1>1, <2>2, <2>3 DEF ClaimFits, FinalizeEnds, UploadEnds, RunIsHeld, Open, Failing
  <2>5. LaterRunsAreBlank'
    BY <1>1, <2>2, <2>3 DEF LaterRunsAreBlank, Blank, Running
  <2>6. PastCreation' /\ DropIsLate' /\ CompareIsLate'
    BY <1>1, <2>3 DEF PastCreation, DropIsLate, CompareIsLate, Open
  <2> QED
    BY <2>4, <2>5, <2>6
<1>3. CASE ~\E r \in Runs : Start(e, r)
  <2>1. /\ Running(e) /\ UNCHANGED <<job, runOf>>
        /\ \E p \in Phases \ {"new"} : phase' = [phase EXCEPT ![e] = p]
    <3>1. Read(e) /\ Goto(e, "look") => UNCHANGED <<job, runOf>>
      BY DEF Read, Complete, End, Goto
    <3>2. Look(e) /\ Goto(e, "mark") => UNCHANGED <<job, runOf>>
      BY DEF Look, Complete, End, Goto
    <3>3. Find(e) /\ (Goto(e, "check") \/ Goto(e, "ffmpeg")) => UNCHANGED <<job, runOf>>
      BY DEF Find, Throw, End, Goto
    <3> QED
      BY <1>3, <3>1, <3>2, <3>3 DEF GoStep, Read, Look, Mark, Find, Probe, WriteMarker,
        Check, Add, Goto, Phases, Running, queueVars
  <2>2. CASE Mark(e)
    <3>1. /\ phase[e] = "mark" /\ phase' = [phase EXCEPT ![e] = "find"]
          /\ UNCHANGED <<upload, seen>>
      BY <2>2 DEF Mark, Goto, queueVars
    <3>2. /\ status' = status \/ status' = "processing"
          /\ status' # "created" /\ (status = "created" => seen[e] = "created")
          /\ lost \subseteq lost' /\ (status \in {"ready", "failed"} /\ status' # status => lost' # {})
          /\ status = "deleted" => status' = "deleted"
      BY <2>2 DEF Mark, SetStatus, PastCreation
    <3>3. Open' => Open
      BY <3>2 DEF Open, Statuses
    <3>4. ClaimFits' /\ FinalizeEnds' /\ UploadEnds' /\ RunIsHeld'
      BY <1>1, <2>1, <3>1, <3>3 DEF ClaimFits, FinalizeEnds, UploadEnds, RunIsHeld, Failing
    <3>5. LaterRunsAreBlank' /\ PastCreation'
      BY <1>1, <2>1, <3>1, <3>2 DEF LaterRunsAreBlank, Blank, Running, PastCreation
    <3>6. DropIsLate' /\ CompareIsLate'
      BY <1>1, <2>1, <3>1, <3>3 DEF DropIsLate, CompareIsLate
    <3> QED
      BY <3>4, <3>5, <3>6
  <2>3. CASE Add(e)
    <3>1. /\ phase[e] = "add" /\ phase' = [phase EXCEPT ![e] = "compare"]
          /\ AddUpload(runOf[e], out[e])
          /\ UNCHANGED <<status, seen, lost>>
      BY <2>3 DEF Add, Goto, faultVars
    <3>2. \A r \in Runs :
            upload'[r].state = IF r = runOf[e] /\ upload[r].state = "none" THEN "waiting"
                               ELSE upload[r].state
      BY <3>1, AddUploadTypes DEF UploadMoves
    <3>3. ClaimFits' /\ FinalizeEnds' /\ UploadEnds' /\ RunIsHeld'
      BY <1>1, <2>1, <3>1, <3>2
        DEF ClaimFits, FinalizeEnds, UploadEnds, RunIsHeld, Open, Failing
    <3>4. LaterRunsAreBlank' /\ PastCreation'
      BY ZenonT(30), <1>1, <2>1, <3>1, <3>2 DEF LaterRunsAreBlank, Blank, Running, PastCreation
    <3>5. DropIsLate' /\ CompareIsLate'
      BY <1>1, <2>1, <3>1, <3>2 DEF DropIsLate, CompareIsLate, Open
    <3> QED
      BY <3>3, <3>4, <3>5
  <2>4. CASE ~Mark(e) /\ ~Add(e)
    <3>1. UNCHANGED <<status, upload, lost>>
      BY <1>3, <2>4 DEF GoStep, Read, Look, Find, Probe, WriteMarker, Check, queueVars,
        faultVars
    <3>2. /\ phase'[e] \notin {"new", "compare"}
          /\ phase'[e] = "drop" => ~Open
          /\ status = "created" => phase'[e] \in {"look", "mark"}
      BY <1>3, <2>4 DEF GoStep, Read, Look, Find, Probe, WriteMarker, Check, Goto,
        PastCreation, Open
    <3>3. /\ \A x \in Exec : x # e => phase'[x] = phase[x] /\ seen'[x] = seen[x]
          /\ status = "created" => seen'[e] = "created"
      <4>1. CASE Read(e) /\ Goto(e, "look")
        BY <4>1 DEF Read, Complete, End, Goto, PastCreation
      <4>2. CASE ~(Read(e) /\ Goto(e, "look"))
        <5>1. Look(e) /\ Goto(e, "mark") => UNCHANGED seen
          BY DEF Look, Complete, End, Goto
        <5>2. Find(e) /\ (Goto(e, "check") \/ Goto(e, "ffmpeg")) => UNCHANGED seen
          BY DEF Find, Throw, End, Goto
        <5>3. UNCHANGED seen
          BY <1>3, <2>4, <4>2, <5>1, <5>2 DEF GoStep, Probe, WriteMarker, Check
        <5> QED
          BY <2>1, <5>3 DEF PastCreation
      <4> QED
        BY <4>1, <4>2
    <3>4. ClaimFits' /\ FinalizeEnds' /\ UploadEnds' /\ RunIsHeld'
      BY <1>1, <2>1, <3>1 DEF ClaimFits, FinalizeEnds, UploadEnds, RunIsHeld, Open, Failing
    <3>5. LaterRunsAreBlank' /\ PastCreation'
      BY <1>1, <2>1, <3>1, <3>2, <3>3
        DEF LaterRunsAreBlank, Blank, Running, PastCreation
    <3>6. DropIsLate' /\ CompareIsLate'
      BY <1>1, <2>1, <3>1, <3>2, <3>3 DEF DropIsLate, CompareIsLate, Open
    <3> QED
      BY <3>4, <3>5, <3>6
  <2> QED
    BY <2>2, <2>3, <2>4
<1> QED
  BY <1>2, <1>3

----------------------------------------------------------------------------
(***************************************************************************)
(* The later stages, the failures and the retries.                         *)
(***************************************************************************)

\* The parts that do not speak of how a run ends: of a step that leaves the
\* executions and the retries alone.
LEMMA OthersKeep ==
    ASSUME DriveInv, DriveTypes', UNCHANGED <<run, job, phase, runOf, seen, retry, claimed, lost>>,
           status' # "created" \/ UNCHANGED status,
           Open' => Open,
           \A r \in Runs : upload[r].state = "none" <=> upload'[r].state = "none",
           \A r \in Runs :
               finalize[r].state = "none" /\ upload[r].state = "none" => finalize'[r].state = "none"
    PROVE  ClaimFits' /\ LaterRunsAreBlank' /\ PastCreation' /\ DropIsLate' /\ CompareIsLate'
<1> USE DEF DriveInv, DriveTypes, DriveParts
<1>1. ClaimFits' /\ PastCreation'
  BY DEF ClaimFits, PastCreation
<1>2. LaterRunsAreBlank'
  BY DEF LaterRunsAreBlank, Blank, Running
<1>3. DropIsLate' /\ CompareIsLate'
  BY DEF DropIsLate, CompareIsLate
<1> QED
  BY <1>1, <1>2, <1>3

\* What a step of the upload of run r, or of its finalize, leaves alone.
LaterFrame(r) ==
    /\ UNCHANGED <<run, job, phase, runOf, seen, retry, claimed, lost>>
    /\ \A x \in Runs \ {r} : upload'[x].state = upload[x].state /\ finalize'[x].state = finalize[x].state
    /\ failing \subseteq failing'

\* What the step does to the run: a job that is over handed the run on, ended it,
\* or failed.
LaterMoves(r) ==
    /\ status' = status \/ (status = "processing" /\ status' = "ready")
    /\ upload[r].state = "none" <=> upload'[r].state = "none"
    /\ finalize[r].state = "none" /\ upload[r].state = "none" => finalize'[r].state = "none"
    /\ Open' /\ finalize'[r].state \in {"clean", "source", "ended"} =>
        finalize[r].state \in {"clean", "source", "ended"} \/ <<"finalize", r>> \in failing'
    /\ Open' /\ finalize[r].state = "waiting" =>
        finalize'[r].state = "waiting" \/ <<"finalize", r>> \in failing'
    /\ Open' /\ upload'[r].state = "ended" =>
        \/ upload[r].state = "ended"
        \/ finalize[r].state \in {"clean", "source", "ended"}
        \/ finalize'[r].state = "waiting"
        \/ <<"upload", r>> \in failing'

\* Such a step keeps the invariant.
LEMMA LaterKeeps ==
    ASSUME DriveInv, DriveTypes', NEW r \in Runs, LaterFrame(r), LaterMoves(r)
    PROVE  DriveParts'
<1> USE DEF DriveInv, DriveTypes, DriveParts
<1>1. Open' => Open
  BY DEF LaterFrame, LaterMoves, Open
<1>2. ClaimFits' /\ LaterRunsAreBlank' /\ PastCreation' /\ DropIsLate' /\ CompareIsLate'
  BY <1>1, OthersKeep DEF LaterFrame, LaterMoves
<1>3. FinalizeEnds'
  BY <1>1 DEF LaterFrame, LaterMoves, FinalizeEnds, Failing
<1>4. UploadEnds'
  BY <1>1 DEF LaterFrame, LaterMoves, UploadEnds, FinalizeEnds, Failing
<1>5. RunIsHeld'
  <2> SUFFICES ASSUME Open' PROVE RunIsHeld'
    BY DEF RunIsHeld
  <2>1. CASE run = r /\ upload[r].state \in {"waiting", "active", "read"}
    <3>1. upload'[r].state \in {"waiting", "active", "read", "ended"}
      BY <2>1 DEF LaterMoves, UploadRows, UploadStates
    <3> QED
      BY <2>1, <3>1, <1>4 DEF LaterFrame, RunIsHeld, UploadEnds, Failing
  <2>2. CASE ~(run = r /\ upload[r].state \in {"waiting", "active", "read"})
    BY <1>1, <2>2 DEF LaterFrame, LaterMoves, RunIsHeld, Failing
  <2> QED
    BY <2>1, <2>2
<1> QED
  BY <1>2, <1>3, <1>4, <1>5

\* An upload or a finalize that was added took its asset past its creation.
LEMMA AddedIsPast ==
    ASSUME DriveInv, NEW r \in Runs, upload[r].state # "none" \/ finalize[r].state # "none"
    PROVE  status # "created"
BY DEF DriveInv, DriveParts, PastCreation

\* The steps of an upload are of that kind.
LEMMA UploadIsLater ==
    ASSUME DriveInv, DriveTypes', NEW r \in Runs,
           \/ UploadStart(r) \/ UploadRead(r) \/ UploadStops(r) \/ HandOff(r) \/ UploadFails(r)
    PROVE  LaterFrame(r) /\ LaterMoves(r)
<1> USE DEF DriveInv, DriveTypes
<1>1. /\ UNCHANGED <<status, run, job, phase, runOf, seen, retry, claimed, lost>>
      /\ failing \subseteq failing'
      /\ upload[r].state \in {"waiting", "active", "read"} /\ status # "created"
  BY AddedIsPast DEF UploadStart, UploadRead, UploadStops, HandOff, UploadFails, execVars,
    retryVars, faultVars
<1>2. \A x \in Runs : x # r => upload'[x].state = upload[x].state
  <2>1. ASSUME NEW s \in UploadStates, SetUpload(r, s)
        PROVE  \A x \in Runs : x # r => upload'[x].state = upload[x].state
    BY <2>1, SetUploadTypes DEF UploadMoves
  <2>2. CASE UploadFails(r)
    BY <2>2 DEF UploadFails, UploadRows
  <2> QED
    BY <2>1, <2>2 DEF UploadStart, UploadRead, UploadStops, HandOff, UploadStates
<1>3. /\ \A x \in Runs : x # r => finalize'[x].state = finalize[x].state
      /\ \/ UNCHANGED finalize
         \/ finalize[r].state = "none" /\ finalize'[r].state = "waiting"
  BY DEF UploadStart, UploadRead, UploadStops, HandOff, UploadFails, AddFinalize
<1>4. /\ upload'[r].state # "none"
      /\ Open' /\ upload'[r].state = "ended" =>
            \/ finalize[r].state \in {"clean", "source", "ended"}
            \/ finalize'[r].state = "waiting"
            \/ <<"upload", r>> \in failing'
  <2>1. finalize[r].state \in {"none", "waiting", "clean", "source", "ended"}
    BY DEF FinalizeStates
  <2>2. CASE UploadStart(r)
    BY <1>1, <2>1, <2>2, SetUploadTypes
      DEF UploadStart, UploadMoves, Open, UploadStates
  <2>3. CASE UploadRead(r)
    BY <2>3, SetUploadTypes DEF UploadRead, UploadMoves, UploadStates
  <2>4. CASE UploadStops(r)
    BY <1>1, <2>4, SetUploadTypes DEF UploadStops, UploadMoves, UploadStates, Open
  <2>5. CASE HandOff(r)
    BY <2>1, <2>5, SetUploadTypes DEF HandOff, AddFinalize, UploadMoves, UploadStates
  <2>6. CASE UploadFails(r)
    BY <2>6 DEF UploadFails, UploadRows
  <2> QED
    BY <2>2, <2>3, <2>4, <2>5, <2>6
<1> QED
  BY <1>1, <1>2, <1>3, <1>4 DEF LaterFrame, LaterMoves

\* So are those of finalize, and the death of its process or of the upload's.
LEMMA FinalizeIsLater ==
    ASSUME DriveInv, DriveTypes', NEW r \in Runs,
           \/ Finalize(r) \/ CleanOutput(r) \/ CleanSource(r) \/ FinalizeFails(r) \/ WorkerDies(r)
    PROVE  LaterFrame(r) /\ LaterMoves(r)
<1> USE DEF DriveInv, DriveTypes
<1>1. /\ UNCHANGED <<run, job, phase, runOf, seen, retry, claimed, lost>>
      /\ failing \subseteq failing'
      /\ status # "created"
      /\ status' = status \/ (status = "processing" /\ status' = "ready")
  BY AddedIsPast DEF Finalize, CleanOutput, CleanSource, FinalizeFails, WorkerDies,
    execVars, retryVars, faultVars
<1>2. \A x \in Runs : x # r =>
        upload'[x].state = upload[x].state /\ finalize'[x].state = finalize[x].state
  BY SetUploadTypes DEF Finalize, CleanOutput, CleanSource, FinalizeFails, WorkerDies,
    SetFinalize, UploadMoves, UploadStates
<1>3. CASE WorkerDies(r)
  BY <1>1, <1>2, <1>3, SetUploadTypes
    DEF WorkerDies, SetFinalize, UploadMoves, UploadStates, LaterFrame, LaterMoves
<1>4. CASE Finalize(r)
  <2>1. UNCHANGED upload /\ ~Open'
    BY <1>1, <1>4 DEF Finalize, Open
  <2> QED
    BY <1>1, <1>2, <1>4, <2>1 DEF Finalize, LaterFrame, LaterMoves, SetFinalize
<1>5. CASE CleanOutput(r) \/ CleanSource(r)
  BY <1>1, <1>2, <1>5 DEF CleanOutput, CleanSource, SetFinalize, LaterFrame, LaterMoves
<1>6. CASE FinalizeFails(r)
  BY <1>1, <1>2, <1>6 DEF FinalizeFails, LaterFrame, LaterMoves
<1> QED
  BY <1>3, <1>4, <1>5, <1>6

\* A recorded failure ends the run; a failure that is lost is one of the losses.
LEMMA FailureKeeps ==
    ASSUME DriveInv, DriveTypes', NEW f \in Failures, RecordFailure(f) \/ LoseFailure(f)
    PROVE  DriveParts'
<1> USE DEF DriveInv, DriveTypes, DriveParts
<1>1. /\ UNCHANGED <<run, queueVars, phase, runOf, seen, retry, claimed>>
      /\ ~Open' /\ (status' # "created" \/ UNCHANGED status)
  BY DEF RecordFailure, LoseFailure, FailAsset, Open, execVars, retryVars
<1>2. ClaimFits' /\ LaterRunsAreBlank' /\ PastCreation' /\ DropIsLate' /\ CompareIsLate'
  <2>1. ClaimFits' /\ PastCreation'
    BY <1>1 DEF ClaimFits, PastCreation, queueVars
  <2>2. LaterRunsAreBlank'
    BY <1>1 DEF LaterRunsAreBlank, Blank, Running, queueVars
  <2>3. DropIsLate' /\ CompareIsLate'
    BY <1>1 DEF DropIsLate, CompareIsLate, queueVars
  <2> QED
    BY <2>1, <2>2, <2>3
<1> QED
  BY <1>1, <1>2 DEF FinalizeEnds, UploadEnds, RunIsHeld

\* A retry claims a new run before it queues the job of it.
LEMMA RetryKeeps ==
    ASSUME DriveInv, DriveTypes', RetryStep
    PROVE  DriveParts'
<1> USE DEF DriveInv, DriveTypes, DriveParts
<1>1. UNCHANGED <<finalize, failing, phase, runOf, seen>>
  BY DEF RetryStep, RetryCheck, RetryClaim, RetryQueue, RetryFails, RetryDies, queueVars,
    execVars
<1>2. CASE RetryCheck
  <2>1. /\ retry = "none" /\ run <= MaxRetries
        /\ UNCHANGED <<status, run, queueVars, claimed, lost>>
    BY <1>2 DEF RetryCheck, faultVars
  <2>2. ClaimFits'
    BY <2>1 DEF ClaimFits
  <2>3. LaterRunsAreBlank' /\ PastCreation'
    BY <1>1, <2>1 DEF LaterRunsAreBlank, Blank, Running, PastCreation, queueVars
  <2>4. DropIsLate' /\ CompareIsLate'
    BY <1>1, <2>1 DEF DropIsLate, CompareIsLate, Open, queueVars
  <2>5. FinalizeEnds' /\ UploadEnds' /\ RunIsHeld'
    BY <1>1, <2>1 DEF FinalizeEnds, UploadEnds, RunIsHeld, Failing, Open, queueVars
  <2> QED
    BY <2>2, <2>3, <2>4, <2>5
<1>3. CASE RetryClaim
  <2>1. CASE status # "failed"
    <3>1. retry' = "none" /\ UNCHANGED <<status, run, queueVars, claimed, lost>> /\ ~claimed
      BY <1>3, <2>1 DEF RetryClaim, faultVars
    <3>2. ClaimFits' /\ LaterRunsAreBlank' /\ PastCreation'
      BY <1>1, <3>1 DEF ClaimFits, LaterRunsAreBlank, Blank, Running, PastCreation, queueVars
    <3>3. DropIsLate' /\ CompareIsLate'
      BY <1>1, <3>1 DEF DropIsLate, CompareIsLate, Open, queueVars
    <3>4. FinalizeEnds' /\ UploadEnds' /\ RunIsHeld'
      BY <1>1, <3>1 DEF FinalizeEnds, UploadEnds, RunIsHeld, Failing, Open, queueVars
    <3> QED
      BY <3>2, <3>3, <3>4
  <2>2. CASE status = "failed"
    <3>1. /\ status' = "processing" /\ run' = run + 1 /\ claimed' /\ retry' # "none"
          /\ UNCHANGED queueVars
      BY <1>3, <2>2 DEF RetryClaim
    <3>2. Blank(run') /\ \A r \in Runs : r >= run' => Blank(r)
      BY <3>1, PipelineAssumption DEF LaterRunsAreBlank, Runs
    <3>3. ClaimFits' /\ PastCreation' /\ RunIsHeld'
      BY <3>1 DEF ClaimFits, PastCreation, RunIsHeld
    <3>4. LaterRunsAreBlank'
      BY <1>1, <3>1, <3>2, PipelineAssumption
        DEF LaterRunsAreBlank, Blank, Running, queueVars, Runs
    <3>5. DropIsLate' /\ CompareIsLate'
      BY <1>1, <3>1, <3>2 DEF DropIsLate, CompareIsLate, Blank, Running, queueVars
    <3>6. FinalizeEnds' /\ UploadEnds'
      BY <1>1, <3>1, <3>2 DEF FinalizeEnds, UploadEnds, Blank, queueVars
    <3> QED
      BY <3>3, <3>4, <3>5, <3>6
  <2> QED
    BY <2>1, <2>2
<1>4. CASE RetryQueue \/ RetryFails
  <2>1. /\ claimed /\ claimed' = FALSE /\ retry' = "none"
        /\ Enqueue \/ UNCHANGED <<job, upload>>
        /\ UNCHANGED <<run, lost>>
        /\ status # "created" /\ status' # "created" /\ (Open' => Open)
        /\ Enqueue \/ ~Open'
    BY <1>4 DEF RetryQueue, RetryFails, PastCreation, Open, faultVars
  <2>2. Blank(run)
    BY <2>1 DEF LaterRunsAreBlank
  <2>3. /\ \A x \in Runs : x # run => job'[x] = job[x] /\ upload'[x].state = upload[x].state
        /\ upload'[run].state \in {"none", "waiting"}
        /\ Open' => job'[run].state = "waiting" \/ upload'[run].state = "waiting"
    <3>1. CASE Enqueue /\ retry = "source"
      BY <2>2, <3>1 DEF Enqueue, Blank
    <3>2. CASE Enqueue /\ retry # "source"
      BY <2>2, <3>2, AddUploadTypes DEF Enqueue, Blank, UploadMoves
    <3>3. CASE UNCHANGED <<job, upload>> /\ ~Open'
      BY <2>2, <3>3 DEF Blank
    <3> QED
      BY <2>1, <3>1, <3>2, <3>3
  <2>4. ClaimFits' /\ PastCreation'
    BY <2>1 DEF ClaimFits, PastCreation
  <2>5. LaterRunsAreBlank'
    <3> SUFFICES ASSUME NEW r \in Runs, r > run
                 PROVE  Blank(r)'
      BY <2>1 DEF LaterRunsAreBlank
    <3>1. Blank(r) /\ r # run
      BY DEF LaterRunsAreBlank, Runs
    <3> QED
      BY <1>1, <2>3, <3>1 DEF Blank, Running
  <2>6. DropIsLate' /\ CompareIsLate'
    BY <1>1, <2>1, <2>2, <2>3 DEF DropIsLate, CompareIsLate, Blank, Running
  <2>7. FinalizeEnds' /\ UploadEnds' /\ RunIsHeld'
    BY <1>1, <2>1, <2>2, <2>3 DEF FinalizeEnds, UploadEnds, RunIsHeld, Blank
  <2> QED
    BY <2>4, <2>5, <2>6, <2>7
<1>5. CASE RetryDies
  <2>1. /\ UNCHANGED <<status, run, queueVars>> /\ claimed' = FALSE /\ retry' = "none"
        /\ lost \subseteq lost' /\ (claimed => lost' # {})
    BY <1>5 DEF RetryDies
  <2>2. ClaimFits' /\ LaterRunsAreBlank' /\ PastCreation'
    BY <1>1, <2>1 DEF ClaimFits, LaterRunsAreBlank, Blank, Running, PastCreation, queueVars
  <2>3. DropIsLate' /\ CompareIsLate'
    BY <1>1, <2>1 DEF DropIsLate, CompareIsLate, Open, queueVars
  <2>4. FinalizeEnds' /\ UploadEnds' /\ RunIsHeld'
    BY <1>1, <2>1 DEF FinalizeEnds, UploadEnds, RunIsHeld, Failing, Open, queueVars
  <2> QED
    BY <2>2, <2>3, <2>4
<1> QED
  BY <1>2, <1>3, <1>4, <1>5 DEF RetryStep

\* Deletion ends every run, and the sweeps touch files alone.
LEMMA DiskKeeps ==
    ASSUME DriveInv, DriveTypes',
           SoftDelete \/ DeleteFiles \/ SweepLooks \/ SweepRemoves \/ UNCHANGED vars
    PROVE  DriveParts'
<1> USE DEF DriveInv, DriveTypes, DriveParts
<1>1. /\ UNCHANGED <<run, queueVars, failing, phase, runOf, seen, retry, claimed, lost>>
      /\ status' = status \/ status' = "deleted"
  BY DEF SoftDelete, DeleteFiles, SweepLooks, SweepRemoves, vars, execVars, retryVars,
    faultVars
<1>2. ClaimFits' /\ LaterRunsAreBlank' /\ PastCreation'
  BY <1>1 DEF ClaimFits, LaterRunsAreBlank, Blank, Running, PastCreation, queueVars
<1>3. DropIsLate' /\ CompareIsLate'
  BY <1>1 DEF DropIsLate, CompareIsLate, Open, queueVars
<1>4. FinalizeEnds' /\ UploadEnds' /\ RunIsHeld'
  BY <1>1 DEF FinalizeEnds, UploadEnds, RunIsHeld, Failing, Open, queueVars
<1> QED
  BY <1>2, <1>3, <1>4

----------------------------------------------------------------------------
(***************************************************************************)
(* The theorems.                                                           *)
(***************************************************************************)

\* The invariant holds at the start.
LEMMA DriveInit == Init => DriveInv
<1> SUFFICES ASSUME Init PROVE DriveInv
  OBVIOUS
<1> USE PipelineAssumption DEF Init, Runs, NoJob, NoUpload, NoFinalize
<1>1. DriveTypes
  <2>1. UploadRows
    <3>1. upload \in [Runs -> [state : UploadStates, tries : Nat, dir : {None}]]
      BY DEF UploadStates
    <3> QED
      BY <3>1 DEF UploadRows
  <2>2. job \in Jobs
    BY DEF JobStates
  <2>3. finalize \in [Runs -> [state : FinalizeStates, tries : Nat]]
    BY DEF FinalizeStates
  <2>4. status \in Statuses /\ run \in Runs /\ failing \subseteq Failures
    BY DEF Statuses, Failures
  <2>5. phase \in [Exec -> Phases]
    BY DEF Phases
  <2>6. runOf \in [Exec -> Runs] /\ seen \in [Exec -> {"created", "processing"}]
    OBVIOUS
  <2>7. claimed \in BOOLEAN
    OBVIOUS
  <2> QED
    BY <2>1, <2>2, <2>3, <2>4, <2>5, <2>6, <2>7 DEF DriveTypes
<1>2. ClaimFits /\ PastCreation /\ DropIsLate /\ CompareIsLate
  BY DEF ClaimFits, PastCreation, DropIsLate, CompareIsLate
<1>3. LaterRunsAreBlank
  BY DEF LaterRunsAreBlank, Blank, Running
<1>4. FinalizeEnds /\ UploadEnds /\ RunIsHeld
  BY DEF FinalizeEnds, UploadEnds, RunIsHeld
<1> QED
  BY <1>1, <1>2, <1>3, <1>4 DEF DriveInv, DriveParts

\* Every step keeps it.
LEMMA DriveStep ==
    ASSUME DriveInv, [Next]_vars
    PROVE  DriveInv'
<1>1. DriveTypes'
  BY TypesStep DEF DriveInv, DriveParts
<1>2. ASSUME NEW e \in Exec, TranscodeStep(e) PROVE DriveParts'
  BY <1>1, <1>2, TranscodeSteps, CompleteKeeps, ThrowKeeps, GoKeeps, StallKeeps
<1>3. ASSUME NEW r \in Runs, LaterStages(r) \/ WorkerDies(r) PROVE DriveParts'
  BY <1>1, <1>3, LaterKeeps, UploadIsLater, FinalizeIsLater DEF LaterStages
<1>4. DriveParts'
  BY <1>1, <1>2, <1>3, FailureKeeps, RetryKeeps, DiskKeeps DEF Next
<1> QED
  BY <1>1, <1>4 DEF DriveInv

\* A run that is under way has somebody to end it: a job, a failure about to be
\* recorded, or a retry about to queue one. Only a lost failure or claim, or a
\* late mark, leaves an asset processing for good.
THEOREM RunsAreDriven == Spec => []RunIsDriven
<1>1. DriveInv => RunIsDriven
  <2> SUFFICES ASSUME DriveInv, Open PROVE RunIsDriven
    BY DEF RunIsDriven, Open
  <2> QED
    BY DEF DriveInv, DriveParts, DriveTypes, RunIsHeld, RunIsDriven, Open, Failing
<1> QED
  BY <1>1, DriveInit, DriveStep, PTL DEF Spec

\* A ready asset changes when it is deleted, or by the mark of an execution that
\* read it as it was created.
LEMMA ReadyStep ==
    ASSUME DriveInv, [Next]_vars, status = "ready"
    PROVE  \/ status' \in {"ready", "deleted"}
           \/ \E e \in Exec : phase[e] = "mark" /\ seen[e] = "created" /\ phase'[e] = "find"
<1> DEFINE Final ==
        \/ status' \in {"ready", "deleted"}
        \/ \E e \in Exec : phase[e] = "mark" /\ seen[e] = "created" /\ phase'[e] = "find"
<1>1. CASE UNCHANGED vars
  BY <1>1 DEF vars
<1>2. ASSUME NEW e \in Exec, TranscodeStep(e) PROVE Final
  <2>1. CASE Mark(e)
    BY <2>1 DEF Mark, Goto, DriveInv, DriveTypes
  <2>2. CASE ~Mark(e)
    BY <1>2, <2>2 DEF TranscodeStep, StageStep, Start, Read, Look, Find, Probe, WriteMarker,
      Check, Drop, Add, Compare, StageFails, Stall, Crash
  <2> QED
    BY <2>1, <2>2
<1>3. ASSUME NEW r \in Runs, LaterStages(r) \/ WorkerDies(r) PROVE Final
  BY <1>3 DEF LaterStages, WorkerDies, UploadStart, UploadRead, UploadStops, HandOff,
    UploadFails, Finalize, CleanOutput, CleanSource, FinalizeFails
<1>4. ASSUME NEW f \in Failures, RecordFailure(f) \/ LoseFailure(f) PROVE Final
  BY <1>4 DEF RecordFailure, LoseFailure, FailAsset
<1>5. CASE RetryStep
  BY <1>5 DEF RetryStep, RetryCheck, RetryClaim, RetryQueue, RetryFails, RetryDies
<1>6. CASE SoftDelete \/ DeleteFiles \/ SweepLooks \/ SweepRemoves
  BY <1>6 DEF SoftDelete, DeleteFiles, SweepLooks, SweepRemoves
<1> QED
  BY <1>1, <1>2, <1>3, <1>4, <1>5, <1>6 DEF Next

\* A ready video plays until it is deleted, whatever retries, late failures and
\* second executions do, but for one that read it before its first mark.
THEOREM ReadyStaysFinal == Spec => ReadyIsFinal
<1>1. DriveInv /\ [Next]_vars =>
        [status = "ready" =>
            \/ status' \in {"ready", "deleted"}
            \/ \E e \in Exec : phase[e] = "mark" /\ seen[e] = "created" /\ phase'[e] = "find"]_vars
  BY ReadyStep
<1> QED
  BY <1>1, DriveInit, DriveStep, PTL DEF Spec, ReadyIsFinal

----------------------------------------------------------------------------
(***************************************************************************)
(* Lemmas about the sequence of finished directories.                      *)
(***************************************************************************)

\* A sequence without its i-th element.
LEMMA Removed ==
    ASSUME NEW S, NEW s \in Seq(S), NEW i \in DOMAIN s
    PROVE  /\ RemoveAt(s, i) \in Seq(S)
           /\ Len(RemoveAt(s, i)) = Len(s) - 1
           /\ \A k \in 1 .. Len(s) - 1 : RemoveAt(s, i)[k] = s[IF k < i THEN k ELSE k + 1]
<1> DEFINE a == SubSeq(s, 1, i - 1)
           b == SubSeq(s, i + 1, Len(s))
<1>1. /\ i \in 1 .. Len(s) /\ Len(s) \in Nat
      /\ \A k \in 1 .. Len(s) : s[k] \in S
  OBVIOUS
<1>2. a \in Seq(S) /\ Len(a) = i - 1 /\ \A k \in 1 .. i - 1 : a[k] = s[k]
  BY <1>1
<1>3. b \in Seq(S) /\ Len(b) = Len(s) - i /\ \A k \in 1 .. Len(s) - i : b[k] = s[k + i]
  BY <1>1
<1> HIDE DEF a, b
<1>4. /\ a \o b \in Seq(S) /\ Len(a \o b) = Len(s) - 1
      /\ \A k \in 1 .. Len(s) - 1 : (a \o b)[k] = IF k < i THEN a[k] ELSE b[k - (i - 1)]
  <2>1. /\ a \o b \in Seq(S) /\ Len(a \o b) = Len(a) + Len(b)
        /\ \A k \in 1 .. Len(a) + Len(b) :
              (a \o b)[k] = IF k <= Len(a) THEN a[k] ELSE b[k - Len(a)]
    BY <1>2, <1>3, ConcatProperties
  <2>3. Len(a) = i - 1 /\ Len(b) = Len(s) - i
    BY <1>2, <1>3
  <2>4. Len(a \o b) = Len(s) - 1 /\ Len(a) + Len(b) = Len(s) - 1
    BY <1>1, <2>1, <2>3
  <2>5. ASSUME NEW k \in 1 .. Len(s) - 1
        PROVE  (a \o b)[k] = IF k < i THEN a[k] ELSE b[k - (i - 1)]
    <3>1. k \in Int /\ i \in Int /\ (k <= Len(a) <=> k < i)
      BY <1>1, <2>3
    <3> QED
      BY <2>1, <2>3, <2>4, <3>1
  <2> QED
    BY <2>1, <2>4, <2>5
<1>5. \A k \in 1 .. Len(s) - 1 : (a \o b)[k] = s[IF k < i THEN k ELSE k + 1]
  <2> TAKE k \in 1 .. Len(s) - 1
  <2>1. CASE k < i
    BY <1>1, <1>2, <1>4, <2>1
  <2>2. CASE ~(k < i)
    <3>1. k - (i - 1) \in 1 .. Len(s) - i /\ k - (i - 1) + i = k + 1
      BY <1>1, <2>2
    <3> QED
      BY <1>3, <1>4, <2>2, <3>1
  <2> QED
    BY <2>1, <2>2
<1>6. RemoveAt(s, i) = a \o b
  BY DEF RemoveAt, a, b
<1> QED
  BY <1>4, <1>5, <1>6

\* A directory that is removed is gone, and the others stay.
LEMMA FinishedButIsRight ==
    ASSUME finished \in Seq(Exec), IsInjective(finished), NEW d
    PROVE  /\ FinishedBut(d) \in Seq(Exec) /\ IsInjective(FinishedBut(d))
           /\ ToSet(FinishedBut(d)) = ToSet(finished) \ {d}
<1>1. CASE ~HasDir(d)
  BY <1>1 DEF FinishedBut, HasDir
<1>2. CASE HasDir(d)
  <2> DEFINE i == CHOOSE k \in DOMAIN finished : finished[k] = d
             rest == RemoveAt(finished, i)
  <2>1. i \in DOMAIN finished /\ finished[i] = d
    BY <1>2 DEF HasDir, ToSet
  <2>2. FinishedBut(d) = rest
    BY <1>2 DEF FinishedBut
  <2> HIDE DEF i
  <2>3. /\ rest \in Seq(Exec) /\ Len(rest) = Len(finished) - 1
        /\ \A k \in 1 .. Len(finished) - 1 : rest[k] = finished[IF k < i THEN k ELSE k + 1]
    BY <2>1, Removed
  <2> HIDE DEF rest
  <2>4. /\ DOMAIN finished = 1 .. Len(finished) /\ Len(finished) \in Nat
        /\ DOMAIN rest = 1 .. Len(finished) - 1
        /\ i \in 1 .. Len(finished)
    BY <2>1, <2>3
  <2>5. \A j, k \in 1 .. Len(finished) : finished[j] = finished[k] => j = k
    BY <2>4 DEF IsInjective
  <2>6. ASSUME NEW j \in 1 .. Len(finished) - 1, NEW k \in 1 .. Len(finished) - 1, rest[j] = rest[k]
        PROVE  j = k
    <3>1. (IF j < i THEN j ELSE j + 1) = (IF k < i THEN k ELSE k + 1)
      BY <2>3, <2>4, <2>5, <2>6
    <3> QED
      BY <2>4, <3>1
  <2>7. IsInjective(rest)
    BY <2>4, <2>6 DEF IsInjective
  <2>8. ASSUME NEW k \in 1 .. Len(finished) - 1
        PROVE  rest[k] \in ToSet(finished) \ {d}
    <3>1. (IF k < i THEN k ELSE k + 1) \in 1 .. Len(finished) /\ (IF k < i THEN k ELSE k + 1) # i
      BY <2>4
    <3> QED
      BY <2>1, <2>3, <2>4, <2>5, <3>1 DEF ToSet
  <2>9. ASSUME NEW j \in 1 .. Len(finished), finished[j] # d
        PROVE  \E k \in 1 .. Len(finished) - 1 : rest[k] = finished[j]
    <3>1. CASE j < i
      <4>1. j \in 1 .. Len(finished) - 1 /\ rest[j] = finished[j]
        BY <2>3, <2>4, <3>1
      <4> QED
        BY <4>1
    <3>2. CASE ~(j < i)
      <4>1. j # i
        BY <2>1, <2>9
      <4>2. j - 1 \in 1 .. Len(finished) - 1 /\ rest[j - 1] = finished[j]
        BY <2>3, <2>4, <3>2, <4>1
      <4> QED
        BY <4>2
    <3> QED
      BY <3>1, <3>2
  <2>10. ToSet(rest) = ToSet(finished) \ {d}
    <3>1. ToSet(rest) \subseteq ToSet(finished) \ {d}
      BY <2>4, <2>8 DEF ToSet
    <3>2. ToSet(finished) \ {d} \subseteq ToSet(rest)
      <4> SUFFICES ASSUME NEW x \in ToSet(finished), x # d PROVE x \in ToSet(rest)
        OBVIOUS
      <4>1. PICK j \in 1 .. Len(finished) : finished[j] = x
        BY <2>4 DEF ToSet
      <4>2. PICK k \in 1 .. Len(finished) - 1 : rest[k] = x
        BY <2>9, <4>1
      <4> QED
        BY <2>4, <4>2 DEF ToSet
    <3> QED
      BY <3>1, <3>2
  <2> QED
    BY <2>2, <2>3, <2>7, <2>10
<1> QED
  BY <1>1, <1>2

----------------------------------------------------------------------------
(***************************************************************************)
(* The inductive invariant behind TypeOK, FailedCanRetry and               *)
(* UploadHasOutput.                                                        *)
(***************************************************************************)

\* A directory is being written or has its marker.
DiskTypes ==
    /\ source \in BOOLEAN
    /\ writing \subseteq Exec \cup {Litter}
    /\ finished \in Seq(Exec) /\ IsInjective(finished)
    /\ writing \cap ToSet(finished) = {}

\* A job that is not over has a try left, and only an active one is locked.
JobFits(r) ==
    /\ job[r].tries \in 0 .. Attempts /\ job[r].stalls \in 0 .. Stalls + 1
    /\ job[r].state # "ended" => job[r].tries < Attempts /\ job[r].stalls <= Stalls
    /\ job[r].lock # None => job[r].state = "active"

UploadFits(r) ==
    /\ upload[r].tries \in 0 .. Attempts
    /\ upload[r].state # "ended" => upload[r].tries < Attempts
    /\ upload[r].dir \in Exec \cup {None}

FinalizeFits(r) ==
    /\ finalize[r].tries \in 0 .. Attempts
    /\ finalize[r].state # "ended" => finalize[r].tries < Attempts

RowsFit == \A r \in Runs : JobFits(r) /\ UploadFits(r) /\ FinalizeFits(r)

\* What an execution and a retry hold, and the rest.
LocalTypes ==
    /\ out \in [Exec -> Exec \cup {None}]
    /\ retry \in {"none", "source"} \cup Exec
    /\ winner \in Runs \cup {0}
    /\ sweeping \in BOOLEAN
    /\ faults \in 0 .. MaxFaults
    /\ lost \subseteq {"failure", "claim", "mark"}

\* An execution that writes goes on with what it writes.
OwnDir == \A e \in Exec : phase[e] \in {"ffmpeg", "thumbs"} => out[e] = e

\* A claim starts a run after the first.
ClaimIsLater == claimed => run > 1

\* No mark was late.
NoLateMark == "mark" \notin lost

\* Whatever removes the source does so for an asset that is done for good.
SourceIsKept ==
    NoLateMark /\ (~source \/ sweeping \/ \E r \in Runs : finalize[r].state \in {"clean", "source"})
        => status \in {"ready", "deleted"}

\* An execution that drops its output found its run over, and it stays so.
DropEnds ==
    NoLateMark =>
        \A e \in Exec : phase[e] = "drop" /\ runOf[e] = run =>
            status \notin {"created", "processing"}

\* The first run goes on.
FirstRun == run = 1 /\ NoLateMark /\ status = "processing"

\* The upload of the first run has its directory, and so has an execution that
\* is about to add it.
FirstOutput ==
    FirstRun =>
        /\ upload[1].state # "none" => HasDir(upload[1].dir)
        /\ upload[1].state = "none" =>
            \A e \in Exec : phase[e] \in {"check", "add"} => HasDir(out[e])

OutputTypes == DiskTypes /\ RowsFit /\ LocalTypes
OutputParts == OwnDir /\ ClaimIsLater /\ SourceIsKept /\ DropEnds /\ FirstOutput

RunInv == DriveInv /\ OutputTypes /\ OutputParts

----------------------------------------------------------------------------
(***************************************************************************)
(* The files.                                                              *)
(***************************************************************************)

\* No execution is called as the words that stand for none of them.
LEMMA Names == None \notin Exec /\ Litter \notin Exec /\ "source" \notin Exec
BY PipelineAssumption DEF None, Litter

\* The newest finished directory is one of them.
LEMMA CompletedIsFinished ==
    ASSUME finished \in Seq(Exec), finished # <<>>
    PROVE  Completed \in Exec /\ HasDir(Completed)
<1>1. Len(finished) \in DOMAIN finished /\ Completed = finished[Len(finished)]
  BY DEF Completed, Last
<1> QED
  BY <1>1 DEF HasDir, ToSet

\* A directory that gets its marker is the newest of them.
LEMMA AppendIsRight ==
    ASSUME finished \in Seq(Exec), IsInjective(finished), NEW d \in Exec, ~HasDir(d)
    PROVE  /\ Append(finished, d) \in Seq(Exec) /\ IsInjective(Append(finished, d))
           /\ ToSet(Append(finished, d)) = ToSet(finished) \cup {d}
<1> DEFINE more == Append(finished, d)
           n == Len(finished)
<1>1. /\ n \in Nat /\ DOMAIN finished = 1 .. n
      /\ more \in Seq(Exec) /\ DOMAIN more = 1 .. n + 1
      /\ more[n + 1] = d /\ \A k \in 1 .. n : more[k] = finished[k]
  BY AppendProperties
<1> HIDE DEF more, n
<1>2. \A k \in 1 .. n : more[k] # d
  BY <1>1 DEF HasDir, ToSet
<1>3. IsInjective(more)
  BY <1>1, <1>2 DEF IsInjective
<1>4. ToSet(more) = ToSet(finished) \cup {d}
  BY <1>1 DEF ToSet
<1> QED
  BY <1>1, <1>3, <1>4 DEF more

\* Nothing is finished where the output was removed.
LEMMA NothingFinished == <<>> \in Seq(Exec) /\ IsInjective(<<>>) /\ ToSet(<<>>) = {}
<1>1. DOMAIN <<>> = {}
  OBVIOUS
<1> QED
  BY <1>1 DEF IsInjective, ToSet

\* What a step does to the run directories.
DiskMoves ==
    \/ UNCHANGED <<writing, finished>>
    \/ RemoveOutput
    \/ UNCHANGED finished /\ writing' \subseteq writing \cup {Litter}
    \/ \E e \in Exec : finished = <<>> /\ UNCHANGED finished /\ writing' = writing \cup {e}
    \/ \E e \in Exec : e \in writing /\ writing' = writing \ {e} /\ finished' = Append(finished, e)
    \/ \E d : finished' = FinishedBut(d) /\ writing' \subseteq writing

\* The steps of an execution do that.
LEMMA StageMoves ==
    ASSUME NEW e \in Exec, TranscodeStep(e)
    PROVE  DiskMoves /\ UNCHANGED source
<1>1. CASE (\E r \in Runs : Start(e, r)) \/ Look(e) \/ Mark(e) \/ Probe(e) \/ Check(e) \/ Add(e)
           \/ Stall(e)
  BY <1>1 DEF Start, Look, Mark, Probe, Check, Add, Stall, diskVars, DiskMoves
<1>2. CASE Read(e) \/ Find(e) \/ WriteMarker(e)
  BY <1>2 DEF Read, Find, WriteMarker, DiskMoves
<1>3. CASE Drop(e) \/ Compare(e)
  BY <1>3 DEF Drop, Compare, RemoveFinished, DiskMoves
<1>4. CASE StageFails(e) \/ Crash(e)
  BY <1>4 DEF StageFails, Crash, LeaveDir, DiskMoves
<1> QED
  BY <1>1, <1>2, <1>3, <1>4 DEF TranscodeStep, StageStep

\* And every step does.
LEMMA DiskSteps ==
    ASSUME DiskTypes, [Next]_vars
    PROVE  DiskTypes'
<1>1. DiskMoves /\ source' \in {source, FALSE}
  <2>1. CASE UNCHANGED vars
    BY <2>1 DEF vars, diskVars, DiskMoves
  <2>2. ASSUME NEW e \in Exec, TranscodeStep(e) PROVE DiskMoves /\ UNCHANGED source
    BY <2>2, StageMoves
  <2>3. ASSUME NEW r \in Runs, LaterStages(r) \/ WorkerDies(r)
        PROVE  DiskMoves /\ source' \in {source, FALSE}
    BY <2>3 DEF LaterStages, WorkerDies, UploadStart, UploadRead, UploadStops, HandOff,
      UploadFails, Finalize, CleanOutput, CleanSource, FinalizeFails, diskVars, DiskMoves
  <2>4. ASSUME NEW f \in Failures, RecordFailure(f) \/ LoseFailure(f)
        PROVE  DiskMoves /\ UNCHANGED source
    BY <2>4 DEF RecordFailure, LoseFailure, diskVars, DiskMoves
  <2>5. CASE RetryStep
    BY <2>5 DEF RetryStep, RetryCheck, RetryClaim, RetryQueue, RetryFails, RetryDies,
      diskVars, DiskMoves
  <2>6. CASE SoftDelete \/ DeleteFiles \/ SweepLooks \/ SweepRemoves
    BY <2>6 DEF SoftDelete, DeleteFiles, SweepLooks, SweepRemoves, diskVars, DiskMoves
  <2> QED
    BY <2>1, <2>2, <2>3, <2>4, <2>5, <2>6 DEF Next
<1> USE DEF DiskTypes
<1>2. source' \in BOOLEAN
  BY <1>1
<1>3. CASE UNCHANGED <<writing, finished>>
  BY <1>2, <1>3
<1>4. CASE RemoveOutput
  BY <1>2, <1>4, NothingFinished DEF RemoveOutput
<1>5. CASE UNCHANGED finished /\ writing' \subseteq writing \cup {Litter}
  <2>1. Litter \notin ToSet(finished)
    BY Names DEF ToSet
  <2> QED
    BY <1>2, <1>5, <2>1
<1>6. ASSUME NEW e \in Exec, finished = <<>>, UNCHANGED finished, writing' = writing \cup {e}
      PROVE  DiskTypes'
  BY <1>2, <1>6, NothingFinished
<1>7. ASSUME NEW e \in Exec, e \in writing, writing' = writing \ {e}, finished' = Append(finished, e)
      PROVE  DiskTypes'
  <2>1. ~HasDir(e)
    BY <1>7 DEF HasDir
  <2> QED
    BY <1>2, <1>7, <2>1, AppendIsRight
<1>8. ASSUME NEW d, finished' = FinishedBut(d), writing' \subseteq writing
      PROVE  DiskTypes'
  BY <1>2, <1>8, FinishedButIsRight
<1> QED
  BY <1>1, <1>3, <1>4, <1>5, <1>6, <1>7, <1>8 DEF DiskMoves

----------------------------------------------------------------------------
(***************************************************************************)
(* The jobs.                                                               *)
(***************************************************************************)

\* What a step does to the transcode jobs.
JobMoves ==
    \/ UNCHANGED job
    \/ \E e \in Exec : JobEnds(e)
    \/ \E e \in Exec, again \in BOOLEAN :
        Holds(e) /\ (again => TriesLeft(e)) /\ TryAgain(runOf[e], again, "tries")
    \/ \E e \in Exec : Holds(e) /\ LoseJob(e)
    \/ \E e \in Exec, r \in Runs :
        job[r].state = "waiting" /\ job' = [job EXCEPT ![r].state = "active", ![r].lock = e]
    \/ Blank(run) /\ job' = [job EXCEPT ![run].state = "waiting"]

\* Every step does one of these to the jobs.
LEMMA JobSteps ==
    ASSUME DriveInv, [Next]_vars
    PROVE  JobMoves
<1>1. CASE UNCHANGED vars
  BY <1>1 DEF vars, queueVars, JobMoves
<1>2. ASSUME NEW e \in Exec, TranscodeStep(e) PROVE JobMoves
  <2>1. CASE \E r \in Runs : Start(e, r)
    BY <2>1 DEF Start, JobMoves
  <2>2. CASE CompleteStep(e)
    BY <2>2 DEF CompleteStep, Read, Look, Drop, Compare, Complete, JobMoves
  <2>3. ASSUME NEW again \in BOOLEAN, again => TriesLeft(e), Throw(e, again) PROVE JobMoves
    BY <2>3 DEF Throw, JobMoves
  <2>4. CASE Find(e) \/ StageFails(e)
    <3>1. TriesLeft(e) \in BOOLEAN
      BY DEF TriesLeft
    <3>2. \/ UNCHANGED job
          \/ \E again \in BOOLEAN : (again => TriesLeft(e)) /\ Throw(e, again)
      BY <2>4, <3>1 DEF Find, StageFails
    <3> QED
      BY <2>3, <3>2 DEF JobMoves
  <2>5. CASE Crash(e) \/ Stall(e)
    BY <2>5 DEF Crash, Stall, JobMoves
  <2>6. CASE Read(e) \/ Look(e)
    BY <2>6 DEF Read, Look, Complete, JobMoves
  <2>7. CASE Mark(e) \/ Probe(e) \/ WriteMarker(e) \/ Check(e) \/ Add(e)
    BY <2>7 DEF Mark, Probe, WriteMarker, Check, Add, queueVars, JobMoves
  <2>8. CASE Drop(e) \/ Compare(e)
    BY <2>2, <2>8 DEF CompleteStep
  <2> QED
    BY <1>2, <2>1, <2>4, <2>5, <2>6, <2>7, <2>8 DEF TranscodeStep, StageStep
<1>3. ASSUME NEW r \in Runs, LaterStages(r) \/ WorkerDies(r) PROVE JobMoves
  BY <1>3 DEF LaterStages, WorkerDies, UploadStart, UploadRead, UploadStops, HandOff,
    UploadFails, Finalize, CleanOutput, CleanSource, FinalizeFails, JobMoves
<1>4. ASSUME NEW f \in Failures, RecordFailure(f) \/ LoseFailure(f) PROVE JobMoves
  BY <1>4 DEF RecordFailure, LoseFailure, queueVars, JobMoves
<1>5. CASE RetryStep
  <2>1. claimed => Blank(run)
    BY DEF DriveInv, DriveTypes, DriveParts, LaterRunsAreBlank
  <2> QED
    BY <1>5, <2>1 DEF RetryStep, RetryCheck, RetryClaim, RetryQueue, RetryFails, RetryDies,
      Enqueue, queueVars, JobMoves
<1>6. CASE SoftDelete \/ DeleteFiles \/ SweepLooks \/ SweepRemoves
  BY <1>6 DEF SoftDelete, DeleteFiles, SweepLooks, SweepRemoves, queueVars, JobMoves
<1> QED
  BY <1>1, <1>2, <1>3, <1>4, <1>5, <1>6 DEF Next

\* The steps keep what the jobs are.
LEMMA JobsStep ==
    ASSUME DriveTypes, \A r \in Runs : JobFits(r), JobMoves, NEW r \in Runs
    PROVE  JobFits(r)'
<1> USE PipelineAssumption
<1>1. /\ job[r].tries \in Nat /\ job[r].stalls \in Nat /\ Attempts \in Nat \ {0} /\ Stalls \in Nat
      /\ JobFits(r) /\ None \notin Exec
  BY Names DEF DriveTypes
<1>2. CASE UNCHANGED job
  BY <1>1, <1>2 DEF JobFits
<1>3. ASSUME NEW e \in Exec, JobEnds(e) PROVE JobFits(r)'
  <2>1. runOf[e] \in Runs
    BY DEF DriveTypes
  <2>2. \/ job'[r] = job[r]
        \/ /\ job'[r].tries = job[r].tries /\ job'[r].stalls = job[r].stalls
           /\ job'[r].state = "ended" /\ job'[r].lock = None
    BY <1>3, <2>1 DEF JobEnds, DriveTypes
  <2> QED
    BY <1>1, <2>2 DEF JobFits
<1>4. ASSUME NEW e \in Exec, NEW again \in BOOLEAN, Holds(e), again => TriesLeft(e),
             TryAgain(runOf[e], again, "tries")
      PROVE  JobFits(r)'
  <2> DEFINE x == runOf[e]
  <2>1. x \in Runs /\ JobFits(x) /\ job[x].state = "active"
    BY <1>1, <1>4 DEF DriveTypes, JobFits, Holds
  <2>2. /\ job'[x].state = (IF again THEN "waiting" ELSE "ended")
        /\ job'[x].tries = job[x].tries + 1
        /\ job'[x].stalls = job[x].stalls /\ job'[x].lock = None
        /\ r # x => job'[r] = job[r]
    BY <1>4, <2>1 DEF TryAgain, DriveTypes
  <2>3. job[x].tries < Attempts /\ (again => job[x].tries + 1 < Attempts)
        /\ job[x].stalls <= Stalls /\ job[x].tries \in Nat /\ job[x].stalls \in Nat
    BY <1>1, <1>4, <2>1 DEF JobFits, TriesLeft, DriveTypes
  <2>4. CASE r = x
    BY <1>1, <2>2, <2>3, <2>4 DEF JobFits
  <2>5. CASE r # x
    BY <1>1, <2>2, <2>5 DEF JobFits
  <2> QED
    BY <2>4, <2>5
<1>5. ASSUME NEW e \in Exec, Holds(e), LoseJob(e) PROVE JobFits(r)'
  <2> DEFINE x == runOf[e]
             again == job[x].stalls < Stalls
  <2>1. x \in Runs /\ JobFits(x) /\ job[x].state = "active"
    BY <1>1, <1>5 DEF DriveTypes, JobFits, Holds
  <2>2. /\ job'[x].state = (IF again THEN "waiting" ELSE "ended")
        /\ job'[x].stalls = job[x].stalls + 1
        /\ job'[x].tries = job[x].tries /\ job'[x].lock = None
        /\ r # x => job'[r] = job[r]
    BY <1>5, <2>1 DEF LoseJob, TryAgain, DriveTypes
  <2>3. job[x].tries < Attempts /\ job[x].stalls <= Stalls
        /\ job[x].tries \in Nat /\ job[x].stalls \in Nat
    BY <1>1, <2>1 DEF JobFits, DriveTypes
  <2>4. CASE r = x
    BY <1>1, <2>2, <2>3, <2>4 DEF JobFits
  <2>5. CASE r # x
    BY <1>1, <2>2, <2>5 DEF JobFits
  <2> QED
    BY <2>4, <2>5
<1>6. ASSUME NEW e \in Exec, NEW x \in Runs, job[x].state = "waiting",
             job' = [job EXCEPT ![x].state = "active", ![x].lock = e]
      PROVE  JobFits(r)'
  <2>1. /\ job'[x].state = "active" /\ job'[x].tries = job[x].tries
        /\ job'[x].stalls = job[x].stalls
        /\ r # x => job'[r] = job[r]
    BY <1>6 DEF DriveTypes
  <2> QED
    BY <1>1, <1>6, <2>1 DEF JobFits
<1>7. CASE Blank(run) /\ job' = [job EXCEPT ![run].state = "waiting"]
  <2>1. /\ run \in Runs
        /\ job'[run].state = "waiting" /\ job'[run].tries = job[run].tries
        /\ job'[run].stalls = job[run].stalls /\ job'[run].lock = job[run].lock
        /\ r # run => job'[r] = job[r]
    BY <1>7 DEF DriveTypes
  <2>2. job[run].lock = None
    BY <1>7, <2>1 DEF JobFits, Blank
  <2> QED
    BY <1>1, <1>7, <2>1, <2>2 DEF JobFits, Blank
<1> QED
  BY <1>2, <1>3, <1>4, <1>5, <1>6, <1>7 DEF JobMoves

\* What a step does to the uploads.
UploadChanges ==
    \/ UNCHANGED upload
    \/ \E e \in Exec : phase[e] = "add" /\ AddUpload(runOf[e], out[e])
    \/ claimed /\ AddUpload(run, retry) /\ retry \notin {"none", "source"}
    \/ \E r \in Runs, s \in UploadStates :
        upload[r].state \in {"waiting", "active", "read"} /\ SetUpload(r, s)
    \/ \E r \in Runs : UploadFails(r)

\* And to finalize.
FinalizeChanges ==
    \/ UNCHANGED finalize
    \/ \E r \in Runs : AddFinalize(r)
    \/ \E r \in Runs, s \in FinalizeStates :
        finalize[r].state \in {"waiting", "clean", "source"} /\ SetFinalize(r, s)
    \/ \E r \in Runs : FinalizeFails(r)

\* Every step does one of these to them.
LEMMA LaterSteps ==
    ASSUME DriveInv, [Next]_vars
    PROVE  UploadChanges /\ FinalizeChanges
<1> USE DEF UploadStates, FinalizeStates
<1>1. CASE UNCHANGED vars
  BY <1>1 DEF vars, queueVars, UploadChanges, FinalizeChanges
<1>2. ASSUME NEW e \in Exec, TranscodeStep(e) PROVE UploadChanges /\ FinalizeChanges
  <2>1. UNCHANGED finalize
    BY <1>2 DEF TranscodeStep, StageStep, Start, Read, Look, Mark, Find, Probe, WriteMarker,
      Check, Drop, Add, Compare, StageFails, Stall, Crash, queueVars
  <2>2. UNCHANGED upload \/ (phase[e] = "add" /\ AddUpload(runOf[e], out[e]))
    BY <1>2 DEF TranscodeStep, StageStep, Start, Read, Look, Mark, Find, Probe, WriteMarker,
      Check, Drop, Add, Compare, StageFails, Stall, Crash, queueVars
  <2> QED
    BY <2>1, <2>2 DEF UploadChanges, FinalizeChanges
<1>3. ASSUME NEW r \in Runs, LaterStages(r) \/ WorkerDies(r)
      PROVE  UploadChanges /\ FinalizeChanges
  <2>1. UploadChanges
    BY <1>3 DEF LaterStages, WorkerDies, UploadStart, UploadRead, UploadStops, HandOff,
      Finalize, CleanOutput, CleanSource, FinalizeFails, UploadChanges
  <2>2. FinalizeChanges
    BY <1>3 DEF LaterStages, WorkerDies, UploadStart, UploadRead, UploadStops, HandOff,
      UploadFails, Finalize, CleanOutput, CleanSource, FinalizeChanges
  <2> QED
    BY <2>1, <2>2
<1>4. ASSUME NEW f \in Failures, RecordFailure(f) \/ LoseFailure(f)
      PROVE  UploadChanges /\ FinalizeChanges
  BY <1>4 DEF RecordFailure, LoseFailure, queueVars, UploadChanges, FinalizeChanges
<1>5. CASE RetryStep
  <2>1. claimed => retry # "none"
    BY DEF DriveInv, DriveParts, ClaimFits
  <2> QED
    BY <1>5, <2>1 DEF RetryStep, RetryCheck, RetryClaim, RetryQueue, RetryFails, RetryDies,
      Enqueue, queueVars, UploadChanges, FinalizeChanges
<1>6. CASE SoftDelete \/ DeleteFiles \/ SweepLooks \/ SweepRemoves
  BY <1>6 DEF SoftDelete, DeleteFiles, SweepLooks, SweepRemoves, queueVars, UploadChanges,
    FinalizeChanges
<1> QED
  BY <1>1, <1>2, <1>3, <1>4, <1>5, <1>6 DEF Next

\* An upload that is added reads a directory.
LEMMA AddUploadFits ==
    ASSUME UploadRows, \A x \in Runs : UploadFits(x), NEW x \in Runs,
           NEW d \in Exec \cup {None}, AddUpload(x, d), NEW r \in Runs
    PROVE  UploadFits(r)'
<1>1. PICK D : upload \in [Runs -> [state : UploadStates, tries : Nat, dir : D]]
  BY DEF UploadRows
<1>2. \/ upload'[r] = upload[r]
      \/ upload'[r] = [state |-> "waiting", tries |-> 0, dir |-> d]
  BY <1>1 DEF AddUpload
<1> QED
  BY <1>2, PipelineAssumption DEF UploadFits

\* The steps keep what the uploads are.
LEMMA UploadsStep ==
    ASSUME DriveTypes, LocalTypes, \A x \in Runs : UploadFits(x), UploadChanges, NEW r \in Runs
    PROVE  UploadFits(r)'
<1>1. PICK D : upload \in [Runs -> [state : UploadStates, tries : Nat, dir : D]]
  BY DEF DriveTypes, UploadRows
<1>2. CASE UNCHANGED upload
  BY <1>2 DEF UploadFits
<1>3. ASSUME NEW e \in Exec, AddUpload(runOf[e], out[e]) PROVE UploadFits(r)'
  BY <1>3, AddUploadFits DEF DriveTypes, LocalTypes
<1>4. CASE AddUpload(run, retry) /\ retry \notin {"none", "source"}
  BY <1>4, AddUploadFits DEF DriveTypes, LocalTypes
<1>5. ASSUME NEW x \in Runs, NEW s \in UploadStates,
             upload[x].state \in {"waiting", "active", "read"}, SetUpload(x, s)
      PROVE  UploadFits(r)'
  <2>1. /\ upload'[r].tries = upload[r].tries /\ upload'[r].dir = upload[r].dir
        /\ r # x => upload'[r].state = upload[r].state
    BY <1>1, <1>5 DEF SetUpload
  <2> QED
    BY <1>5, <2>1 DEF UploadFits
<1>6. ASSUME NEW x \in Runs, UploadFails(x) PROVE UploadFits(r)'
  <2> DEFINE again == upload[x].tries + 1 < Attempts
  <2>1. /\ upload' = [upload EXCEPT ![x].state = IF again THEN "waiting" ELSE "ended",
                                    ![x].tries = @ + 1]
        /\ upload[x].state \in {"active", "read"}
    BY <1>6 DEF UploadFails
  <2>2. /\ upload'[r].dir = upload[r].dir
        /\ r # x => upload'[r] = upload[r]
        /\ upload'[x].tries = upload[x].tries + 1
        /\ upload'[x].state = IF again THEN "waiting" ELSE "ended"
    BY <1>1, <2>1
  <2>3. upload[x].tries \in Nat /\ upload[x].tries < Attempts /\ Attempts \in Nat
    BY <1>1, <2>1, PipelineAssumption DEF UploadFits
  <2> QED
    BY <2>2, <2>3 DEF UploadFits
<1> QED
  BY <1>2, <1>3, <1>4, <1>5, <1>6 DEF UploadChanges

\* And what finalize is.
LEMMA FinalizesStep ==
    ASSUME DriveTypes, \A x \in Runs : FinalizeFits(x), FinalizeChanges, NEW r \in Runs
    PROVE  FinalizeFits(r)'
<1>1. finalize \in [Runs -> [state : FinalizeStates, tries : Nat]]
  BY DEF DriveTypes
<1>2. CASE UNCHANGED finalize
  BY <1>2 DEF FinalizeFits
<1>3. ASSUME NEW x \in Runs, AddFinalize(x) PROVE FinalizeFits(r)'
  <2>1. /\ finalize'[r].tries = finalize[r].tries
        /\ finalize'[r].state = finalize[r].state \/ finalize[r].state = "none"
    BY <1>1, <1>3 DEF AddFinalize
  <2> QED
    BY <2>1 DEF FinalizeFits
<1>4. ASSUME NEW x \in Runs, NEW s \in FinalizeStates,
             finalize[x].state \in {"waiting", "clean", "source"}, SetFinalize(x, s)
      PROVE  FinalizeFits(r)'
  <2>1. /\ finalize'[r].tries = finalize[r].tries
        /\ r # x => finalize'[r].state = finalize[r].state
    BY <1>1, <1>4 DEF SetFinalize
  <2> QED
    BY <1>4, <2>1 DEF FinalizeFits
<1>5. ASSUME NEW x \in Runs, FinalizeFails(x) PROVE FinalizeFits(r)'
  <2> DEFINE again == finalize[x].tries + 1 < Attempts
  <2>1. /\ finalize' = [finalize EXCEPT ![x].state = IF again THEN "waiting" ELSE "ended",
                                        ![x].tries = @ + 1]
        /\ finalize[x].state = "waiting"
    BY <1>5 DEF FinalizeFails
  <2>2. /\ r # x => finalize'[r] = finalize[r]
        /\ finalize'[x].tries = finalize[x].tries + 1
        /\ finalize'[x].state = IF again THEN "waiting" ELSE "ended"
    BY <1>1, <2>1
  <2>3. finalize[x].tries \in Nat /\ finalize[x].tries < Attempts /\ Attempts \in Nat
    BY <1>1, <2>1, PipelineAssumption DEF FinalizeFits
  <2> QED
    BY <2>2, <2>3 DEF FinalizeFits
<1> QED
  BY <1>2, <1>3, <1>4, <1>5 DEF FinalizeChanges

----------------------------------------------------------------------------
(***************************************************************************)
(* The executions, the retry and the rest.                                 *)
(***************************************************************************)

\* The steps keep the types of what an execution, a retry and the sweeps hold.
LEMMA LocalsStep ==
    ASSUME DriveInv, DiskTypes, LocalTypes, [Next]_vars
    PROVE  LocalTypes'
<1>1. out' \in [Exec -> Exec \cup {None}]
  <2>1. UNCHANGED out \/ \E e \in Exec, d \in Exec \cup {None} : out' = [out EXCEPT ![e] = d]
    <3>1. ASSUME NEW e \in Exec, TranscodeStep(e)
          PROVE  UNCHANGED out \/ \E d \in Exec \cup {None} : out' = [out EXCEPT ![e] = d]
      <4>1. CASE End(e)
        BY <4>1 DEF End
      <4>2. CASE Find(e) /\ ~End(e)
        BY <4>2, CompletedIsFinished DEF Find, Throw, DiskTypes
      <4>3. CASE ~Find(e) /\ ~End(e)
        BY <3>1, <4>3 DEF TranscodeStep, StageStep, Start, Read, Look, Mark, Probe, WriteMarker,
          Check, Drop, Add, Compare, Complete, StageFails, Throw, Stall, Crash, execVars
      <4> QED
        BY <4>1, <4>2, <4>3
    <3>2. ASSUME NEW r \in Runs, LaterStages(r) \/ WorkerDies(r) PROVE UNCHANGED out
      BY <3>2 DEF LaterStages, WorkerDies, UploadStart, UploadRead, UploadStops, HandOff,
        UploadFails, Finalize, CleanOutput, CleanSource, FinalizeFails, execVars
    <3>3. ASSUME NEW f \in Failures, RecordFailure(f) \/ LoseFailure(f) PROVE UNCHANGED out
      BY <3>3 DEF RecordFailure, LoseFailure, execVars
    <3>4. CASE RetryStep
      BY <3>4 DEF RetryStep, RetryCheck, RetryClaim, RetryQueue, RetryFails, RetryDies, execVars
    <3>5. CASE SoftDelete \/ DeleteFiles \/ SweepLooks \/ SweepRemoves \/ UNCHANGED vars
      BY <3>5 DEF SoftDelete, DeleteFiles, SweepLooks, SweepRemoves, vars, execVars
    <3> QED
      BY <3>1, <3>2, <3>3, <3>4, <3>5 DEF Next
  <2> QED
    BY <2>1 DEF LocalTypes
<1>2. /\ retry' \in {"none", "source"} \cup Exec
      /\ winner' \in Runs \cup {0}
      /\ sweeping' \in BOOLEAN
      /\ UNCHANGED faults \/ Fault
      /\ lost' \subseteq {"failure", "claim", "mark"}
  <2> USE DEF LocalTypes, retryVars, faultVars, NoFault
  <2>1. ASSUME NEW e \in Exec, TranscodeStep(e)
        PROVE  /\ UNCHANGED <<retry, winner, sweeping>>
               /\ UNCHANGED faults \/ Fault
               /\ lost' \subseteq {"failure", "claim", "mark"}
    BY <2>1 DEF TranscodeStep, StageStep, Start, Read, Look, Mark, Find, Probe, WriteMarker,
      Check, Drop, Add, Compare, StageFails, Stall, Crash
  <2>2. ASSUME NEW r \in Runs, LaterStages(r) \/ WorkerDies(r)
        PROVE  /\ UNCHANGED <<retry, sweeping, lost>>
               /\ winner' \in Runs \cup {0}
               /\ UNCHANGED faults \/ Fault
    BY <2>2 DEF LaterStages, WorkerDies, UploadStart, UploadRead, UploadStops, HandOff,
      UploadFails, Finalize, CleanOutput, CleanSource, FinalizeFails
  <2>3. ASSUME NEW f \in Failures, RecordFailure(f) \/ LoseFailure(f)
        PROVE  /\ UNCHANGED <<retry, winner, sweeping>>
               /\ UNCHANGED faults \/ Fault
               /\ lost' \subseteq {"failure", "claim", "mark"}
    BY <2>3 DEF RecordFailure, LoseFailure
  <2>4. CASE RetryStep
    BY <2>4, CompletedIsFinished DEF RetryStep, RetryCheck, RetryClaim, RetryQueue, RetryFails,
      RetryDies, DiskTypes
  <2>5. CASE SoftDelete \/ DeleteFiles \/ SweepLooks \/ SweepRemoves \/ UNCHANGED vars
    BY <2>5 DEF SoftDelete, DeleteFiles, SweepLooks, SweepRemoves, vars
  <2> QED
    BY <2>1, <2>2, <2>3, <2>4, <2>5 DEF Next
<1>3. faults' \in 0 .. MaxFaults
  BY <1>2, PipelineAssumption DEF Fault, LocalTypes
<1> QED
  BY <1>1, <1>2, <1>3 DEF LocalTypes

----------------------------------------------------------------------------
(***************************************************************************)
(* What is kept on disk, and for how long.                                 *)
(***************************************************************************)

\* A step of an execution leaves the others and everything else of an asset
\* alone.
LEMMA StageFrame ==
    ASSUME DriveTypes, LocalTypes, NEW e \in Exec, TranscodeStep(e)
    PROVE  /\ UNCHANGED <<run, source, finalize, claimed, sweeping>>
           /\ \A x \in Exec \ {e} :
                phase'[x] = phase[x] /\ runOf'[x] = runOf[x] /\ out'[x] = out[x]
           /\ Mark(e) \/ UNCHANGED <<status, lost>>
<1> USE DEF DriveTypes, LocalTypes
<1>1. /\ UNCHANGED <<run, source, finalize, claimed, sweeping>>
      /\ Mark(e) \/ UNCHANGED <<status, lost>>
  BY DEF TranscodeStep, StageStep, Start, Read, Look, Mark, Find, Probe, WriteMarker,
    Check, Drop, Add, Compare, StageFails, LeaveDir, Stall, Crash, diskVars, queueVars,
    retryVars, faultVars
<1> DEFINE Frame == \A x \in Exec \ {e} :
                phase'[x] = phase[x] /\ runOf'[x] = runOf[x] /\ out'[x] = out[x]
<1>2. CASE End(e)
  BY <1>1, <1>2 DEF End, Goto
<1>3. CASE ~End(e) /\ (Read(e) \/ Look(e))
  BY <1>1, <1>3 DEF Read, Look, Complete, Goto
<1>4. CASE ~End(e) /\ Find(e)
  BY <1>1, <1>4 DEF Find, Throw, Goto
<1>5. CASE (\E r \in Runs : Start(e, r)) \/ Mark(e) \/ Probe(e) \/ WriteMarker(e) \/ Check(e)
           \/ Add(e) \/ Stall(e)
  BY <1>1, <1>5 DEF Start, Mark, Probe, WriteMarker, Check, Add, Stall, Goto, execVars
<1>6. CASE Drop(e) \/ Compare(e) \/ StageFails(e) \/ Crash(e)
  BY <1>2, <1>6 DEF Drop, Compare, StageFails, Crash, Complete, Throw
<1> QED
  BY <1>2, <1>3, <1>4, <1>5, <1>6 DEF TranscodeStep, StageStep

\* What an execution that goes on does to itself.
LEMMA StageMovesOn ==
    ASSUME DriveTypes, LocalTypes, NEW e \in Exec, TranscodeStep(e), phase'[e] # "new"
    PROVE  /\ runOf'[e] = runOf[e] \/ \E r \in Runs : Start(e, r)
           /\ out'[e] = out[e] \/ Find(e)
           /\ \/ Stall(e) /\ phase'[e] = phase[e]
              \/ phase'[e] \in {"read", "look", "mark", "find", "compare"}
              \/ Find(e) /\ phase'[e] = "check" /\ finished # <<>> /\ out'[e] = Completed
              \/ Find(e) /\ phase'[e] = "ffmpeg" /\ out'[e] = e
              \/ Probe(e) /\ phase'[e] \in {"thumbs", "drop"}
              \/ WriteMarker(e) /\ phase'[e] = "check"
              \/ Check(e) /\ phase'[e] \in {"add", "drop"}
<1> USE DEF DriveTypes, LocalTypes
<1>1. ~End(e)
  BY DEF End, Goto
<1>2. CASE Read(e) \/ Look(e)
  BY <1>1, <1>2 DEF Read, Look, Complete, Goto
<1>3. CASE Find(e)
  BY <1>1, <1>3 DEF Find, Throw, Goto
<1>4. CASE (\E r \in Runs : Start(e, r)) \/ Mark(e) \/ Probe(e) \/ WriteMarker(e) \/ Check(e)
           \/ Add(e) \/ Stall(e)
  BY <1>4 DEF Start, Mark, Probe, WriteMarker, Check, Add, Stall, Goto, execVars
<1>5. ~(Drop(e) \/ Compare(e) \/ StageFails(e) \/ Crash(e))
  BY <1>1 DEF Drop, Compare, StageFails, Crash, Complete, Throw
<1> QED
  BY <1>2, <1>3, <1>4, <1>5 DEF TranscodeStep, StageStep

\* An execution that runs is of a run that was started.
LEMMA RunningIsStarted ==
    ASSUME DriveInv, NEW e \in Exec, Running(e)
    PROVE  runOf[e] \in 1 .. run
<1>1. run \in Runs /\ runOf[e] \in Runs /\ Runs \subseteq Nat \ {0}
  BY PipelineAssumption DEF DriveInv, DriveTypes, Runs
<1>2. ~(runOf[e] > run)
  BY <1>1 DEF DriveInv, DriveParts, LaterRunsAreBlank, Blank
<1>3. run \in Nat /\ runOf[e] \in Nat \ {0}
  BY <1>1
<1> QED
  BY <1>2, <1>3

\* The mark of an asset that is not done keeps what its run needs.
LEMMA MarkKeeps ==
    ASSUME RunInv, NEW e \in Exec, Mark(e)
    PROVE  SourceIsKept' /\ DropEnds' /\ FirstOutput'
<1> USE DEF RunInv, OutputTypes, OutputParts, DriveInv, DriveTypes, LocalTypes
<1>1. /\ UNCHANGED <<run, source, finished, upload, finalize, sweeping, runOf, out>>
      /\ phase[e] = "mark" /\ phase' = [phase EXCEPT ![e] = "find"]
      /\ NoLateMark' => NoLateMark
      /\ NoLateMark' => status' = status \/ (status = "created" /\ status' = "processing")
  BY DEF Mark, SetStatus, Goto, diskVars, queueVars, NoLateMark, Statuses
<1>2. SourceIsKept'
  BY <1>1 DEF SourceIsKept
<1>3. status = "created" =>
        /\ upload[1].state = "none"
        /\ \A x \in Exec : phase[x] \in {"new", "read", "look", "mark"}
  BY PipelineAssumption DEF DriveParts, PastCreation, Runs
<1>4. DropEnds'
  BY <1>1, <1>3 DEF DropEnds
<1>5. FirstOutput'
  BY <1>1, <1>3 DEF FirstOutput, FirstRun, HasDir
<1> QED
  BY <1>2, <1>4, <1>5

\* While the first run goes on, a step of an execution removes nothing that the
\* upload reads.
LEMMA StageKeepsFirst ==
    ASSUME RunInv, NEW e \in Exec, TranscodeStep(e), ~Mark(e)
    PROVE  FirstOutput'
<1> USE DEF RunInv, OutputTypes, OutputParts, DriveInv, DriveTypes
<1> SUFFICES ASSUME FirstRun'
             PROVE  FirstOutput'
  BY DEF FirstOutput
<1>1. FirstRun /\ FirstOutput
  BY StageFrame DEF FirstRun, NoLateMark
<1>2. Running(e) => runOf[e] = 1
  BY <1>1, RunningIsStarted DEF FirstRun, Runs
<1>3. ~Drop(e)
  BY <1>1, <1>2 DEF Drop, DropEnds, FirstRun, Running
<1>4. CASE Compare(e)
  <2>1. /\ phase[e] = "compare" /\ runOf[e] = 1
        /\ upload[1].state # "none" /\ UNCHANGED upload
    BY <1>2, <1>4 DEF Compare, Running, DriveParts, CompareIsLate
  <2>2. \/ UNCHANGED finished
        \/ finished' = FinishedBut(out[e]) /\ upload[1].dir # out[e]
    BY <1>4, <2>1 DEF Compare, RemoveFinished
  <2>3. HasDir(upload[1].dir)'
    BY <1>1, <2>1, <2>2, FinishedButIsRight DEF FirstOutput, HasDir, DiskTypes
  <2> QED
    BY <2>1, <2>3 DEF FirstOutput
<1>5. CASE ~Compare(e)
  <2>1. ToSet(finished) \subseteq ToSet(finished')
    <3>1. UNCHANGED finished \/ WriteMarker(e)
      BY <1>1, <1>3, <1>5 DEF TranscodeStep, StageStep, Start, Read, Look, Mark, Find, Probe,
        Check, Add, StageFails, Stall, Crash, LeaveDir, diskVars, FirstRun
    <3>2. WriteMarker(e) => ToSet(finished') = ToSet(finished) \cup {e}
      BY AppendIsRight DEF WriteMarker, DiskTypes, HasDir
    <3> QED
      BY <3>1, <3>2
  <2>2. \/ UNCHANGED upload
        \/ phase[e] = "add" /\ runOf[e] = 1 /\ AddUpload(1, out[e])
    BY <1>2, <1>5 DEF TranscodeStep, StageStep, Start, Read, Look, Mark, Find, Probe,
      WriteMarker, Check, Drop, Add, StageFails, Stall, Crash, queueVars, Running
  <2>3. 1 \in Runs /\ DOMAIN upload = Runs
    BY PipelineAssumption DEF Runs, UploadRows
  <2>4. upload'[1].state # "none" => upload'[1].dir \in ToSet(finished')
    <3>1. CASE upload[1].state # "none"
      BY <1>1, <2>1, <2>2, <3>1 DEF AddUpload, FirstOutput, HasDir
    <3>2. CASE upload[1].state = "none" /\ upload' # upload
      <4>1. upload'[1].dir = out[e] /\ out[e] \in ToSet(finished)
        BY <1>1, <2>2, <2>3, <3>2 DEF AddUpload, FirstOutput, HasDir
      <4> QED
        BY <2>1, <4>1
    <3> QED
      BY <3>1, <3>2
  <2>5. ASSUME upload'[1].state = "none", NEW x \in Exec, phase'[x] \in {"check", "add"}
        PROVE  out'[x] \in ToSet(finished')
    <3>1. upload[1].state = "none"
      <4>1. CASE UNCHANGED upload
        BY <2>5, <4>1
      <4>2. CASE AddUpload(1, out[e])
        BY <2>3, <2>5, <4>2 DEF AddUpload
      <4> QED
        BY <2>2, <4>1, <4>2
    <3>2. CASE phase[x] \in {"check", "add"} /\ out'[x] = out[x]
      BY <1>1, <2>1, <3>1, <3>2 DEF FirstOutput, HasDir
    <3>3. CASE x # e
      BY <3>2, <3>3, <2>5, StageFrame
    <3>4. CASE x = e
      <4>1. CASE Find(e)
        <5>1. finished # <<>> /\ out'[e] = Completed /\ UNCHANGED finished
          BY <2>5, <3>4, <4>1, StageMovesOn DEF Find, Stall, Probe, WriteMarker, Check
        <5> QED
          BY <3>4, <5>1, CompletedIsFinished, <2>1 DEF DiskTypes, HasDir
      <4>2. CASE WriteMarker(e)
        <5>1. ToSet(finished') = ToSet(finished) \cup {e} /\ out'[e] = e
          BY <4>2, AppendIsRight DEF WriteMarker, DiskTypes, HasDir, OwnDir
        <5> QED
          BY <3>4, <5>1
      <4>3. CASE ~Find(e) /\ ~WriteMarker(e)
        <5>1. phase[e] \in {"check", "add"} /\ out'[e] = out[e]
          BY <2>5, <3>4, <4>3, StageMovesOn DEF Check
        <5> QED
          BY <3>2, <3>4, <5>1
      <4> QED
        BY <4>1, <4>2, <4>3
    <3> QED
      BY <3>3, <3>4
  <2> QED
    BY <2>4, <2>5 DEF FirstOutput, HasDir
<1> QED
  BY <1>4, <1>5

\* The steps of an execution.
LEMMA StageKeeps ==
    ASSUME RunInv, NEW e \in Exec, TranscodeStep(e)
    PROVE  OutputParts'
<1> USE DEF RunInv, OutputTypes, OutputParts, DriveInv
<1>1. ClaimIsLater'
  BY StageFrame DEF ClaimIsLater
<1>2. OwnDir'
  <2> SUFFICES ASSUME NEW x \in Exec, phase'[x] \in {"ffmpeg", "thumbs"}
               PROVE  out'[x] = x
    BY DEF OwnDir
  <2>1. CASE x # e
    BY <2>1, StageFrame DEF OwnDir
  <2>2. CASE x = e
    BY <2>2, StageMovesOn DEF OwnDir, Probe, Stall, Find, WriteMarker, Check
  <2> QED
    BY <2>1, <2>2
<1>3. CASE Mark(e)
  BY <1>1, <1>2, <1>3, MarkKeeps
<1>4. CASE ~Mark(e)
  <2>1. UNCHANGED <<run, source, finalize, sweeping, status, lost>>
    BY <1>4, StageFrame
  <2>2. SourceIsKept'
    BY <2>1 DEF SourceIsKept, NoLateMark
  <2>3. DropEnds'
    <3> SUFFICES ASSUME NoLateMark, NEW x \in Exec, phase'[x] = "drop", runOf'[x] = run
                 PROVE  status \notin {"created", "processing"}
      BY <2>1 DEF DropEnds, NoLateMark
    <3>1. CASE x # e
      BY <3>1, StageFrame DEF DropEnds
    <3>2. CASE x = e
      <4>1. \/ Stall(e) /\ phase[e] = "drop" /\ runOf[e] = run
            \/ phase[e] = "ffmpeg" /\ status # "processing"
            \/ phase[e] = "check" /\ status # "processing"
        BY <3>2, StageMovesOn DEF Probe, Check, Goto, Stall, execVars, DriveTypes
      <4> QED
        BY <4>1 DEF DropEnds, DriveParts, PastCreation
    <3> QED
      BY <3>1, <3>2
  <2> QED
    BY <1>1, <1>2, <1>4, <2>2, <2>3, StageKeepsFirst
<1> QED
  BY <1>3, <1>4

\* What the first run needs stays when nothing of it is taken away.
LEMMA FirstStays ==
    ASSUME RunInv, UNCHANGED <<phase, out>>,
           FirstRun' =>
               /\ FirstRun
               /\ UNCHANGED finished
               /\ upload'[1].dir = upload[1].dir
               /\ upload[1].state = "none" <=> upload'[1].state = "none"
    PROVE  FirstOutput'
BY DEF RunInv, OutputParts, FirstOutput, HasDir

\* The steps of the upload and of finalize, and the deaths of their processes.
LEMMA LaterKeepsOutput ==
    ASSUME RunInv, DriveTypes', NEW r \in Runs, LaterStages(r) \/ WorkerDies(r)
    PROVE  OutputParts'
<1> USE DEF RunInv, OutputTypes, OutputParts
<1>1. LaterFrame(r) /\ LaterMoves(r)
  BY UploadIsLater, FinalizeIsLater DEF LaterStages
<1>2. UNCHANGED <<run, phase, runOf, out, claimed, sweeping, lost>>
  BY <1>1 DEF LaterFrame, LaterStages, WorkerDies, UploadStart, UploadRead, UploadStops,
    HandOff, UploadFails, Finalize, CleanOutput, CleanSource, FinalizeFails, execVars, retryVars
<1>3. OwnDir' /\ ClaimIsLater' /\ DropEnds'
  BY <1>1, <1>2 DEF OwnDir, ClaimIsLater, DropEnds, NoLateMark, LaterMoves
<1>4. SourceIsKept'
  <2>1. \/ source' = source
        \/ finalize[r].state = "source"
    BY DEF LaterStages, WorkerDies, UploadStart, UploadRead, UploadStops, HandOff, UploadFails,
      Finalize, CleanOutput, CleanSource, FinalizeFails, diskVars
  <2>2. \A x \in Runs : finalize'[x].state \in {"clean", "source"} =>
            finalize[x].state \in {"clean", "source"} \/ status' = "ready"
    <3> DEFINE Goes(x) ==
            finalize'[x].state \in {"clean", "source"} =>
                finalize[x].state \in {"clean", "source"} \/ status' = "ready"
    <3> SUFFICES ASSUME NEW x \in Runs PROVE Goes(x)
      OBVIOUS
    <3>1. CASE UNCHANGED finalize
      BY <3>1
    <3>2. finalize \in [Runs -> [state : FinalizeStates, tries : Nat]]
      BY DEF DriveInv, DriveTypes
    <3>3. ASSUME NEW s, SetFinalize(r, s),
                 s \in {"clean", "source"} => finalize[r].state = "clean" \/ status' = "ready"
          PROVE  Goes(x)
      BY <3>2, <3>3 DEF SetFinalize
    <3>4. CASE AddFinalize(r) \/ FinalizeFails(r)
      BY <3>2, <3>4 DEF AddFinalize, FinalizeFails
    <3>5. CASE CleanOutput(r) \/ CleanSource(r) \/ Finalize(r) \/ SetFinalize(r, "waiting")
      BY <3>3, <3>5 DEF CleanOutput, CleanSource, Finalize
    <3> QED
      BY <3>1, <3>4, <3>5 DEF LaterStages, WorkerDies, UploadStart, UploadRead, UploadStops,
        HandOff, UploadFails
  <2> QED
    BY <1>1, <1>2, <2>1, <2>2 DEF LaterMoves, SourceIsKept, NoLateMark
<1>5. FirstOutput'
  <2>1. FirstRun' => FirstRun
    BY <1>1, <1>2 DEF LaterMoves, FirstRun, NoLateMark
  <2>2. FirstRun /\ FirstRun' => UNCHANGED finished
    <3>1. FirstRun => \A x \in Runs : finalize[x].state \notin {"clean", "source"}
      BY DEF FirstRun, SourceIsKept
    <3> QED
      BY <3>1 DEF FirstRun, LaterStages, WorkerDies, UploadStart, UploadRead, UploadStops, HandOff,
        UploadFails, Finalize, CleanOutput, CleanSource, FinalizeFails, diskVars
  <2>3. 1 \in Runs /\ (upload[1].state = "none" <=> upload'[1].state = "none")
    BY <1>1, PipelineAssumption DEF LaterFrame, LaterMoves, Runs
  <2>4. upload'[1].dir = upload[1].dir
    <3>1. CASE UNCHANGED upload
      BY <3>1
    <3>2. PICK D : upload \in [Runs -> [state : UploadStates, tries : Nat, dir : D]]
      BY DEF DriveInv, DriveTypes, UploadRows
    <3>3. ASSUME NEW s, SetUpload(r, s) PROVE upload'[1].dir = upload[1].dir
      BY <2>3, <3>2, <3>3 DEF SetUpload
    <3>4. CASE UploadFails(r)
      BY <2>3, <3>2, <3>4 DEF UploadFails
    <3> QED
      BY <3>1, <3>3, <3>4 DEF LaterStages, WorkerDies, UploadStart, UploadRead, UploadStops,
        HandOff, Finalize, CleanOutput, CleanSource, FinalizeFails
  <2> QED
    BY <1>2, <2>1, <2>2, <2>3, <2>4, FirstStays
<1> QED
  BY <1>3, <1>4, <1>5

\* The failures, the retries, the deletion and the sweeps.
LEMMA RestKeepsOutput ==
    ASSUME RunInv,
           \/ \E f \in Failures : RecordFailure(f) \/ LoseFailure(f)
           \/ RetryStep
           \/ SoftDelete \/ DeleteFiles \/ SweepLooks \/ SweepRemoves
           \/ UNCHANGED vars
    PROVE  OutputParts'
<1> USE DEF RunInv, OutputTypes, OutputParts
<1>1. UNCHANGED <<phase, runOf, out, finalize>>
  BY DEF RecordFailure, LoseFailure, RetryStep, RetryCheck, RetryClaim, RetryQueue, RetryFails,
    RetryDies, SoftDelete, DeleteFiles, SweepLooks, SweepRemoves, vars, queueVars, execVars
<1>2. OwnDir'
  BY <1>1 DEF OwnDir
<1>3. CASE \/ \E f \in Failures : RecordFailure(f) \/ LoseFailure(f)
           \/ RetryCheck \/ RetryDies
           \/ SoftDelete \/ DeleteFiles \/ SweepLooks \/ SweepRemoves
           \/ UNCHANGED vars
  <2>1. /\ UNCHANGED <<run, upload>>
        /\ claimed' => claimed
        /\ NoLateMark' <=> NoLateMark
        /\ \/ status' = status
           \/ status \in {"created", "processing"} /\ status' = "failed"
           \/ status' = "deleted"
    <3>1. lost' \in {lost, lost \cup {"failure"}, lost \cup {"claim"}}
      BY <1>3 DEF RecordFailure, LoseFailure, RetryCheck, RetryDies,
        SoftDelete, DeleteFiles, SweepLooks, SweepRemoves, vars, faultVars
    <3>2. /\ UNCHANGED <<run, upload>>
          /\ claimed' => claimed
      BY <1>3 DEF RecordFailure, LoseFailure, RetryCheck, RetryDies,
        SoftDelete, DeleteFiles, SweepLooks, SweepRemoves, vars, queueVars, retryVars
    <3>3. \/ status' = status
          \/ status \in {"created", "processing"} /\ status' = "failed"
          \/ status' = "deleted"
      <4>1. CASE \E f \in Failures : RecordFailure(f) \/ LoseFailure(f)
        BY <4>1 DEF RecordFailure, LoseFailure, FailAsset
      <4>2. CASE RetryCheck \/ RetryDies
        BY <4>2 DEF RetryCheck, RetryDies
      <4>3. CASE SoftDelete \/ DeleteFiles \/ SweepLooks \/ SweepRemoves \/ UNCHANGED vars
        BY <4>3 DEF SoftDelete, DeleteFiles, SweepLooks, SweepRemoves, vars
      <4> QED
        BY <1>3, <4>1, <4>2, <4>3
    <3> QED
      BY <3>1, <3>2, <3>3 DEF NoLateMark
  <2>2. /\ source' = source \/ sweeping \/ status = "deleted"
        /\ UNCHANGED finished \/ sweeping \/ status = "deleted"
        /\ sweeping' => sweeping \/ (status = "ready" /\ UNCHANGED status)
        /\ status = "deleted" => status' = "deleted"
    <3>1. CASE \E f \in Failures : RecordFailure(f) \/ LoseFailure(f)
      BY <3>1 DEF RecordFailure, LoseFailure, FailAsset, diskVars
    <3>2. CASE RetryCheck \/ RetryDies
      BY <3>2 DEF RetryCheck, RetryDies, diskVars
    <3>3. CASE SoftDelete \/ DeleteFiles \/ SweepLooks \/ SweepRemoves \/ UNCHANGED vars
      BY <3>3 DEF SoftDelete, DeleteFiles, SweepLooks, SweepRemoves, vars, diskVars, LocalTypes
    <3> QED
      BY <1>3, <3>1, <3>2, <3>3
  <2>3. SourceIsKept'
    BY <1>1, <2>1, <2>2 DEF SourceIsKept
  <2>4. ClaimIsLater' /\ DropEnds'
    BY <1>1, <2>1 DEF ClaimIsLater, DropEnds
  <2>5. FirstOutput'
    <3>1. FirstRun' => FirstRun /\ UNCHANGED finished
      BY <2>1, <2>2 DEF FirstRun, SourceIsKept
    <3> QED
      BY <1>1, <2>1, <3>1, FirstStays
  <2> QED
    BY <1>2, <2>3, <2>4, <2>5
<1>4. CASE RetryClaim
  <2>1. CASE status # "failed"
    <3>1. UNCHANGED <<status, run, claimed, source, finished, upload, sweeping, lost>>
      BY <1>4, <2>1 DEF RetryClaim, diskVars, queueVars, faultVars
    <3>2. ClaimIsLater' /\ SourceIsKept' /\ DropEnds'
      BY <1>1, <3>1 DEF ClaimIsLater, SourceIsKept, DropEnds, NoLateMark
    <3>3. FirstOutput'
      BY <1>1, <3>1, FirstStays DEF FirstRun, NoLateMark
    <3> QED
      BY <1>2, <3>2, <3>3
  <2>2. CASE status = "failed"
    <3>1. /\ status' = "processing" /\ run' = run + 1 /\ run \in Nat \ {0}
          /\ UNCHANGED <<source, sweeping, lost>>
      BY <1>4, <2>2, PipelineAssumption
        DEF RetryClaim, diskVars, faultVars, DriveInv, DriveTypes, Runs
    <3>2. SourceIsKept'
      BY <1>1, <2>2, <3>1 DEF SourceIsKept, NoLateMark
    <3>3. \A e \in Exec : Running(e) => runOf[e] # run'
      BY <3>1, RunningIsStarted
    <3>4. DropEnds'
      BY <1>1, <3>3 DEF DropEnds, Running
    <3>5. ClaimIsLater' /\ FirstOutput'
      BY <3>1 DEF ClaimIsLater, FirstOutput, FirstRun
    <3> QED
      BY <1>2, <3>2, <3>4, <3>5
  <2> QED
    BY <2>1, <2>2
<1>5. CASE RetryQueue \/ RetryFails
  <2>1. /\ claimed /\ claimed' = FALSE
        /\ UNCHANGED <<run, source, sweeping, lost>>
        /\ status' = status \/ (status = "processing" /\ status' = "failed")
    <3>1. CASE RetryQueue
      BY <3>1 DEF RetryQueue, diskVars, faultVars
    <3>2. CASE RetryFails
      BY <3>2 DEF RetryFails, diskVars
    <3> QED
      BY <1>5, <3>1, <3>2
  <2>2. SourceIsKept' /\ DropEnds' /\ ClaimIsLater'
    BY <1>1, <2>1 DEF SourceIsKept, DropEnds, ClaimIsLater, NoLateMark
  <2>3. FirstOutput'
    <3>1. run > 1 /\ run \in Nat
      BY <2>1, PipelineAssumption DEF ClaimIsLater, DriveInv, DriveTypes, Runs
    <3> QED
      BY <2>1, <3>1 DEF FirstOutput, FirstRun
  <2> QED
    BY <1>2, <2>2, <2>3
<1> QED
  BY <1>3, <1>4, <1>5 DEF RetryStep

----------------------------------------------------------------------------
(***************************************************************************)
(* The theorems about types, files and the upload's input.                 *)
(***************************************************************************)

\* The invariant holds at the start.
LEMMA RunInit == Init => RunInv
<1> SUFFICES ASSUME Init PROVE RunInv
  OBVIOUS
<1> USE PipelineAssumption DEF Init, Runs, NoJob, NoUpload, NoFinalize
<1>1. DriveInv
  BY DriveInit
<1>2. DiskTypes
  BY NothingFinished DEF DiskTypes
<1>3. RowsFit
  <2> SUFFICES ASSUME NEW r \in Runs PROVE JobFits(r) /\ UploadFits(r) /\ FinalizeFits(r)
    BY DEF RowsFit
  <2>1. /\ job[r].tries = 0 /\ job[r].stalls = 0 /\ job[r].lock = None
        /\ upload[r].tries = 0 /\ upload[r].dir = None /\ finalize[r].tries = 0
    OBVIOUS
  <2> QED
    BY <2>1 DEF JobFits, UploadFits, FinalizeFits
<1>4. LocalTypes
  <2>1. out \in [Exec -> Exec \cup {None}]
    OBVIOUS
  <2>2. faults = 0 /\ MaxFaults \in Nat /\ sweeping = FALSE
    OBVIOUS
  <2> QED
    <3>1. retry \in {"none", "source"} \cup Exec /\ winner \in Runs \cup {0}
      OBVIOUS
    <3>2. lost \subseteq {"failure", "claim", "mark"}
      OBVIOUS
    <3>3. faults \in 0 .. MaxFaults
      BY <2>2
    <3>4. sweeping \in BOOLEAN
      BY <2>2
    <3> HIDE DEF Init, Runs
    <3> QED
      BY <2>1, <3>1, <3>2, <3>3, <3>4 DEF LocalTypes
<1>5. OutputParts
  BY DEF OutputParts, OwnDir, ClaimIsLater, SourceIsKept, DropEnds, FirstOutput, FirstRun
<1> QED
  BY <1>1, <1>2, <1>3, <1>4, <1>5 DEF RunInv, OutputTypes

\* Every step keeps it.
LEMMA RunStep ==
    ASSUME RunInv, [Next]_vars
    PROVE  RunInv'
<1> USE DEF RunInv, OutputTypes
<1>1. DriveInv' /\ DriveTypes'
  BY DriveStep DEF DriveInv
<1>2. DiskTypes' /\ LocalTypes'
  BY DiskSteps, LocalsStep
<1>3. RowsFit'
  <2> SUFFICES ASSUME NEW r \in Runs PROVE JobFits(r)' /\ UploadFits(r)' /\ FinalizeFits(r)'
    BY DEF RowsFit
  <2> QED
    BY JobSteps, LaterSteps, JobsStep, UploadsStep, FinalizesStep DEF RowsFit, DriveInv
<1>4. OutputParts'
  <2>1. ASSUME NEW e \in Exec, TranscodeStep(e) PROVE OutputParts'
    BY <2>1, StageKeeps
  <2>2. ASSUME NEW r \in Runs, LaterStages(r) \/ WorkerDies(r) PROVE OutputParts'
    BY <1>1, <2>2, LaterKeepsOutput
  <2> QED
    BY <2>1, <2>2, RestKeepsOutput DEF Next
<1> QED
  BY <1>1, <1>2, <1>3, <1>4

\* Every variable has its type, late marks included: no directory is both being
\* written and finished, or finished twice, and a job that is not over has a try left.
THEOREM Typed == Spec => []TypeOK
<1>1. RunInv => TypeOK
  <2> SUFFICES ASSUME RunInv PROVE TypeOK
    OBVIOUS
  <2> USE PipelineAssumption DEF RunInv, OutputTypes, DriveInv, DriveTypes
  <2>1. job \in [Runs -> [state : JobStates, tries : 0 .. Attempts,
                         stalls : 0 .. Stalls + 1, lock : Exec \cup {None}]]
    BY DEF RowsFit, JobFits
  <2>2. upload \in [Runs -> [state : JobStates, tries : 0 .. Attempts, dir : Exec \cup {None}]]
    <3>1. PICK D : upload \in [Runs -> [state : UploadStates, tries : Nat, dir : D]]
      BY DEF UploadRows
    <3> QED
      BY <3>1 DEF RowsFit, UploadFits, UploadStates, JobStates
  <2>3. finalize \in [Runs -> [state : JobStates, tries : 0 .. Attempts]]
    BY DEF RowsFit, FinalizeFits, FinalizeStates, JobStates
  <2>4. seen \in [Exec -> Statuses]
    BY DEF Statuses
  <2> QED
    BY <2>1, <2>2, <2>3, <2>4 DEF TypeOK, DiskTypes, LocalTypes, Failures
<1> QED
  BY <1>1, RunInit, RunStep, PTL DEF Spec

\* A failed video still has its source, or a mark came late: whatever removes the
\* source does it for an asset that is ready, or deleted.
THEOREM FailedAreRetriable == Spec => []FailedCanRetry
<1>1. RunInv => FailedCanRetry
  BY DEF RunInv, OutputTypes, OutputParts, SourceIsKept, NoLateMark, FailedCanRetry
<1> QED
  BY <1>1, RunInit, RunStep, PTL DEF Spec

\* The upload of the first run finds the directory it was given, whatever the
\* other executions drop, until a mark comes late.
THEOREM UploadsHaveOutput == Spec => []UploadHasOutput
<1>1. RunInv => UploadHasOutput
  BY DEF RunInv, OutputParts, FirstOutput, FirstRun, NoLateMark, UploadHasOutput
<1> QED
  BY <1>1, RunInit, RunStep, PTL DEF Spec
=============================================================================
