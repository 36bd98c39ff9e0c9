--------------------------- MODULE UploadSessions ---------------------------
(***************************************************************************)
(* One resumable upload, from its creation to the end of its source file:  *)
(* the session row, the asset it creates, and the file tus writes. The     *)
(* request that finishes it, the two ways to cancel it, the hourly sweep   *)
(* and the deletion of the asset each read some of these and change them a *)
(* few awaits later. The pipeline that takes over is reduced to the        *)
(* outcomes that matter to the source; Pipeline has it step by step.       *)
(***************************************************************************)
EXTENDS Naturals

CONSTANT
    MaxFaults    \* bound: failed calls and restarts, together

UploadAssumption == MaxFaults \in Nat

VARIABLES
    past,        \* whether the upload's day is over
    session,     \* the row's status, "none" if there is no row
    asset,       \* the asset's status, "deleted" for a soft-deleted one, and
                 \* "gone" once its row is removed
    file,        \* what is on disk: nothing, a part, or all of the upload
    creating,    \* the creation request
    receiving,   \* whether a PATCH is streaming
    finishing,   \* the finish hook of the last PATCH
    rest,        \* a cancel through the REST api
    tus,         \* a cancel through tus DELETE
    sweep,       \* the hourly sweep of this process
    listed,      \* the asset's status when the sweep listed the session
    deletion,    \* the deletion job of the asset
    job,         \* whether a transcode of the asset is queued or running
    faults,
    slips        \* history: a "fault" for a failed call or a restart, and a "race" for
                 \* an upload that is completed after a cancel or a sweep judged it
                 \* and before that one is done, or failed after it was ready

rowVars == <<session, asset>>
requestVars == <<creating, receiving, finishing, rest, tus>>
sweepVars == <<sweep, listed>>
vars == <<past, rowVars, file, requestVars, sweepVars, deletion, job, faults, slips>>

AssetStatuses == {"none", "created", "uploading", "processing", "ready", "failed",
                  "deleted", "gone"}
Empty == {"created", "uploading"}
Live == {"created", "uploading", "processing", "ready", "failed"}

TypeOK ==
    /\ past \in BOOLEAN
    /\ session \in {"none", "uploading", "completed", "cancelled", "failed"}
    /\ asset \in AssetStatuses
    /\ file \in {"none", "partial", "full"}
    /\ creating \in {"asset", "session", "store", "abandon", "over"}
    /\ receiving \in BOOLEAN
    /\ finishing \in {"idle", "hash", "complete", "queue", "fail"}
    /\ rest \in {"idle", "write", "remove", "discard"}
    /\ tus \in {"idle", "read", "write", "discard", "terminate"}
    /\ sweep \in {"idle", "drop", "list", "remove", "close", "discard", "states", "source",
                  "forget"}
    /\ listed \in AssetStatuses
    /\ listed # "none" => sweep \in {"remove", "close", "discard"}
    /\ deletion \in {"idle", "remove", "row"}
    /\ job \in BOOLEAN
    /\ faults \in 0 .. MaxFaults
    /\ slips \subseteq {"fault", "race"}

Init ==
    /\ past = FALSE
    /\ session = "none" /\ asset = "none" /\ file = "none"
    /\ creating = "asset" /\ receiving = FALSE /\ finishing = "idle"
    /\ rest = "idle" /\ tus = "idle"
    /\ sweep = "idle" /\ listed = "none"
    /\ deletion = "idle" /\ job = FALSE
    /\ faults = 0 /\ slips = {}

----------------------------------------------------------------------------
Fault == faults < MaxFaults /\ faults' = faults + 1 /\ slips' = slips \cup {"fault"}
NoFault == UNCHANGED <<faults, slips>>

Race(when) == slips' = (IF when THEN slips \cup {"race"} ELSE slips) /\ UNCHANGED faults

\* deleteAsset: the soft delete, of an asset that is not deleted yet.
DeleteAsset == asset' = IF asset \in Live THEN "deleted" ELSE asset

SetSession(s) == session' = IF session = "none" THEN "none" ELSE s

\* The upload's day ends.
Expire ==
    /\ ~past
    /\ past' = TRUE
    /\ UNCHANGED <<rowVars, file, requestVars, sweepVars, deletion, job, faults, slips>>

----------------------------------------------------------------------------
(***************************************************************************)
(* Creation: the asset, its session, and the file of the store.            *)
(***************************************************************************)
CreateAsset ==
    /\ creating = "asset"
    /\ asset' = "created"
    /\ creating' = "session"
    /\ UNCHANGED <<past, session, file, receiving, finishing, rest, tus, sweepVars, deletion,
                   job, faults, slips>>

\* Without its session the asset is discarded. The row refers to the asset's.
CreateSession ==
    /\ creating = "session"
    /\ \/ /\ asset # "gone"
          /\ session' = "uploading"
          /\ creating' = "store"
          /\ NoFault
          /\ UNCHANGED asset
       \/ /\ Fault \/ (asset = "gone" /\ NoFault)
          /\ DeleteAsset
          /\ creating' = "over"
          /\ UNCHANGED session
    /\ UNCHANGED <<past, file, receiving, finishing, rest, tus, sweepVars, deletion, job>>

\* The store fails: onResponseError abandons the upload.
StoreFile ==
    /\ creating = "store"
    /\ \/ file' = "partial" /\ creating' = "over" /\ NoFault /\ UNCHANGED session
       \/ Fault /\ SetSession("failed") /\ creating' = "abandon" /\ UNCHANGED file
    /\ UNCHANGED <<past, asset, receiving, finishing, rest, tus, sweepVars, deletion, job>>

Abandon ==
    /\ creating = "abandon"
    /\ DeleteAsset
    /\ creating' = "over"
    /\ UNCHANGED <<past, session, file, receiving, finishing, rest, tus, sweepVars, deletion,
                   job, faults, slips>>

----------------------------------------------------------------------------
(***************************************************************************)
(* Bytes, and the hook after the last of them.                             *)
(***************************************************************************)

\* tus refuses an upload that is past its day.
StartPatch ==
    /\ creating = "over" /\ file = "partial"
    /\ ~past /\ ~receiving /\ finishing = "idle"
    /\ receiving' = TRUE
    /\ UNCHANGED <<past, rowVars, file, creating, finishing, rest, tus, sweepVars, deletion,
                   job, faults, slips>>

\* markAssetUploading, with the first bytes of a write.
MarkUploading ==
    /\ receiving
    /\ session = "uploading" /\ asset = "created"
    /\ asset' = "uploading"
    /\ UNCHANGED <<past, session, file, requestVars, sweepVars, deletion, job, faults, slips>>

\* The last byte is stored, or lost if the file was removed meanwhile; or the
\* connection ends early.
EndPatch ==
    /\ receiving
    /\ receiving' = FALSE
    /\ \/ /\ file' = IF file = "partial" THEN "full" ELSE file
          /\ finishing' = "hash"
          /\ Race(sweep = "drop")
       \/ UNCHANGED <<file, finishing>> /\ NoFault
    /\ UNCHANGED <<past, rowVars, creating, rest, tus, sweepVars, deletion, job>>

\* A removed file cannot be hashed.
FinishHash ==
    /\ finishing = "hash"
    /\ finishing' = IF file = "full" THEN "complete" ELSE "fail"
    /\ UNCHANGED <<past, rowVars, file, creating, receiving, rest, tus, sweepVars, deletion,
                   job, faults, slips>>

\* A cancel or a sweep has judged the session, or ended it already.
JudgedOpen ==
    \/ session # "uploading"
    \/ rest = "write" \/ tus = "write"
    \/ sweep \in {"remove", "close", "discard"}

\* complete, whatever the session is by then.
FinishComplete ==
    /\ finishing = "complete"
    /\ SetSession("completed")
    /\ Race(JudgedOpen)
    /\ finishing' = "queue"
    /\ UNCHANGED <<past, asset, file, creating, receiving, rest, tus, sweepVars, deletion, job>>

\* enqueueTranscoding; the row of its job refers to the asset's.
FinishQueue ==
    /\ finishing = "queue"
    /\ IF asset = "gone" THEN finishing' = "fail" /\ UNCHANGED job
       ELSE finishing' = "idle" /\ job' = TRUE
    /\ UNCHANGED <<past, rowVars, file, creating, receiving, rest, tus, sweepVars, deletion,
                   faults, slips>>

\* A call of the hook fails, or only its answer is lost.
FinishFault ==
    /\ finishing \in {"hash", "complete", "queue"}
    /\ \/ Fault /\ UNCHANGED <<session, job>>
       \/ /\ finishing = "complete"
          /\ Fault /\ ~JudgedOpen
          /\ SetSession("completed")
          /\ UNCHANGED job
       \/ /\ finishing = "queue"
          /\ Fault /\ asset # "gone"
          /\ job' = TRUE
          /\ UNCHANGED session
    /\ finishing' = "fail"
    /\ UNCHANGED <<past, asset, file, creating, receiving, rest, tus, sweepVars, deletion>>

\* markAssetFailed.
FinishFail ==
    /\ finishing = "fail"
    /\ asset' = IF asset \in Live THEN "failed" ELSE asset
    /\ Race(asset = "ready")
    /\ finishing' = "idle"
    /\ UNCHANGED <<past, session, file, creating, receiving, rest, tus, sweepVars, deletion, job>>

----------------------------------------------------------------------------
(***************************************************************************)
(* The two ways to cancel an upload.                                       *)
(***************************************************************************)

\* Only an upload in progress can be cancelled.
InProgress == session = "uploading"

RestRead ==
    /\ rest = "idle"
    /\ InProgress /\ creating = "over"
    /\ rest' = "write"
    /\ UNCHANGED <<past, rowVars, file, creating, receiving, finishing, tus, sweepVars,
                   deletion, job, faults, slips>>

\* The status is written over whatever the session is by then.
RestWrite ==
    /\ rest = "write"
    /\ SetSession("cancelled")
    /\ rest' = "remove"
    /\ UNCHANGED <<past, asset, file, creating, receiving, finishing, tus, sweepVars,
                   deletion, job, faults, slips>>

\* removeSourceUpload; a file that cannot be removed is only logged.
RestRemove ==
    /\ rest = "remove"
    /\ (file' = "none" /\ NoFault) \/ (Fault /\ UNCHANGED file)
    /\ rest' = "discard"
    /\ UNCHANGED <<past, rowVars, creating, receiving, finishing, tus, sweepVars, deletion, job>>

RestDiscard ==
    /\ rest = "discard"
    /\ DeleteAsset
    /\ rest' = "idle"
    /\ UNCHANGED <<past, session, file, creating, receiving, finishing, tus, sweepVars,
                   deletion, job, faults, slips>>

\* The hook before a tus DELETE leaves a finished upload alone.
TusLook ==
    /\ tus = "idle"
    /\ file = "partial" /\ creating = "over"
    /\ tus' = "read"
    /\ UNCHANGED <<past, rowVars, file, creating, receiving, finishing, rest, sweepVars,
                   deletion, job, faults, slips>>

\* It ignores that the session may not be cancelled any more.
TusRead ==
    /\ tus = "read"
    /\ tus' = IF InProgress THEN "write" ELSE "discard"
    /\ UNCHANGED <<past, rowVars, file, creating, receiving, finishing, rest, sweepVars,
                   deletion, job, faults, slips>>

TusWrite ==
    /\ tus = "write"
    /\ SetSession("cancelled")
    /\ tus' = "discard"
    /\ UNCHANGED <<past, asset, file, creating, receiving, finishing, rest, sweepVars,
                   deletion, job, faults, slips>>

TusDiscard ==
    /\ tus = "discard"
    /\ DeleteAsset
    /\ tus' = "terminate"
    /\ UNCHANGED <<past, session, file, creating, receiving, finishing, rest, sweepVars,
                   deletion, job, faults, slips>>

\* tus itself ends a running PATCH and removes the file, unless it is finished.
TusTerminate ==
    /\ tus = "terminate"
    /\ file' = IF file = "full" THEN "full" ELSE "none"
    /\ receiving' = FALSE
    /\ tus' = "idle"
    /\ UNCHANGED <<past, rowVars, creating, finishing, rest, sweepVars, deletion, job,
                   faults, slips>>

----------------------------------------------------------------------------
(***************************************************************************)
(* The hourly sweep: expired files, then their rows, then the sources that *)
(* nothing needs any more.                                                 *)
(***************************************************************************)

\* Mutants: the stock store's comparison with the offset of the creation; a list
\* of the sessions whose asset got no further; sources of ready assets only.
StockUnfinished == file # "none"
ExpiredEmpty == past /\ session = "uploading" /\ asset \in Empty
UnneededWhenReady == session \notin {"none", "cancelled"} /\ asset = "ready"

\* deleteExpired judges by the bytes on disk.
Unfinished == file = "partial"

\* listExpiredUploadingSessions.
Expired == past /\ session = "uploading"

\* sourceFileStates: "ready" and "gone".
Unneeded == session \notin {"none", "cancelled"} /\ asset \in {"ready", "deleted", "gone"}

GoSweep(from, to) == sweep = from /\ sweep' = to

SweepStart ==
    /\ GoSweep("idle", IF past /\ Unfinished THEN "drop" ELSE "list")
    /\ UNCHANGED <<past, rowVars, file, requestVars, listed, deletion, job, faults, slips>>

SweepDrop ==
    /\ GoSweep("drop", "list")
    /\ file' = "none"
    /\ UNCHANGED <<past, rowVars, requestVars, listed, deletion, job, faults, slips>>

SweepList ==
    /\ GoSweep("list", IF Expired THEN "remove" ELSE "states")
    /\ listed' = IF Expired THEN asset ELSE "none"
    /\ UNCHANGED <<past, rowVars, file, requestVars, deletion, job, faults, slips>>

SweepRemove ==
    /\ GoSweep("remove", "close")
    /\ file' = "none"
    /\ UNCHANGED <<past, rowVars, requestVars, listed, deletion, job, faults, slips>>

SweepClose ==
    /\ GoSweep("close", "discard")
    /\ SetSession("failed")
    /\ UNCHANGED <<past, asset, file, requestVars, listed, deletion, job, faults, slips>>

\* Mutant: the listed status is kept for the next step.
DiscardKeeps ==
    /\ GoSweep("discard", "states")
    /\ IF listed \in Empty THEN DeleteAsset ELSE UNCHANGED asset
    /\ UNCHANGED <<past, session, file, requestVars, listed, deletion, job, faults, slips>>

\* An asset that was past its upload when it was listed stays.
SweepDiscard ==
    /\ GoSweep("discard", "states")
    /\ IF listed \in Empty THEN DeleteAsset ELSE UNCHANGED asset
    /\ listed' = "none"
    /\ UNCHANGED <<past, session, file, requestVars, deletion, job, faults, slips>>

SweepStates ==
    /\ GoSweep("states", IF file # "none" /\ Unneeded THEN "source" ELSE "forget")
    /\ UNCHANGED <<past, rowVars, file, requestVars, listed, deletion, job, faults, slips>>

SweepSource ==
    /\ GoSweep("source", "forget")
    /\ file' = "none"
    /\ UNCHANGED <<past, rowVars, requestVars, listed, deletion, job, faults, slips>>

\* deleteDetachedUploadSessions.
SweepForget ==
    /\ GoSweep("forget", "idle")
    /\ session' = IF asset = "gone" /\ file = "none" THEN "none" ELSE session
    /\ UNCHANGED <<past, asset, file, requestVars, listed, deletion, job, faults, slips>>

----------------------------------------------------------------------------
(***************************************************************************)
(* The pipeline and the deletion of the asset.                             *)
(***************************************************************************)

\* The transcode job: skipped, or the asset is processing until it ends.
Transcode ==
    /\ job
    /\ \/ asset \notin Empty \cup {"processing"} /\ job' = FALSE /\ UNCHANGED asset
       \/ asset \in Empty /\ asset' = "processing" /\ UNCHANGED job
       \/ asset = "processing" /\ file = "full" /\ asset' = "ready" /\ job' = FALSE
       \/ asset = "processing" /\ asset' = "failed" /\ job' = FALSE
    /\ UNCHANGED <<past, session, file, requestVars, sweepVars, deletion, faults, slips>>

\* Finalize removes the source.
CleanSource ==
    /\ asset = "ready" /\ file # "none"
    /\ file' = "none"
    /\ UNCHANGED <<past, rowVars, requestVars, sweepVars, deletion, job, faults, slips>>

\* A retry reads the source of a completed session.
CanRetry == session = "completed" /\ file = "full"

Retry ==
    /\ asset = "failed" /\ CanRetry
    /\ asset' = "processing" /\ job' = TRUE
    /\ UNCHANGED <<past, session, file, requestVars, sweepVars, deletion, faults, slips>>

SoftDelete ==
    /\ asset \in Live
    /\ DeleteAsset
    /\ UNCHANGED <<past, session, file, requestVars, sweepVars, deletion, job, faults, slips>>

\* removeAssetSources lists the sessions' files, cancelled ones left out.
DeletionList ==
    /\ asset = "deleted" /\ deletion = "idle"
    /\ deletion' = IF session \in {"none", "cancelled"} THEN "row" ELSE "remove"
    /\ UNCHANGED <<past, rowVars, file, requestVars, sweepVars, job, faults, slips>>

DeletionRemove ==
    /\ deletion = "remove"
    /\ (file' = "none" /\ NoFault) \/ (Fault /\ UNCHANGED file)
    /\ deletion' = "row"
    /\ UNCHANGED <<past, rowVars, requestVars, sweepVars, job>>

DeletionRow ==
    /\ deletion = "row"
    /\ asset' = "gone"
    /\ deletion' = "idle"
    /\ UNCHANGED <<past, session, file, requestVars, sweepVars, job, faults, slips>>

----------------------------------------------------------------------------
\* The process restarts: its requests and its sweep end where they are.
Restart ==
    /\ Fault
    /\ creating' = "over" /\ receiving' = FALSE /\ finishing' = "idle"
    /\ rest' = "idle" /\ tus' = "idle"
    /\ sweep' = "idle" /\ listed' = "none"
    /\ UNCHANGED <<past, rowVars, file, deletion, job>>

CreateStep == CreateAsset \/ CreateSession \/ StoreFile \/ Abandon
FinishStep == FinishHash \/ FinishComplete \/ FinishQueue \/ FinishFault \/ FinishFail
RestStep == RestWrite \/ RestRemove \/ RestDiscard
TusStep == TusRead \/ TusWrite \/ TusDiscard \/ TusTerminate
SweepStep ==
    \/ SweepStart \/ SweepDrop \/ SweepList \/ SweepRemove \/ SweepClose \/ SweepDiscard
    \/ SweepStates \/ SweepSource \/ SweepForget
DeletionStep == DeletionList \/ DeletionRemove \/ DeletionRow

Next ==
    \/ Expire
    \/ CreateStep
    \/ StartPatch \/ MarkUploading \/ EndPatch
    \/ FinishStep
    \/ RestRead \/ RestStep
    \/ TusLook \/ TusStep
    \/ SweepStep
    \/ Transcode \/ CleanSource \/ Retry \/ SoftDelete
    \/ DeletionStep
    \/ Restart

\* Time passes, requests and jobs that began go on, connections end, and the
\* timer starts the sweep every hour.
Fairness ==
    /\ WF_vars(Expire)
    /\ WF_vars(CreateStep)
    /\ WF_vars(EndPatch)
    /\ WF_vars(FinishStep)
    /\ WF_vars(RestStep)
    /\ WF_vars(TusStep)
    /\ WF_vars(SweepStep)
    /\ WF_vars(Transcode)
    /\ WF_vars(DeletionStep)

Spec == Init /\ [][Next]_vars /\ Fairness

----------------------------------------------------------------------------
(***************************************************************************)
(* Properties.                                                             *)
(***************************************************************************)

\* What a completed upload stored is kept for its asset until the asset is
\* ready or deleted, whatever is cancelled, swept, deleted or retried around it
\* (upload-store.ts, "sources a failed asset still needs for a retry"). Only a
\* cancel or a sweep that judged the upload before it was completed can take it.
FinishedIsKept ==
    session = "completed" /\ asset \in Live \ {"ready"} /\ "race" \notin slips
        => file = "full"

\* No upload stays open: it completes, is cancelled, or is closed when its day
\* is over, after restarts too; and when it ended without completing, no empty
\* asset stays behind, unless a restart or a failed call cut the discard short.
UploadEnds ==
    /\ session = "uploading" ~> session # "uploading"
    /\ (session \in {"cancelled", "failed"} /\ asset \in Empty)
           ~> (asset \notin Empty \/ slips # {})

\* A source nobody needs is removed in the end, and a partial one that is never
\* finished too, though removals fail and processes restart; all but a finished
\* file whose session a cancel took.
SourceGoes ==
    (file # "none" /\ asset \in {"ready", "deleted", "gone"})
        ~>
           \/ file = "none" \/ asset = "failed"
           \/ file = "full" /\ session \in {"none", "cancelled"}
=============================================================================
