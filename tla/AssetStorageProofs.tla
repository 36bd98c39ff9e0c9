------------------------- MODULE AssetStorageProofs -------------------------
(***************************************************************************)
(* Proofs about AssetStorage, for every set of executions, every number of *)
(* batches, attempts and retries, with and without faults.                 *)
(***************************************************************************)
EXTENDS AssetStorage, TLAPS

----------------------------------------------------------------------------
(***************************************************************************)
(* Type correctness.                                                       *)
(***************************************************************************)

\* A batch is tried again only while attempts are left.
RetriesLeft == \A e \in Exec : phase[e] = "retry" => try[e] < Attempts

TypeInv == TypeOK /\ RetriesLeft

\* The start has the types.
LEMMA InitTypes == Init => TypeInv
BY StorageAssumption DEF Init, TypeInv, TypeOK, RetriesLeft, Runs, Phases, Calls

\* The object of an execution's batch is an object of the asset.
LEMMA UploadedIsObject ==
    ASSUME TypeOK, NEW e \in Exec
    PROVE  Uploaded(e) \in Object
BY DEF TypeOK, Uploaded, Object

\* What a release goes on with keeps the types of the releases' state.
LEMMA ContinueTypes ==
    ASSUME TypeOK, NEW a \in Actor, NEW c \in Calls, NEW S \in SUBSET Object, Continue(a, c, S)
    PROVE  call' \in [Actor -> Calls] /\ todo' \in [Actor -> SUBSET Object]
BY DEF TypeOK, Continue

\* So does going on to the next object.
LEMMA LoopTypes ==
    ASSUME TypeOK, NEW a \in Actor, NEW S \in SUBSET Object, Loop(a, S)
    PROVE  call' \in [Actor -> Calls] /\ todo' \in [Actor -> SUBSET Object]
<1>1. (IF S = {} THEN "none" ELSE "unpin") \in Calls
  BY DEF Calls
<1>2. QED
  BY <1>1, ContinueTypes DEF Loop

\* So does a call that leaves the current object alone.
LEMMA BeginTypes ==
    ASSUME TypeOK, NEW a \in Actor, NEW c \in Calls, NEW S \in SUBSET Object, Begin(a, c, S)
    PROVE  /\ call' \in [Actor -> Calls] /\ todo' \in [Actor -> SUBSET Object]
           /\ current' \in [Actor -> SUBSET Object]
BY ContinueTypes DEF Begin, TypeOK

\* So does the end of an actor in its release.
LEMMA DropTypes ==
    ASSUME TypeOK, NEW a \in Actor, Drop(a)
    PROVE  /\ call' \in [Actor -> Calls] /\ todo' \in [Actor -> SUBSET Object]
           /\ current' \in [Actor -> SUBSET Object]
<1>1. "none" \in Calls /\ {} \in SUBSET Object
  BY DEF Calls
<1>2. QED
  BY <1>1, ContinueTypes DEF Drop, TypeOK

\* Marking rows keeps the type of the ledger.
LEMMA MarkRowsTypes ==
    ASSUME TypeOK, NEW S, MarkRows(S)
    PROVE  pending' \in [Object -> {"none", "uploading", "release"}]
BY DEF TypeOK, MarkRows

\* An execution that ends leaves its local state as it began.
LEMMA EndTypes ==
    ASSUME TypeInv, NEW e \in Exec, End(e)
    PROVE  /\ phase' \in [Exec -> Phases]
           /\ runOf' \in [Exec -> Runs]
           /\ stalled' \in [Exec -> BOOLEAN]
           /\ batch' \in [Exec -> 1 .. Batches]
           /\ try' \in [Exec -> 1 .. Attempts]
           /\ recorded' \in [Exec -> SUBSET Object]
           /\ kept' \in [Exec -> SUBSET Object]
           /\ RetriesLeft'
BY StorageAssumption DEF TypeInv, TypeOK, End, Phases, Runs, RetriesLeft

\* A release at the end of an execution keeps the types.
LEMMA GiveBackTypes ==
    ASSUME TypeInv, NEW e \in Exec, NEW S \in SUBSET Object, NEW p \in Phases, GiveBack(e, S, p)
    PROVE  /\ phase' \in [Exec -> Phases]
           /\ call' \in [Actor -> Calls] /\ todo' \in [Actor -> SUBSET Object]
           /\ current' \in [Actor -> SUBSET Object]
<1>1. phase' \in [Exec -> Phases]
  BY DEF GiveBack, TypeInv, TypeOK
<1>2. e \in Actor /\ (IF S = {} THEN "none" ELSE "mark") \in Calls
  BY DEF Actor, Calls
<1>3. QED
  BY <1>1, <1>2, BeginTypes DEF GiveBack, TypeInv

\* So does a failed batch, which is tried again only while attempts are left.
LEMMA FailBatchTypes ==
    ASSUME TypeInv, NEW e \in Exec, NEW S \in SUBSET Object, FailBatch(e, S), UNCHANGED try
    PROVE  /\ phase' \in [Exec -> Phases]
           /\ call' \in [Actor -> Calls] /\ todo' \in [Actor -> SUBSET Object]
           /\ current' \in [Actor -> SUBSET Object]
           /\ RetriesLeft'
<1>1. recorded[e] \in SUBSET Object /\ "retry" \in Phases /\ "fail" \in Phases
  BY DEF TypeInv, TypeOK, Phases
<1>2. CASE batch[e] = 1 /\ try[e] < Attempts
  <2>1. GiveBack(e, S, "retry")
    BY <1>2 DEF FailBatch
  <2>2. RetriesLeft'
    BY <1>2, <2>1 DEF GiveBack, RetriesLeft, TypeInv
  <2>3. QED
    BY <2>1, <2>2, <1>1, GiveBackTypes
<1>3. CASE ~(batch[e] = 1 /\ try[e] < Attempts)
  <2>1. GiveBack(e, recorded[e], "fail")
    BY <1>3 DEF FailBatch
  <2>2. RetriesLeft'
    BY <2>1 DEF GiveBack, RetriesLeft, TypeInv
  <2>3. QED
    BY <2>1, <2>2, <1>1, GiveBackTypes
<1>4. QED
  BY <1>2, <1>3

\* The hand-off, whether its add came through, failed, or lost its answer.
HandOffEnds(e) ==
    /\ phase[e] = "handoff"
    /\ AddFinalize(e) \/ UNCHANGED <<handOff, handed>>
    /\ End(e)
    /\ Requeue(e) \/ UNCHANGED waiting
    /\ UNCHANGED <<dbVars, siaVars, run, releaseVars, finalizing, deletion>>

\* Every step keeps the types.
LEMMA TypeStep ==
    ASSUME TypeInv, [Next]_vars
    PROVE  TypeInv'
<1>1. ASSUME NEW a \in Actor, Mark(a) PROVE TypeInv'
  BY <1>1 DEF TypeInv, TypeOK, RetriesLeft, siaVars, queueVars, execVars, Mark,
    MarkRows, Begin, Continue, Calls
<1>2. ASSUME MarkAbandoned PROVE TypeInv'
  BY <1>2 DEF TypeInv, TypeOK, RetriesLeft, siaVars, queueVars, execVars,
    MarkAbandoned, MarkRows, Begin, Continue, Calls
<1>3. ASSUME NEW a \in Actor, List(a) PROVE TypeInv'
  BY <1>3 DEF TypeInv, TypeOK, RetriesLeft, dbVars, siaVars, queueVars, execVars, List,
    Loop, Continue, Calls
<1>4. ASSUME NEW a \in Actor, ReleaseFails(a) PROVE TypeInv'
  BY <1>4 DEF TypeInv, TypeOK, RetriesLeft, dbVars, siaVars, queueVars, execVars,
    ReleaseFails, Loop, Continue, Calls
<1>5. ASSUME NEW a \in Actor, NEW o \in Object, Unpin(a, o) PROVE TypeInv'
  BY <1>5
    DEF TypeInv, TypeOK, RetriesLeft, dbVars, queueVars, execVars, Unpin, Continue, Calls
<1>6. ASSUME NEW a \in Actor, NEW o \in Object, UnpinFails(a, o) PROVE TypeInv'
  BY <1>6 DEF TypeInv, TypeOK, RetriesLeft, dbVars, siaVars, queueVars, execVars,
    UnpinFails, Loop, Continue, Calls
<1>7. ASSUME NEW a \in Actor, Forget(a) PROVE TypeInv'
  BY <1>7 DEF TypeInv, TypeOK, RetriesLeft, siaVars, queueVars, execVars, Forget, Loop,
    Continue, Calls
<1>8. ASSUME NEW a \in Actor, ForgetFails(a) PROVE TypeInv'
  <2>1. CASE a = "delete"
    BY <1>8, <2>1, DropTypes
      DEF ForgetFails, TypeInv, TypeOK, RetriesLeft, dbVars, siaVars, queueVars, execVars
  <2>2. CASE a # "delete"
    <3>1. Loop(a, todo[a]) /\ todo[a] \in SUBSET Object
      BY <1>8, <2>2 DEF ForgetFails, TypeInv, TypeOK
    <3>2. call' \in [Actor -> Calls] /\ todo' \in [Actor -> SUBSET Object]
      BY <1>8, <3>1, LoopTypes DEF TypeInv
    <3> QED
      BY <1>8, <2>2, <3>2 DEF ForgetFails, TypeInv, TypeOK, RetriesLeft, dbVars,
        siaVars, queueVars, execVars
  <2> QED
    BY <1>8, <2>1, <2>2
<1>9. ASSUME NEW e \in Exec, NEW r \in Runs, StartUpload(e, r) PROVE TypeInv'
  BY <1>9
    DEF TypeInv, TypeOK, RetriesLeft, dbVars, siaVars, releaseVars, StartUpload, Phases
<1>10. ASSUME NEW r \in Runs, SkipUpload(r) PROVE TypeInv'
  BY <1>10
    DEF TypeInv, TypeOK, RetriesLeft, dbVars, siaVars, execVars, releaseVars, SkipUpload
<1>11. ASSUME NEW e \in Exec, Checkpoint(e) PROVE TypeInv'
  BY <1>11 DEF TypeInv, TypeOK, RetriesLeft, dbVars, siaVars, queueVars, releaseVars,
    Checkpoint, Phases
<1>12. ASSUME NEW e \in Exec, Stop(e) PROVE TypeInv'
  BY <1>12 DEF TypeInv, TypeOK, RetriesLeft, dbVars, siaVars, queueVars, Stop,
    GiveBack, Begin, Continue, Calls, Phases
<1>13. ASSUME NEW e \in Exec, Record(e) PROVE TypeInv'
  BY <1>13, UploadedIsObject
    DEF TypeInv, TypeOK, RetriesLeft, siaVars, queueVars, releaseVars, Record, Phases
<1>14. ASSUME NEW e \in Exec, Pin(e) PROVE TypeInv'
  <2>1. batch' \in [Exec -> 1 .. Batches]
    <3>1. ~LastBatch(e) => batch[e] + 1 \in 1 .. Batches
      BY <1>14, StorageAssumption DEF LastBatch, TypeInv, TypeOK
    <3> QED
      BY <1>14, <3>1 DEF Pin, TypeInv, TypeOK
  <2>2. Uploaded(e) \in Object
    BY <1>14, UploadedIsObject DEF TypeInv
  <2>3. phase' \in [Exec -> Phases] /\ RetriesLeft'
    BY <1>14 DEF Pin, TypeInv, TypeOK, RetriesLeft, Phases
  <2> QED
    BY <1>14, <2>1, <2>2, <2>3 DEF Pin, TypeInv, TypeOK, dbVars, queueVars, releaseVars
<1>15. ASSUME NEW e \in Exec, UploadFails(e) PROVE TypeInv'
  <2>1. {} \in SUBSET Object /\ Uploaded(e) \in Object
    BY <1>15, UploadedIsObject DEF TypeInv
  <2>2. FailBatch(e, {}) /\ UNCHANGED try
    BY <1>15 DEF UploadFails
  <2>3. /\ phase' \in [Exec -> Phases]
        /\ call' \in [Actor -> Calls] /\ todo' \in [Actor -> SUBSET Object]
        /\ current' \in [Actor -> SUBSET Object]
        /\ RetriesLeft'
    BY <1>15, <2>1, <2>2, FailBatchTypes
  <2> QED
    BY <1>15, <2>1, <2>3 DEF UploadFails, TypeInv, TypeOK, siaVars, queueVars
<1>16. ASSUME NEW e \in Exec, PinFails(e) PROVE TypeInv'
  <2>1. {Uploaded(e)} \in SUBSET Object
    BY <1>16, UploadedIsObject DEF TypeInv
  <2>2. FailBatch(e, {Uploaded(e)}) /\ UNCHANGED try
    BY <1>16 DEF PinFails
  <2>3. /\ phase' \in [Exec -> Phases]
        /\ call' \in [Actor -> Calls] /\ todo' \in [Actor -> SUBSET Object]
        /\ current' \in [Actor -> SUBSET Object]
        /\ RetriesLeft'
    BY <1>16, <2>1, <2>2, FailBatchTypes
  <2> QED
    BY <1>16, <2>1, <2>3 DEF PinFails, TypeInv, TypeOK, dbVars, queueVars
<1>17. ASSUME NEW e \in Exec, TryAgain(e) PROVE TypeInv'
  BY <1>17, StorageAssumption DEF TypeInv, TypeOK, RetriesLeft, dbVars, siaVars,
    queueVars, releaseVars, TryAgain, Phases
<1>18. ASSUME NEW e \in Exec, EndStopped(e) PROVE TypeInv'
  BY <1>18, StorageAssumption DEF TypeInv, TypeOK, RetriesLeft, dbVars, siaVars,
    queueVars, releaseVars, EndStopped, End, Phases, Runs
<1>19. ASSUME NEW e \in Exec, EndFailed(e) PROVE TypeInv'
  <2>1. /\ phase' \in [Exec -> Phases]
        /\ runOf' \in [Exec -> Runs]
        /\ stalled' \in [Exec -> BOOLEAN]
        /\ batch' \in [Exec -> 1 .. Batches]
        /\ try' \in [Exec -> 1 .. Attempts]
        /\ recorded' \in [Exec -> SUBSET Object]
        /\ kept' \in [Exec -> SUBSET Object]
        /\ RetriesLeft'
    BY <1>19, EndTypes DEF EndFailed
  <2>2. waiting' \subseteq Runs
    BY <1>19 DEF EndFailed, Requeue, TypeInv, TypeOK
  <2> QED
    BY <1>19, <2>1, <2>2 DEF EndFailed, TypeInv, TypeOK, dbVars, siaVars, releaseVars
<1>20. ASSUME NEW e \in Exec, HandOffEnds(e) PROVE TypeInv'
  <2>1. /\ phase' \in [Exec -> Phases]
        /\ runOf' \in [Exec -> Runs]
        /\ stalled' \in [Exec -> BOOLEAN]
        /\ batch' \in [Exec -> 1 .. Batches]
        /\ try' \in [Exec -> 1 .. Attempts]
        /\ recorded' \in [Exec -> SUBSET Object]
        /\ kept' \in [Exec -> SUBSET Object]
        /\ RetriesLeft'
    BY <1>20, EndTypes DEF HandOffEnds
  <2>2. waiting' \subseteq Runs
    BY <1>20 DEF HandOffEnds, Requeue, TypeInv, TypeOK
  <2>3. handOff' \in [Runs -> {"none", "queued", "done"}] /\ handed' \in [Runs -> SUBSET
  Object]
    BY <1>20 DEF HandOffEnds, AddFinalize, TypeInv, TypeOK
  <2> QED
    BY <1>20, <2>1, <2>2, <2>3
      DEF HandOffEnds, TypeInv, TypeOK, dbVars, siaVars, releaseVars
<1>21. ASSUME NEW e \in Exec, CrashUpload(e) PROVE TypeInv'
  <2>1. /\ phase' \in [Exec -> Phases]
        /\ runOf' \in [Exec -> Runs]
        /\ stalled' \in [Exec -> BOOLEAN]
        /\ batch' \in [Exec -> 1 .. Batches]
        /\ try' \in [Exec -> 1 .. Attempts]
        /\ recorded' \in [Exec -> SUBSET Object]
        /\ kept' \in [Exec -> SUBSET Object]
        /\ RetriesLeft'
    BY <1>21, EndTypes DEF CrashUpload
  <2>2. waiting' \subseteq Runs
    BY <1>21 DEF CrashUpload, Requeue, TypeInv, TypeOK
  <2>3. e \in Actor
    BY <1>21 DEF Actor
  <2>4. /\ call' \in [Actor -> Calls] /\ todo' \in [Actor -> SUBSET Object]
        /\ current' \in [Actor -> SUBSET Object]
    BY <1>21, <2>3, DropTypes DEF CrashUpload, TypeInv
  <2> QED
    BY <1>21, <2>1, <2>2, <2>4 DEF CrashUpload, TypeInv, TypeOK, dbVars, siaVars
<1>22. ASSUME NEW e \in Exec, Stall(e) PROVE TypeInv'
  BY <1>22 DEF TypeInv, TypeOK, RetriesLeft, dbVars, siaVars, releaseVars, Stall
<1>23. ASSUME NEW r \in Runs, GiveUp(r) PROVE TypeInv'
  BY <1>23
    DEF TypeInv, TypeOK, RetriesLeft, siaVars, execVars, releaseVars, GiveUp, FailAsset
<1>24. ASSUME RetryAsset PROVE TypeInv'
  BY <1>24, StorageAssumption
    DEF TypeInv, TypeOK, RetriesLeft, siaVars, execVars, releaseVars, RetryAsset, Runs
<1>25. ASSUME NEW r \in Runs, Finalize(r) PROVE TypeInv'
  BY <1>25 DEF TypeInv, TypeOK, RetriesLeft, dbVars, siaVars, queueVars, execVars,
    Finalize, MakeReady, LeaveAsset, AlreadyReady, RowsAfter, Begin, Continue, Calls
<1>26. ASSUME EndFinalize PROVE TypeInv'
  BY <1>26
    DEF TypeInv, TypeOK, RetriesLeft, dbVars, siaVars, execVars, releaseVars, EndFinalize
<1>27. ASSUME CrashFinalize PROVE TypeInv'
  BY <1>27 DEF TypeInv, TypeOK, RetriesLeft, dbVars, siaVars, queueVars, execVars,
    CrashFinalize, Drop, Continue, Calls
<1>28. ASSUME NEW r \in Runs, GiveUpFinalize(r) PROVE TypeInv'
  BY <1>28 DEF TypeInv, TypeOK, RetriesLeft, siaVars, execVars, releaseVars,
    GiveUpFinalize, FailAsset
<1>29. ASSUME SoftDelete PROVE TypeInv'
  BY <1>29 DEF TypeInv, TypeOK, RetriesLeft, siaVars, queueVars, execVars, releaseVars,
    SoftDelete
<1>30. ASSUME CollectObjects PROVE TypeInv'
  BY <1>30 DEF TypeInv, TypeOK, RetriesLeft, dbVars, siaVars, queueVars, execVars,
    CollectObjects, Loop, Continue, Calls
<1>31. ASSUME EndDeletion PROVE TypeInv'
  BY <1>31 DEF TypeInv, TypeOK, RetriesLeft, siaVars, queueVars, execVars, releaseVars,
    EndDeletion
<1>32. ASSUME CrashDeletion PROVE TypeInv'
  BY <1>32 DEF TypeInv, TypeOK, RetriesLeft, dbVars, siaVars, queueVars, execVars,
    CrashDeletion, Drop, Continue, Calls
<1>33. ASSUME CrashSweep PROVE TypeInv'
  BY <1>33 DEF TypeInv, TypeOK, RetriesLeft, dbVars, siaVars, queueVars, execVars,
    CrashSweep, Drop, Continue, Calls
<1>34. CASE UNCHANGED vars
  BY <1>34 DEF vars, TypeInv, TypeOK, RetriesLeft, dbVars, siaVars, queueVars,
    execVars, releaseVars
<1>35. ASSUME NEW a \in Actor, ReleaseStep(a) PROVE TypeInv'
  BY <1>35, <1>1, <1>3, <1>4, <1>5, <1>6, <1>7, <1>8 DEF ReleaseStep
<1>36. ASSUME NEW e \in Exec, UploadStep(e) PROVE TypeInv'
  <2>1. HandOff(e) \/ HandOffFails(e) => HandOffEnds(e)
    BY DEF HandOff, HandOffFails, HandOffEnds
  <2> QED
    BY <1>36, <2>1, <1>9, <1>11, <1>12, <1>13, <1>14, <1>15, <1>16, <1>17, <1>18, <1>19,
      <1>20, <1>21, <1>22
    DEF UploadStep, UploadProgress
<1>37. ASSUME NEW r \in Runs, RunStep(r) PROVE TypeInv'
  BY <1>37, <1>10, <1>23, <1>25, <1>28 DEF RunStep
<1> QED
  BY <1>34, <1>35, <1>36, <1>37, <1>24, <1>26, <1>27, <1>29, <1>30, <1>31, <1>32, <1>2,
    <1>33
  DEF Next

\* The type invariant of the runs, for every execution, batch, attempt and
\* retry there may be.
THEOREM TypeCorrect == Spec => []TypeOK
<1>1. TypeInv => TypeOK
  BY DEF TypeInv
<1> QED
  BY <1>1, InitTypes, TypeStep, PTL DEF Spec

----------------------------------------------------------------------------
(***************************************************************************)
(* The objects of a ready asset are pinned: StorageInv is inductive.       *)
(***************************************************************************)

\* Nothing knows of an object that is yet to be recorded.
LEMMA AheadIsUnknown ==
    ASSUME TypeOK, StorageInv, NEW e \in Exec, NEW o \in Object, Ahead(e, o)
    PROVE  /\ pending[o] = "none"
           /\ o \notin artifacts
           /\ \A r \in Runs : o \notin handed[r]
           /\ \A a \in Actor : o \notin todo[a]
<1>1. o[1] = e /\ phase[e] # "done"
  BY DEF Ahead
<1>2. o \notin artifacts /\ \A r \in Runs : o \notin handed[r]
  BY <1>1 DEF StorageInv, HandedIsDone
<1>3. QED
  BY <1>2 DEF StorageInv, AheadIsFresh


\* The executions whose objects a finalize job carries have ended.
LEMMA HandedByOthers ==
    ASSUME TypeOK, StorageInv, NEW e \in Exec, phase[e] # "done"
    PROVE  \A r \in Runs : \A y \in handed[r] : y[1] \in Exec /\ y[1] # e
BY DEF TypeOK, StorageInv, HandedIsDone, Object

\* The execution goes on to p, and releases objects of its own: the one of the
\* batch when it tries again.
GivesBack(e, p) ==
    /\ phase' = [phase EXCEPT ![e] = p]
    /\ p = "retry" => todo'[e] \subseteq {Uploaded(e)}
    /\ \A o \in todo'[e] : o[1] = e
    /\ \A a \in Actor \ {e} : todo'[a] = todo[a]

\* A failed batch releases objects of its own execution; what it keeps is none
\* of them when the batch is tried again.
LEMMA FailBatchEffect ==
    ASSUME TypeInv, StorageInv, NEW e \in Exec, NEW S \in SUBSET {Uploaded(e)}, FailBatch(e, S)
    PROVE  \E p \in {"retry", "fail"} : GivesBack(e, p)
<1> USE DEF TypeInv, TypeOK, GiveBack, Begin, Continue, Actor, GivesBack
<1>1. CASE batch[e] = 1 /\ try[e] < Attempts
  <2>1. GiveBack(e, S, "retry")
    BY <1>1 DEF FailBatch
  <2> QED
    BY <2>1 DEF Uploaded
<1>2. CASE ~(batch[e] = 1 /\ try[e] < Attempts)
  <2>1. GiveBack(e, recorded[e], "fail")
    BY <1>2 DEF FailBatch
  <2> QED
    BY <2>1 DEF StorageInv, ReleasesAreOwn
<1> QED
  BY <1>1, <1>2

\* Marking rows for release keeps the inductive invariant.
LEMMA MarkKeeps ==
    ASSUME ~StaleRuns, TypeInv, StorageInv, NEW a \in Actor, Mark(a)
    PROVE  StorageInv'
<1> USE DEF TypeInv, TypeOK, dbVars, siaVars, queueVars, execVars, releaseVars, Mark,
  MarkRows, Begin, Continue
<1>1. KeptIsBehind' /\ OldRunsAreOver' /\ HandedIsDone'
  BY DEF StorageInv, KeptIsBehind, OldRunsAreOver, HandedIsDone, Running
<1>2. ReleasesAreOwn'
  BY DEF StorageInv, ReleasesAreOwn, Uploaded
<1>3. LateReleases'
  BY DEF StorageInv, LateReleases
<1>4. AheadIsFresh'
  <2> SUFFICES ASSUME NEW x \in Exec, NEW y \in Object, Ahead(x, y)'
               PROVE  pending'[y] = "none" /\ \A b \in Actor : y \notin todo'[b]
    BY DEF AheadIsFresh
  <2>1. Ahead(x, y)
    BY DEF Ahead, Uploaded
  <2>2. /\ pending[y] = "none" /\ y \notin artifacts
        /\ \A r0 \in Runs : y \notin handed[r0]
        /\ \A b \in Actor : y \notin todo[b]
    BY <2>1, AheadIsUnknown
  <2> QED
    BY <2>1, <2>2
<1>5. KeptIsSafe'
  BY DEF StorageInv, KeptIsSafe, MayHandOff, Untouched, Uploaded, Object
<1>6. HandedIsSafe'
  BY DEF StorageInv, HandedIsSafe, Untouched
<1>7. ReadyIsSafe'
  BY DEF StorageInv, ReadyIsSafe
<1> QED
  BY <1>1, <1>2, <1>3, <1>4, <1>5, <1>6, <1>7 DEF StorageInv

\* Marking the rows of an asset that left processing keeps the inductive invariant.
LEMMA MarkAbandonedKeeps ==
    ASSUME ~StaleRuns, TypeInv, StorageInv, MarkAbandoned
    PROVE  StorageInv'
<1> USE DEF TypeInv, TypeOK, dbVars, siaVars, queueVars, execVars, releaseVars,
  MarkAbandoned, MarkRows, Abandoned, Begin, Continue
<1>1. KeptIsBehind' /\ OldRunsAreOver' /\ HandedIsDone'
  BY DEF StorageInv, KeptIsBehind, OldRunsAreOver, HandedIsDone, Running
<1>2. ReleasesAreOwn'
  BY StorageAssumption DEF StorageInv, ReleasesAreOwn, Uploaded
<1>3. LateReleases'
  BY DEF StorageInv, LateReleases
<1>4. AheadIsFresh'
  <2> SUFFICES ASSUME NEW x \in Exec, NEW y \in Object, Ahead(x, y)'
               PROVE  pending'[y] = "none" /\ \A b \in Actor : y \notin todo'[b]
    BY DEF AheadIsFresh
  <2>1. Ahead(x, y)
    BY DEF Ahead, Uploaded
  <2>2. /\ pending[y] = "none" /\ y \notin artifacts
        /\ \A r0 \in Runs : y \notin handed[r0]
        /\ \A b \in Actor : y \notin todo[b]
    BY <2>1, AheadIsUnknown
  <2> QED
    BY <2>1, <2>2
<1>5. KeptIsSafe'
  BY DEF StorageInv, KeptIsSafe, MayHandOff, Untouched, Uploaded, Object
<1>6. HandedIsSafe'
  BY DEF StorageInv, HandedIsSafe, Untouched
<1>7. ReadyIsSafe'
  BY DEF StorageInv, ReadyIsSafe
<1> QED
  BY <1>1, <1>2, <1>3, <1>4, <1>5, <1>6, <1>7 DEF StorageInv

\* Listing what is marked keeps the inductive invariant.
LEMMA ListKeeps ==
    ASSUME ~StaleRuns, TypeInv, StorageInv, NEW a \in Actor, List(a)
    PROVE  StorageInv'
<1> USE DEF TypeInv, TypeOK, dbVars, siaVars, queueVars, execVars, releaseVars, List,
  Loop, Continue, Releasable
<1>1. KeptIsBehind' /\ OldRunsAreOver' /\ HandedIsDone'
  BY DEF StorageInv, KeptIsBehind, OldRunsAreOver, HandedIsDone, Running
<1>2. ReleasesAreOwn'
  BY DEF StorageInv, ReleasesAreOwn, Uploaded
<1>3. LateReleases'
  BY DEF StorageInv, LateReleases
<1>4. AheadIsFresh'
  <2> SUFFICES ASSUME NEW x \in Exec, NEW y \in Object, Ahead(x, y)'
               PROVE  pending'[y] = "none" /\ \A b \in Actor : y \notin todo'[b]
    BY DEF AheadIsFresh
  <2>1. Ahead(x, y)
    BY DEF Ahead, Uploaded
  <2>2. /\ pending[y] = "none" /\ y \notin artifacts
        /\ \A r0 \in Runs : y \notin handed[r0]
        /\ \A b \in Actor : y \notin todo[b]
    BY <2>1, AheadIsUnknown
  <2> QED
    BY <2>1, <2>2
<1>5. KeptIsSafe'
  BY DEF StorageInv, KeptIsSafe, MayHandOff, Untouched, Uploaded
<1>6. HandedIsSafe'
  BY DEF StorageInv, HandedIsSafe, Untouched
<1>7. ReadyIsSafe'
  BY DEF StorageInv, ReadyIsSafe
<1> QED
  BY <1>1, <1>2, <1>3, <1>4, <1>5, <1>6, <1>7 DEF StorageInv

\* A failed mark or list keeps the inductive invariant.
LEMMA ReleaseFailsKeeps ==
    ASSUME ~StaleRuns, TypeInv, StorageInv, NEW a \in Actor, ReleaseFails(a)
    PROVE  StorageInv'
<1> USE DEF TypeInv, TypeOK, dbVars, siaVars, queueVars, execVars, releaseVars,
  ReleaseFails, Loop, Continue
<1>1. KeptIsBehind' /\ OldRunsAreOver' /\ HandedIsDone'
  BY DEF StorageInv, KeptIsBehind, OldRunsAreOver, HandedIsDone, Running
<1>2. ReleasesAreOwn'
  BY DEF StorageInv, ReleasesAreOwn, Uploaded
<1>3. LateReleases'
  BY DEF StorageInv, LateReleases
<1>4. AheadIsFresh'
  <2> SUFFICES ASSUME NEW x \in Exec, NEW y \in Object, Ahead(x, y)'
               PROVE  pending'[y] = "none" /\ \A b \in Actor : y \notin todo'[b]
    BY DEF AheadIsFresh
  <2>1. Ahead(x, y)
    BY DEF Ahead, Uploaded
  <2>2. /\ pending[y] = "none" /\ y \notin artifacts
        /\ \A r0 \in Runs : y \notin handed[r0]
        /\ \A b \in Actor : y \notin todo[b]
    BY <2>1, AheadIsUnknown
  <2> QED
    BY <2>1, <2>2
<1>5. KeptIsSafe'
  BY DEF StorageInv, KeptIsSafe, MayHandOff, Untouched, Uploaded
<1>6. HandedIsSafe'
  BY DEF StorageInv, HandedIsSafe, Untouched
<1>7. ReadyIsSafe'
  BY DEF StorageInv, ReadyIsSafe
<1> QED
  BY <1>1, <1>2, <1>3, <1>4, <1>5, <1>6, <1>7 DEF StorageInv

\* Unpinning keeps the inductive invariant.
LEMMA UnpinKeeps ==
    ASSUME ~StaleRuns, TypeInv, StorageInv, NEW a \in Actor, NEW o \in Object, Unpin(a, o)
    PROVE  StorageInv'
<1> USE DEF TypeInv, TypeOK, dbVars, siaVars, queueVars, execVars, releaseVars, Unpin,
  Continue
<1>1. KeptIsBehind' /\ OldRunsAreOver' /\ HandedIsDone'
  BY DEF StorageInv, KeptIsBehind, OldRunsAreOver, HandedIsDone, Running
<1>2. ReleasesAreOwn'
  BY DEF StorageInv, ReleasesAreOwn, Uploaded
<1>3. LateReleases'
  BY DEF StorageInv, LateReleases
<1>4. AheadIsFresh'
  <2> SUFFICES ASSUME NEW x \in Exec, NEW y \in Object, Ahead(x, y)'
               PROVE  pending'[y] = "none" /\ \A b \in Actor : y \notin todo'[b]
    BY DEF AheadIsFresh
  <2>1. Ahead(x, y)
    BY DEF Ahead, Uploaded
  <2>2. /\ pending[y] = "none" /\ y \notin artifacts
        /\ \A r0 \in Runs : y \notin handed[r0]
        /\ \A b \in Actor : y \notin todo[b]
    BY <2>1, AheadIsUnknown
  <2> QED
    BY <2>1, <2>2
<1>5. KeptIsSafe'
  BY DEF StorageInv, KeptIsSafe, MayHandOff, Untouched, Uploaded
<1>6. HandedIsSafe'
  BY DEF StorageInv, HandedIsSafe, Untouched, Running
<1>7. ReadyIsSafe'
  BY DEF StorageInv, ReadyIsSafe
<1> QED
  BY <1>1, <1>2, <1>3, <1>4, <1>5, <1>6, <1>7 DEF StorageInv

\* A failed unpin keeps the inductive invariant.
LEMMA UnpinFailsKeeps ==
    ASSUME ~StaleRuns, TypeInv, StorageInv, NEW a \in Actor, NEW o \in Object, UnpinFails(a, o)
    PROVE  StorageInv'
<1> USE DEF TypeInv, TypeOK, dbVars, siaVars, queueVars, execVars, releaseVars,
  UnpinFails, Loop, Continue
<1>1. KeptIsBehind' /\ OldRunsAreOver' /\ HandedIsDone'
  BY DEF StorageInv, KeptIsBehind, OldRunsAreOver, HandedIsDone, Running
<1>2. ReleasesAreOwn'
  BY DEF StorageInv, ReleasesAreOwn, Uploaded
<1>3. LateReleases'
  BY DEF StorageInv, LateReleases
<1>4. AheadIsFresh'
  <2> SUFFICES ASSUME NEW x \in Exec, NEW y \in Object, Ahead(x, y)'
               PROVE  pending'[y] = "none" /\ \A b \in Actor : y \notin todo'[b]
    BY DEF AheadIsFresh
  <2>1. Ahead(x, y)
    BY DEF Ahead, Uploaded
  <2>2. /\ pending[y] = "none" /\ y \notin artifacts
        /\ \A r0 \in Runs : y \notin handed[r0]
        /\ \A b \in Actor : y \notin todo[b]
    BY <2>1, AheadIsUnknown
  <2> QED
    BY <2>1, <2>2
<1>5. KeptIsSafe'
  BY DEF StorageInv, KeptIsSafe, MayHandOff, Untouched, Uploaded
<1>6. HandedIsSafe'
  BY DEF StorageInv, HandedIsSafe, Untouched, Running
<1>7. ReadyIsSafe'
  BY DEF StorageInv, ReadyIsSafe
<1> QED
  BY <1>1, <1>2, <1>3, <1>4, <1>5, <1>6, <1>7 DEF StorageInv

\* Forgetting a row keeps the inductive invariant.
LEMMA ForgetKeeps ==
    ASSUME ~StaleRuns, TypeInv, StorageInv, NEW a \in Actor, Forget(a)
    PROVE  StorageInv'
<1> USE DEF TypeInv, TypeOK, dbVars, siaVars, queueVars, execVars, releaseVars, Forget,
  Loop, Continue
<1>1. KeptIsBehind' /\ OldRunsAreOver'
  BY DEF StorageInv, KeptIsBehind, OldRunsAreOver, Running
<1>2. ReleasesAreOwn'
  BY DEF StorageInv, ReleasesAreOwn, Uploaded
<1>3. LateReleases'
  BY DEF StorageInv, LateReleases
<1>4. HandedIsDone'
  BY DEF StorageInv, HandedIsDone, LateReleases
<1>5. AheadIsFresh'
  <2> SUFFICES ASSUME NEW x \in Exec, NEW y \in Object, Ahead(x, y)'
               PROVE  pending'[y] = "none" /\ \A b \in Actor : y \notin todo'[b]
    BY DEF AheadIsFresh
  <2>1. Ahead(x, y)
    BY DEF Ahead, Uploaded
  <2>2. /\ pending[y] = "none" /\ y \notin artifacts
        /\ \A r0 \in Runs : y \notin handed[r0]
        /\ \A b \in Actor : y \notin todo[b]
    BY <2>1, AheadIsUnknown
  <2> QED
    BY <2>1, <2>2
<1>6. KeptIsSafe'
  BY DEF StorageInv, KeptIsSafe, MayHandOff, Untouched, Uploaded, Object
<1>7. HandedIsSafe'
  BY DEF StorageInv, HandedIsSafe, Untouched
<1>8. ReadyIsSafe'
  BY DEF StorageInv, ReadyIsSafe
<1> QED
  BY <1>1, <1>2, <1>3, <1>4, <1>5, <1>6, <1>7, <1>8 DEF StorageInv

\* Failing to forget a row keeps the inductive invariant.
LEMMA ForgetFailsKeeps ==
    ASSUME ~StaleRuns, TypeInv, StorageInv, NEW a \in Actor, ForgetFails(a)
    PROVE  StorageInv'
<1> USE DEF TypeInv, TypeOK, dbVars, siaVars, queueVars, execVars, releaseVars,
  ForgetFails, Drop, Loop, Continue
<1>1. KeptIsBehind' /\ OldRunsAreOver' /\ HandedIsDone'
  BY DEF StorageInv, KeptIsBehind, OldRunsAreOver, HandedIsDone, Running
<1>2. ReleasesAreOwn'
  BY DEF StorageInv, ReleasesAreOwn, Uploaded, Actor
<1>3. LateReleases'
  BY DEF StorageInv, LateReleases, Actor
<1>4. AheadIsFresh'
  <2> SUFFICES ASSUME NEW x \in Exec, NEW y \in Object, Ahead(x, y)'
               PROVE  pending'[y] = "none" /\ \A b \in Actor : y \notin todo'[b]
    BY DEF AheadIsFresh
  <2>1. Ahead(x, y)
    BY DEF Ahead, Uploaded
  <2>2. /\ pending[y] = "none" /\ y \notin artifacts
        /\ \A r0 \in Runs : y \notin handed[r0]
        /\ \A b \in Actor : y \notin todo[b]
    BY <2>1, AheadIsUnknown
  <2> QED
    BY <2>1, <2>2
<1>5. KeptIsSafe'
  <2>1. \A b \in Actor : todo'[b] \subseteq todo[b]
    OBVIOUS
  <2> QED
    BY <2>1 DEF StorageInv, KeptIsSafe, MayHandOff, Untouched, Uploaded
<1>6. HandedIsSafe'
  <2>1. \A b \in Actor : todo'[b] \subseteq todo[b]
    OBVIOUS
  <2> QED
    BY <2>1 DEF StorageInv, HandedIsSafe, Untouched
<1>7. ReadyIsSafe'
  BY DEF StorageInv, ReadyIsSafe, HandedIsDone, LateReleases, Object
<1> QED
  BY <1>1, <1>2, <1>3, <1>4, <1>5, <1>6, <1>7 DEF StorageInv

\* The start of an execution keeps the inductive invariant.
LEMMA StartUploadKeeps ==
    ASSUME ~StaleRuns, TypeInv, StorageInv, NEW e \in Exec, NEW r \in Runs, StartUpload(e, r)
    PROVE  StorageInv'
<1> USE DEF TypeInv, TypeOK, dbVars, siaVars, queueVars, execVars, releaseVars,
  StartUpload
<1>1. LateReleases' /\ HandedIsSafe' /\ ReadyIsSafe'
  BY DEF StorageInv, LateReleases, HandedIsSafe, ReadyIsSafe, Untouched
<1>2. ReleasesAreOwn'
  BY DEF StorageInv, ReleasesAreOwn, Uploaded
<1>3. KeptIsBehind'
  BY DEF StorageInv, KeptIsBehind
<1>4. OldRunsAreOver'
  BY DEF StorageInv, OldRunsAreOver, Running
<1>5. HandedIsDone'
  <2>1. \A r0 \in Runs : \A y \in handed[r0] : y[1] \in Exec /\ y[1] # e
    BY HandedByOthers
  <2> QED
    BY <2>1 DEF StorageInv, HandedIsDone
<1>6. AheadIsFresh'
  BY DEF StorageInv, AheadIsFresh, Ahead, Uploaded, Runs
<1>7. KeptIsSafe'
  BY DEF StorageInv, KeptIsSafe, KeptIsBehind, ReleasesAreOwn, MayHandOff, Untouched,
    Uploaded, Object
<1> QED
  BY <1>1, <1>2, <1>3, <1>4, <1>5, <1>6, <1>7 DEF StorageInv

\* An upload job that has nothing to do keeps the inductive invariant.
LEMMA SkipUploadKeeps ==
    ASSUME ~StaleRuns, TypeInv, StorageInv, NEW r \in Runs, SkipUpload(r)
    PROVE  StorageInv'
<1> USE DEF TypeInv, TypeOK, dbVars, siaVars, queueVars, execVars, releaseVars,
  SkipUpload
<1>1. ReleasesAreOwn' /\ KeptIsBehind' /\ LateReleases' /\ HandedIsDone' /\ AheadIsFresh' /\
     KeptIsSafe' /\ HandedIsSafe' /\ ReadyIsSafe'
  BY DEF StorageInv, ReleasesAreOwn, KeptIsBehind, LateReleases, HandedIsDone,
    AheadIsFresh, KeptIsSafe, HandedIsSafe, ReadyIsSafe, Ahead, MayHandOff, Untouched,
    Uploaded
<1>2. OldRunsAreOver'
  BY DEF StorageInv, OldRunsAreOver, Running
<1> QED
  BY <1>1, <1>2 DEF StorageInv

\* A checkpoint keeps the inductive invariant.
LEMMA CheckpointKeeps ==
    ASSUME ~StaleRuns, TypeInv, StorageInv, NEW e \in Exec, Checkpoint(e)
    PROVE  StorageInv'
<1> USE DEF TypeInv, TypeOK, dbVars, siaVars, queueVars, execVars, releaseVars,
  Checkpoint
<1>1. LateReleases' /\ HandedIsSafe' /\ ReadyIsSafe'
  BY DEF StorageInv, LateReleases, HandedIsSafe, ReadyIsSafe, Untouched
<1>2. ReleasesAreOwn'
  BY DEF StorageInv, ReleasesAreOwn, Uploaded
<1>3. KeptIsBehind'
  BY DEF StorageInv, KeptIsBehind
<1>4. OldRunsAreOver'
  BY DEF StorageInv, OldRunsAreOver, Running
<1>5. HandedIsDone'
  BY DEF StorageInv, HandedIsDone, Actor
<1>6. AheadIsFresh'
  <2> SUFFICES ASSUME NEW x \in Exec, NEW y \in Object, Ahead(x, y)'
               PROVE  pending'[y] = "none" /\ \A b \in Actor : y \notin todo'[b]
    BY DEF AheadIsFresh
  <2>1. Ahead(x, y)
    BY DEF Ahead, Uploaded
  <2>2. /\ pending[y] = "none" /\ y \notin artifacts
        /\ \A r0 \in Runs : y \notin handed[r0]
        /\ \A b \in Actor : y \notin todo[b]
    BY <2>1, AheadIsUnknown
  <2> QED
    BY <2>1, <2>2
<1>7. KeptIsSafe'
  BY DEF StorageInv, KeptIsSafe, MayHandOff, Untouched, Uploaded
<1> QED
  BY <1>1, <1>2, <1>3, <1>4, <1>5, <1>6, <1>7 DEF StorageInv

\* A stop at a checkpoint keeps the inductive invariant.
LEMMA StopKeeps ==
    ASSUME ~StaleRuns, TypeInv, StorageInv, NEW e \in Exec, Stop(e)
    PROVE  StorageInv'
<1> USE DEF TypeInv, TypeOK, dbVars, siaVars, queueVars, execVars, releaseVars, Stop,
  GiveBack, Begin, Continue
<1>1. ReleasesAreOwn'
  BY DEF StorageInv, ReleasesAreOwn, Uploaded
<1>2. KeptIsBehind'
  BY DEF StorageInv, KeptIsBehind
<1>3. LateReleases'
  BY StorageAssumption DEF StorageInv, LateReleases
<1>4. OldRunsAreOver'
  BY DEF StorageInv, OldRunsAreOver, Running
<1>5. HandedIsDone'
  BY DEF StorageInv, HandedIsDone
<1>6. AheadIsFresh'
  <2> SUFFICES ASSUME NEW x \in Exec, NEW y \in Object, Ahead(x, y)'
               PROVE  pending'[y] = "none" /\ \A b \in Actor : y \notin todo'[b]
    BY DEF AheadIsFresh
  <2>1. Ahead(x, y)
    BY DEF Ahead, Uploaded
  <2>2. /\ pending[y] = "none" /\ y \notin artifacts
        /\ \A r0 \in Runs : y \notin handed[r0]
        /\ \A b \in Actor : y \notin todo[b]
    BY <2>1, AheadIsUnknown
  <2> QED
    BY <2>1, <2>2 DEF Ahead, StorageInv, ReleasesAreOwn
<1>7. KeptIsSafe'
  BY DEF StorageInv, KeptIsSafe, KeptIsBehind, ReleasesAreOwn, MayHandOff, Untouched,
    Uploaded, Object
<1>8. HandedIsSafe'
  BY DEF StorageInv, HandedIsSafe, ReleasesAreOwn, HandedIsDone, Untouched, Object,
    Running
<1>9. ReadyIsSafe'
  BY DEF StorageInv, ReadyIsSafe, ReleasesAreOwn, HandedIsDone, Object
<1> QED
  BY <1>1, <1>2, <1>3, <1>4, <1>5, <1>6, <1>7, <1>8, <1>9 DEF StorageInv

\* Recording an object keeps the inductive invariant.
LEMMA RecordKeeps ==
    ASSUME ~StaleRuns, TypeInv, StorageInv, NEW e \in Exec, Record(e)
    PROVE  StorageInv'
<1> USE DEF TypeInv, TypeOK, dbVars, siaVars, queueVars, execVars, releaseVars, Record
<1>1. LateReleases' /\ ReadyIsSafe'
  BY DEF StorageInv, LateReleases, ReadyIsSafe
<1>2. ReleasesAreOwn'
  BY DEF StorageInv, ReleasesAreOwn, Uploaded
<1>3. KeptIsBehind'
  BY DEF StorageInv, KeptIsBehind
<1>4. OldRunsAreOver'
  BY DEF StorageInv, OldRunsAreOver, Running
<1>5. HandedIsDone'
  BY DEF StorageInv, HandedIsDone
<1>6. AheadIsFresh'
  <2> SUFFICES ASSUME NEW x \in Exec, NEW y \in Object, Ahead(x, y)'
               PROVE  pending'[y] = "none" /\ \A b \in Actor : y \notin todo'[b]
    BY DEF AheadIsFresh
  <2>1. Ahead(x, y)
    BY DEF Ahead, Uploaded
  <2>2. /\ pending[y] = "none" /\ y \notin artifacts
        /\ \A r0 \in Runs : y \notin handed[r0]
        /\ \A b \in Actor : y \notin todo[b]
    BY <2>1, AheadIsUnknown
  <2> QED
    BY <2>1, <2>2 DEF Ahead, Uploaded
<1>7. KeptIsSafe'
  <2>1. Uploaded(e) \in Object /\ Ahead(e, Uploaded(e))
    BY UploadedIsObject DEF Ahead, Uploaded
  <2>2. /\ pending[Uploaded(e)] = "none"
        /\ \A b \in Actor : Uploaded(e) \notin todo[b]
    BY <2>1, AheadIsUnknown
  <2>3. Uploaded(e)' = Uploaded(e) /\ Untouched(Uploaded(e))'
    BY <2>1, <2>2 DEF Uploaded, Untouched
  <2>4. \A y \in Object : Untouched(y) => Untouched(y)'
    BY <2>1, <2>2 DEF Untouched
  <2>5. \A x \in Exec : x # e => Uploaded(x)' = Uploaded(x) /\ Uploaded(x) \in Object
    BY UploadedIsObject DEF Uploaded
  <2> QED
    BY <2>3, <2>4, <2>5 DEF StorageInv, KeptIsSafe, MayHandOff
<1>8. HandedIsSafe'
  BY DEF StorageInv, HandedIsSafe, Untouched
<1> QED
  BY <1>1, <1>2, <1>3, <1>4, <1>5, <1>6, <1>7, <1>8 DEF StorageInv

\* Pinning it keeps the inductive invariant.
LEMMA PinKeeps ==
    ASSUME ~StaleRuns, TypeInv, StorageInv, NEW e \in Exec, Pin(e)
    PROVE  StorageInv'
<1> USE DEF TypeInv, TypeOK, dbVars, siaVars, queueVars, execVars, releaseVars, Pin,
  LastBatch
<1>1. LateReleases'
  BY DEF StorageInv, LateReleases
<1>2. ReleasesAreOwn'
  BY DEF StorageInv, ReleasesAreOwn, Uploaded
<1>3. KeptIsBehind'
  <2>1. Uploaded(e)[1] = e /\ Uploaded(e)[2] = batch[e] /\ batch[e] \in Nat
    BY DEF Uploaded
  <2>2. \A y \in kept[e] : y[1] = e /\ y[2] < batch[e] /\ y[2] \in Nat
    BY DEF StorageInv, KeptIsBehind, Object
  <2>3. \A y \in kept'[e] : y[1] = e /\ y[2] < batch[e] + 1
    BY <2>1, <2>2
  <2>4. \A y \in kept'[e] : y[1] = e /\ (phase'[e] = "handoff" \/ y[2] < batch'[e])
    BY <2>3
  <2> QED
    BY <2>4 DEF StorageInv, KeptIsBehind
<1>4. OldRunsAreOver'
  BY DEF StorageInv, OldRunsAreOver, Running
<1>5. HandedIsDone'
  <2>1. \A r0 \in Runs : \A y \in handed[r0] : y[1] \in Exec /\ y[1] # e
    BY HandedByOthers
  <2> QED
    BY <2>1 DEF StorageInv, HandedIsDone
<1>6. AheadIsFresh'
  <2> SUFFICES ASSUME NEW x \in Exec, NEW y \in Object, Ahead(x, y)'
               PROVE  pending'[y] = "none" /\ \A b \in Actor : y \notin todo'[b]
    BY DEF AheadIsFresh
  <2>1. Ahead(x, y)
    <3>1. CASE x # e
      BY <3>1 DEF Ahead, Uploaded
    <3>2. CASE x = e
      <4>1. y[2] \in Nat /\ y[3] \in Nat /\ batch[e] \in Nat /\ try[e] \in Nat
        BY DEF Object
      <4>2. CASE LastBatch(e)
        BY <3>2, <4>1, <4>2 DEF Ahead, Uploaded
      <4>3. CASE ~LastBatch(e)
        <5>1. batch'[e] = batch[e] + 1 /\ try'[e] = try[e] /\ phase'[e] = "check"
          BY <4>3
        <5>2. y[1] = e /\ y[2] >= batch[e] + 1 /\ y[3] >= try[e]
          BY <3>2, <5>1 DEF Ahead
        <5>3. y[2] >= batch[e] /\ y # Uploaded(e)
          BY <4>1, <5>2 DEF Uploaded
        <5> QED
          BY <3>2, <5>2, <5>3 DEF Ahead
      <4> QED
        BY <4>2, <4>3
    <3> QED
      BY <3>1, <3>2
  <2>2. /\ pending[y] = "none" /\ y \notin artifacts
        /\ \A r0 \in Runs : y \notin handed[r0]
        /\ \A b \in Actor : y \notin todo[b]
    BY <2>1, AheadIsUnknown
  <2> QED
    BY <2>1, <2>2
<1>7. KeptIsSafe'
  <2> SUFFICES ASSUME NEW x \in Exec, MayHandOff(x),
                      phase'[x] \in {"check", "upload", "recorded", "handoff", "retry"}
               PROVE  /\ \A y \in kept'[x] : y \in pinned' /\ Untouched(y)
                      /\ phase'[x] = "recorded" => Untouched(Uploaded(x)')
    BY DEF KeptIsSafe, MayHandOff, Untouched
  <2>1. /\ phase[x] \in {"check", "upload", "recorded", "handoff", "retry"}
        /\ \A y \in kept[x] : y \in pinned /\ Untouched(y)
        /\ phase[x] = "recorded" => Untouched(Uploaded(x))
    BY DEF StorageInv, KeptIsSafe
  <2>2. x # e => kept'[x] = kept[x] /\ phase'[x] = phase[x] /\ Uploaded(x)' = Uploaded(x)
    BY DEF Uploaded
  <2>3. kept'[e] = kept[e] \cup {Uploaded(e)} /\ phase'[e] # "recorded"
    OBVIOUS
  <2> QED
    BY <2>1, <2>2, <2>3
<1>8. HandedIsSafe'
  BY DEF StorageInv, HandedIsSafe, Untouched
<1>9. ReadyIsSafe'
  BY DEF StorageInv, ReadyIsSafe
<1> QED
  BY <1>1, <1>2, <1>3, <1>4, <1>5, <1>6, <1>7, <1>8, <1>9 DEF StorageInv

\* A failed upload keeps the inductive invariant.
LEMMA UploadFailsKeeps ==
    ASSUME ~StaleRuns, TypeInv, StorageInv, NEW e \in Exec, UploadFails(e)
    PROVE  StorageInv'
<1> USE DEF TypeInv, TypeOK, dbVars, siaVars, queueVars, execVars, releaseVars,
  UploadFails, FailBatch, GiveBack, Begin, Continue, GivesBack
<1>1. ReleasesAreOwn'
  BY DEF StorageInv, ReleasesAreOwn, Uploaded, Actor
<1>2. KeptIsBehind'
  BY DEF StorageInv, KeptIsBehind
<1>3. LateReleases'
  <2>1. call'["finalize"] = call["finalize"] /\ call'["delete"] = call["delete"]
    BY StorageAssumption DEF Actor
  <2>2. UNCHANGED <<status, handOff, finalizing, deletion>>
    OBVIOUS
  <2> QED
    BY <2>1, <2>2 DEF StorageInv, LateReleases
<1>4. OldRunsAreOver'
  <2>1. PICK p \in {"retry", "fail"} : GivesBack(e, p)
    BY FailBatchEffect, {} \in SUBSET {Uploaded(e)}
  <2> QED
    BY <2>1 DEF StorageInv, OldRunsAreOver, Running
<1>5. HandedIsDone'
  <2>1. PICK p \in {"retry", "fail"} : GivesBack(e, p)
    BY FailBatchEffect, {} \in SUBSET {Uploaded(e)}
  <2>2. \A r0 \in Runs : \A y \in handed[r0] : y[1] \in Exec /\ y[1] # e
    BY HandedByOthers
  <2> QED
    BY <2>1, <2>2 DEF StorageInv, HandedIsDone
<1>6. AheadIsFresh'
  <2> SUFFICES ASSUME NEW x \in Exec, NEW y \in Object, Ahead(x, y)'
               PROVE  pending'[y] = "none" /\ \A b \in Actor : y \notin todo'[b]
    BY DEF AheadIsFresh
  <2>1. Ahead(x, y)
    BY DEF Ahead, Uploaded
  <2>2. /\ pending[y] = "none" /\ y \notin artifacts
        /\ \A r0 \in Runs : y \notin handed[r0]
        /\ \A b \in Actor : y \notin todo[b]
    BY <2>1, AheadIsUnknown
  <2> QED
    BY <2>1, <2>2 DEF Ahead, Uploaded, StorageInv, ReleasesAreOwn
<1>7. KeptIsSafe'
  <2>1. PICK p \in {"retry", "fail"} : GivesBack(e, p)
    BY FailBatchEffect, {} \in SUBSET {Uploaded(e)}
  <2> SUFFICES ASSUME NEW x \in Exec, MayHandOff(x),
                      phase'[x] \in {"check", "upload", "recorded", "handoff", "retry"}
               PROVE  /\ \A y \in kept[x] : y \in pinned' /\ Untouched(y)'
                      /\ phase'[x] = "recorded" => Untouched(Uploaded(x))'
    BY DEF KeptIsSafe, MayHandOff
  <2>2. CASE x = e
    <3>1. p = "retry" /\ phase'[e] = "retry"
      BY <2>1, <2>2
    <3>2. \A y \in kept[e] : y # Uploaded(e) /\ y[1] = e
      BY DEF StorageInv, KeptIsBehind, Uploaded
    <3>3. \A y \in kept[e] : y \in pinned /\ Untouched(y)
      BY <2>2 DEF StorageInv, KeptIsSafe
    <3> QED
      BY <2>1, <2>2, <3>1, <3>2, <3>3 DEF Untouched
  <2>3. CASE x # e
    <3>1. phase'[x] = phase[x]
      BY <2>1, <2>3
    <3>2. \A y \in kept[x] : y[1] = x /\ y \in pinned /\ Untouched(y)
      BY <3>1 DEF StorageInv, KeptIsBehind, KeptIsSafe
    <3>3. phase[x] = "recorded" => Untouched(Uploaded(x))
      BY DEF StorageInv, KeptIsSafe
    <3>4. \A y \in Object : pending[y] # "release" => pending'[y] # "release"
      OBVIOUS
    <3>5. \A y : /\ y[1] = x
                 /\ \A b \in Actor : y \notin todo[b]
                 => \A b \in Actor : y \notin todo'[b]
      BY <2>1, <2>3
    <3>6. \A y \in Object : y[1] = x /\ Untouched(y) => Untouched(y)'
      BY <3>4, <3>5 DEF Untouched
    <3>7. kept[x] \subseteq Object /\ Uploaded(x) \in Object /\ Uploaded(x)[1] = x
      BY UploadedIsObject DEF Uploaded
    <3>8. Uploaded(x)' = Uploaded(x) /\ pinned' = pinned
      BY DEF Uploaded
    <3>9. phase'[x] = "recorded" => Untouched(Uploaded(x))'
      BY <3>1, <3>3, <3>6, <3>7, <3>8
    <3>10. \A y \in kept[x] : y \in pinned' /\ Untouched(y)'
      BY <3>2, <3>6, <3>7, <3>8
    <3> QED
      BY <3>9, <3>10
  <2> QED
    BY <2>2, <2>3
<1>8. HandedIsSafe'
  <2>1. PICK p \in {"retry", "fail"} : GivesBack(e, p)
    BY FailBatchEffect, {} \in SUBSET {Uploaded(e)}
  <2>2. \A r0 \in Runs : \A y \in handed[r0] : y[1] \in Exec /\ y[1] # e
    BY HandedByOthers
  <2>3. \A r0 \in Runs : \A y \in handed[r0] : y # Uploaded(e)
    BY <2>2 DEF Uploaded
  <2> QED
    BY <2>1, <2>2, <2>3 DEF StorageInv, HandedIsSafe, Untouched
<1>9. ReadyIsSafe'
  <2>1. PICK p \in {"retry", "fail"} : GivesBack(e, p)
    BY FailBatchEffect, {} \in SUBSET {Uploaded(e)}
  <2>2. \A r0 \in Runs : \A y \in handed[r0] : y[1] \in Exec /\ y[1] # e
    BY HandedByOthers
  <2>3. \A y \in artifacts : y[1] # e
    BY <2>2 DEF StorageInv, HandedIsDone
  <2> QED
    BY <2>1, <2>3 DEF StorageInv, ReadyIsSafe
<1> QED
  BY <1>1, <1>2, <1>3, <1>4, <1>5, <1>6, <1>7, <1>8, <1>9 DEF StorageInv

\* A failed pin keeps the inductive invariant.
LEMMA PinFailsKeeps ==
    ASSUME ~StaleRuns, TypeInv, StorageInv, NEW e \in Exec, PinFails(e)
    PROVE  StorageInv'
<1> USE DEF TypeInv, TypeOK, dbVars, siaVars, queueVars, execVars, releaseVars,
  PinFails, FailBatch, GiveBack, Begin, Continue, GivesBack
<1>1. ReleasesAreOwn'
  <2>1. PICK p \in {"retry", "fail"} : GivesBack(e, p)
    BY FailBatchEffect
  <2>2. Uploaded(e)' = Uploaded(e) /\ Uploaded(e)[1] = e
    BY DEF Uploaded
  <2>3. call'[e] # "listAll" /\ (call'[e] = "none" => todo'[e] = {})
    BY StorageAssumption DEF StorageInv, ReleasesAreOwn, Actor, Uploaded
  <2>4. \A a \in Actor \ {e} : call'[a] = call[a]
    BY DEF Actor
  <2> HIDE DEF FailBatch
  <2> QED
    BY <2>1, <2>2, <2>3, <2>4 DEF StorageInv, ReleasesAreOwn, Actor, Uploaded
<1>2. KeptIsBehind'
  BY DEF StorageInv, KeptIsBehind
<1>3. LateReleases'
  <2>1. call'["finalize"] = call["finalize"] /\ call'["delete"] = call["delete"]
    BY StorageAssumption DEF Actor
  <2>2. UNCHANGED <<status, handOff, finalizing, deletion>>
    OBVIOUS
  <2> QED
    BY <2>1, <2>2 DEF StorageInv, LateReleases
<1>4. OldRunsAreOver'
  <2>1. PICK p \in {"retry", "fail"} : GivesBack(e, p)
    BY FailBatchEffect
  <2> QED
    BY <2>1 DEF StorageInv, OldRunsAreOver, Running
<1>5. HandedIsDone'
  <2>1. PICK p \in {"retry", "fail"} : GivesBack(e, p)
    BY FailBatchEffect
  <2>2. \A r0 \in Runs : \A y \in handed[r0] : y[1] \in Exec /\ y[1] # e
    BY HandedByOthers
  <2> QED
    BY <2>1, <2>2 DEF StorageInv, HandedIsDone
<1>6. AheadIsFresh'
  <2> SUFFICES ASSUME NEW x \in Exec, NEW y \in Object, Ahead(x, y)'
               PROVE  pending'[y] = "none" /\ \A b \in Actor : y \notin todo'[b]
    BY DEF AheadIsFresh
  <2>1. Ahead(x, y)
    BY DEF Ahead, Uploaded
  <2>2. /\ pending[y] = "none" /\ y \notin artifacts
        /\ \A r0 \in Runs : y \notin handed[r0]
        /\ \A b \in Actor : y \notin todo[b]
    BY <2>1, AheadIsUnknown
  <2> QED
    BY <2>1, <2>2 DEF Ahead, Uploaded, StorageInv, ReleasesAreOwn
<1>7. KeptIsSafe'
  <2>1. PICK p \in {"retry", "fail"} : GivesBack(e, p)
    BY FailBatchEffect
  <2> SUFFICES ASSUME NEW x \in Exec, MayHandOff(x),
                      phase'[x] \in {"check", "upload", "recorded", "handoff", "retry"}
               PROVE  /\ \A y \in kept[x] : y \in pinned' /\ Untouched(y)'
                      /\ phase'[x] = "recorded" => Untouched(Uploaded(x))'
    BY DEF KeptIsSafe, MayHandOff
  <2>2. CASE x = e
    <3>1. p = "retry" /\ phase'[e] = "retry"
      BY <2>1, <2>2
    <3>2. \A y \in kept[e] : y # Uploaded(e) /\ y[1] = e
      BY DEF StorageInv, KeptIsBehind, Uploaded
    <3>3. \A y \in kept[e] : y \in pinned /\ Untouched(y)
      BY <2>2 DEF StorageInv, KeptIsSafe
    <3> QED
      BY <2>1, <2>2, <3>1, <3>2, <3>3 DEF Untouched
  <2>3. CASE x # e
    <3>1. phase'[x] = phase[x]
      BY <2>1, <2>3
    <3>2. \A y \in kept[x] : y[1] = x /\ y \in pinned /\ Untouched(y)
      BY <3>1 DEF StorageInv, KeptIsBehind, KeptIsSafe
    <3>3. phase[x] = "recorded" => Untouched(Uploaded(x))
      BY DEF StorageInv, KeptIsSafe
    <3>4. Uploaded(x)[1] = x /\ Uploaded(e)[1] = e /\ Uploaded(x) # Uploaded(e)
      BY <2>3 DEF Uploaded
    <3> QED
      BY SMTT(30), <2>1, <2>3, <3>1, <3>2, <3>3, <3>4 DEF Untouched, Uploaded
  <2> QED
    BY <2>2, <2>3
<1>8. HandedIsSafe'
  <2>1. PICK p \in {"retry", "fail"} : GivesBack(e, p)
    BY FailBatchEffect
  <2>2. \A r0 \in Runs : \A y \in handed[r0] : y[1] \in Exec /\ y[1] # e
    BY HandedByOthers
  <2>3. \A r0 \in Runs : \A y \in handed[r0] : y # Uploaded(e)
    BY <2>2 DEF Uploaded
  <2> QED
    BY <2>1, <2>2, <2>3 DEF StorageInv, HandedIsSafe, Untouched
<1>9. ReadyIsSafe'
  <2>1. PICK p \in {"retry", "fail"} : GivesBack(e, p)
    BY FailBatchEffect
  <2>2. \A r0 \in Runs : \A y \in handed[r0] : y[1] \in Exec /\ y[1] # e
    BY HandedByOthers
  <2>3. \A y \in artifacts : y[1] # e
    BY <2>2 DEF StorageInv, HandedIsDone
  <2> QED
    BY <2>1, <2>3 DEF StorageInv, ReadyIsSafe
<1> QED
  BY <1>1, <1>2, <1>3, <1>4, <1>5, <1>6, <1>7, <1>8, <1>9 DEF StorageInv

\* Trying the first batch again keeps the inductive invariant.
LEMMA TryAgainKeeps ==
    ASSUME ~StaleRuns, TypeInv, StorageInv, NEW e \in Exec, TryAgain(e)
    PROVE  StorageInv'
<1> USE DEF TypeInv, TypeOK, dbVars, siaVars, queueVars, execVars, releaseVars, TryAgain
<1>1. LateReleases' /\ HandedIsSafe' /\ ReadyIsSafe'
  BY DEF StorageInv, LateReleases, HandedIsSafe, ReadyIsSafe, Untouched
<1>2. ReleasesAreOwn'
  BY DEF StorageInv, ReleasesAreOwn, Uploaded
<1>3. KeptIsBehind'
  BY DEF StorageInv, KeptIsBehind
<1>4. OldRunsAreOver'
  BY DEF StorageInv, OldRunsAreOver, Running
<1>5. HandedIsDone'
  BY DEF StorageInv, HandedIsDone
<1>6. AheadIsFresh'
  <2> SUFFICES ASSUME NEW x \in Exec, NEW y \in Object, Ahead(x, y)'
               PROVE  pending'[y] = "none" /\ \A b \in Actor : y \notin todo'[b]
    BY DEF AheadIsFresh
  <2>1. Ahead(x, y)
    <3>1. CASE x # e
      BY <3>1 DEF Ahead, Uploaded
    <3>2. CASE x = e
      <4>1. y[3] \in Nat /\ try[e] \in Nat
        BY DEF Object
      <4>2. y[1] = e /\ y[2] >= batch[e] /\ y[3] >= try[e] + 1
        BY <3>2 DEF Ahead
      <4>3. y[3] >= try[e] /\ y # Uploaded(e)
        BY <4>1, <4>2 DEF Uploaded
      <4> QED
        BY <3>2, <4>2, <4>3 DEF Ahead
    <3> QED
      BY <3>1, <3>2
  <2>2. /\ pending[y] = "none" /\ y \notin artifacts
        /\ \A r0 \in Runs : y \notin handed[r0]
        /\ \A b \in Actor : y \notin todo[b]
    BY <2>1, AheadIsUnknown
  <2> QED
    BY <2>1, <2>2
<1>7. KeptIsSafe'
  BY DEF StorageInv, KeptIsSafe, MayHandOff, Untouched, Uploaded
<1> QED
  BY <1>1, <1>2, <1>3, <1>4, <1>5, <1>6, <1>7 DEF StorageInv

\* The end of a stopped execution keeps the inductive invariant.
LEMMA EndStoppedKeeps ==
    ASSUME ~StaleRuns, TypeInv, StorageInv, NEW e \in Exec, EndStopped(e)
    PROVE  StorageInv'
<1> USE DEF TypeInv, TypeOK, dbVars, siaVars, queueVars, execVars, releaseVars,
  EndStopped, End
<1>1. LateReleases' /\ HandedIsSafe' /\ ReadyIsSafe'
  BY DEF StorageInv, LateReleases, HandedIsSafe, ReadyIsSafe, Untouched
<1>2. ReleasesAreOwn'
  BY DEF StorageInv, ReleasesAreOwn, Uploaded
<1>3. KeptIsBehind'
  BY DEF StorageInv, KeptIsBehind
<1>4. OldRunsAreOver'
  BY DEF StorageInv, OldRunsAreOver, Running
<1>5. HandedIsDone'
  <2>1. \A r0 \in Runs : \A y \in handed[r0] : y[1] \in Exec /\ y[1] # e
    BY HandedByOthers
  <2> QED
    BY <2>1 DEF StorageInv, HandedIsDone
<1>6. AheadIsFresh'
  <2> SUFFICES ASSUME NEW x \in Exec, NEW y \in Object, Ahead(x, y)'
               PROVE  pending'[y] = "none" /\ \A b \in Actor : y \notin todo'[b]
    BY DEF AheadIsFresh
  <2>1. Ahead(x, y)
    BY DEF Ahead, Uploaded
  <2>2. /\ pending[y] = "none" /\ y \notin artifacts
        /\ \A r0 \in Runs : y \notin handed[r0]
        /\ \A b \in Actor : y \notin todo[b]
    BY <2>1, AheadIsUnknown
  <2> QED
    BY <2>1, <2>2
<1>7. KeptIsSafe'
  BY DEF StorageInv, KeptIsSafe, MayHandOff, Untouched, Uploaded
<1> QED
  BY <1>1, <1>2, <1>3, <1>4, <1>5, <1>6, <1>7 DEF StorageInv

\* The end of a failed execution keeps the inductive invariant.
LEMMA EndFailedKeeps ==
    ASSUME ~StaleRuns, TypeInv, StorageInv, NEW e \in Exec, EndFailed(e)
    PROVE  StorageInv'
<1> USE DEF TypeInv, TypeOK, dbVars, siaVars, queueVars, execVars, releaseVars,
  EndFailed, End, Requeue
<1>1. LateReleases' /\ HandedIsSafe' /\ ReadyIsSafe'
  BY DEF StorageInv, LateReleases, HandedIsSafe, ReadyIsSafe, Untouched
<1>2. ReleasesAreOwn'
  BY DEF StorageInv, ReleasesAreOwn, Uploaded
<1>3. KeptIsBehind'
  BY DEF StorageInv, KeptIsBehind
<1>4. OldRunsAreOver'
  BY DEF StorageInv, OldRunsAreOver, Running
<1>5. HandedIsDone'
  <2>1. \A r0 \in Runs : \A y \in handed[r0] : y[1] \in Exec /\ y[1] # e
    BY HandedByOthers
  <2> QED
    BY <2>1 DEF StorageInv, HandedIsDone
<1>6. AheadIsFresh'
  <2> SUFFICES ASSUME NEW x \in Exec, NEW y \in Object, Ahead(x, y)'
               PROVE  pending'[y] = "none" /\ \A b \in Actor : y \notin todo'[b]
    BY DEF AheadIsFresh
  <2>1. Ahead(x, y)
    BY DEF Ahead, Uploaded
  <2>2. /\ pending[y] = "none" /\ y \notin artifacts
        /\ \A r0 \in Runs : y \notin handed[r0]
        /\ \A b \in Actor : y \notin todo[b]
    BY <2>1, AheadIsUnknown
  <2> QED
    BY <2>1, <2>2
<1>7. KeptIsSafe'
  BY DEF StorageInv, KeptIsSafe, MayHandOff, Untouched, Uploaded
<1> QED
  BY <1>1, <1>2, <1>3, <1>4, <1>5, <1>6, <1>7 DEF StorageInv

\* The hand-off to finalize keeps the inductive invariant.
LEMMA HandOffEndsKeeps ==
    ASSUME ~StaleRuns, TypeInv, StorageInv, NEW e \in Exec, HandOffEnds(e)
    PROVE  StorageInv'
<1> USE DEF TypeInv, TypeOK, dbVars, siaVars, queueVars, execVars, releaseVars,
  HandOffEnds, AddFinalize, End, Requeue
<1>1. ReadyIsSafe'
  BY DEF StorageInv, ReadyIsSafe
<1>2. ReleasesAreOwn'
  BY DEF StorageInv, ReleasesAreOwn, Uploaded
<1>3. KeptIsBehind'
  BY DEF StorageInv, KeptIsBehind
<1>4. LateReleases'
  BY DEF StorageInv, LateReleases
<1>5. OldRunsAreOver'
  <2>1. handOff[runOf[e]] = "none" => ~(runOf[e] < run) /\ ~(status = "failed" /\ runOf[e] =
       run)
    BY DEF StorageInv, OldRunsAreOver, Running
  <2>2. ~(runOf[e] > run)
    BY DEF StorageInv, OldRunsAreOver, Running
  <2>3. \A r0 \in Runs : handOff'[r0] = handOff[r0] \/ (r0 = runOf[e] /\ handOff[r0] = "none")
    OBVIOUS
  <2> QED
    BY <2>1, <2>2, <2>3 DEF StorageInv, OldRunsAreOver, Running
<1>6. HandedIsDone'
  <2>1. \A r0 \in Runs : \A y \in handed[r0] : y[1] \in Exec /\ y[1] # e
    BY HandedByOthers
  <2>2. \A y \in kept[e] : y[1] = e
    BY DEF StorageInv, KeptIsBehind
  <2>3. CASE UNCHANGED <<handOff, handed>>
    BY <2>1, <2>3 DEF StorageInv, HandedIsDone
  <2>4. CASE /\ handOff[runOf[e]] = "none"
             /\ handOff' = [handOff EXCEPT ![runOf[e]] = "queued"]
             /\ handed' = [handed EXCEPT ![runOf[e]] = kept[e]]
    <3>1. \A r0 \in Runs : handed[r0] # {} => handed'[r0] = handed[r0]
      BY <2>4 DEF StorageInv, HandedIsDone
    <3>2. /\ \A r0 \in Runs : handOff'[r0] = "none" => handed'[r0] = {}
          /\ \A r0 \in Runs : \A y \in handed'[r0] : phase'[y[1]] = "done"
      BY <2>1, <2>2, <2>4 DEF StorageInv, HandedIsDone
    <3>3. \A r0, s0 \in Runs : r0 # s0 => handed'[r0] \cap handed'[s0] = {}
      BY <2>1, <2>2, <2>4 DEF StorageInv, HandedIsDone
    <3>4. artifacts' # {} => \E r0 \in Runs : artifacts' \subseteq handed'[r0]
      BY <3>1 DEF StorageInv, HandedIsDone
    <3>5. status' = "ready" =>
            \E r0 \in Runs : handOff'[r0] # "none" /\ artifacts' = handed'[r0]
      BY <2>4, <3>1 DEF StorageInv, HandedIsDone
    <3> QED
      BY <3>2, <3>3, <3>4, <3>5 DEF HandedIsDone
  <2> QED
    BY <2>3, <2>4
<1>7. AheadIsFresh'
  <2> SUFFICES ASSUME NEW x \in Exec, NEW y \in Object, Ahead(x, y)'
               PROVE  pending'[y] = "none" /\ \A b \in Actor : y \notin todo'[b]
    BY DEF AheadIsFresh
  <2>1. Ahead(x, y)
    BY DEF Ahead, Uploaded
  <2>2. /\ pending[y] = "none" /\ y \notin artifacts
        /\ \A r0 \in Runs : y \notin handed[r0]
        /\ \A b \in Actor : y \notin todo[b]
    BY <2>1, AheadIsUnknown
  <2> QED
    BY <2>1, <2>2
<1>8. KeptIsSafe'
  <2> SUFFICES ASSUME NEW x \in Exec, MayHandOff(x)',
                      phase'[x] \in {"check", "upload", "recorded", "handoff", "retry"}
               PROVE  /\ \A y \in kept'[x] : y \in pinned /\ Untouched(y)
                      /\ phase'[x] = "recorded" => Untouched(Uploaded(x)')
    BY DEF KeptIsSafe, Untouched
  <2>1. x # e
    OBVIOUS
  <2>2. MayHandOff(x)
    BY <2>1 DEF MayHandOff
  <2>3. kept'[x] = kept[x] /\ phase'[x] = phase[x] /\ Uploaded(x)' = Uploaded(x)
    BY <2>1 DEF Uploaded
  <2> QED
    BY <2>2, <2>3 DEF StorageInv, KeptIsSafe
<1>9. HandedIsSafe'
  <2> SUFFICES ASSUME NEW r0 \in Runs, status = "processing", handOff'[r0] = "queued",
                      NEW y \in handed'[r0]
               PROVE  y \in pinned /\ Untouched(y)
    BY DEF HandedIsSafe, Untouched
  <2>1. CASE handOff[r0] = "queued"
    BY <2>1 DEF StorageInv, HandedIsSafe
  <2>2. CASE handOff[r0] # "queued"
    <3>1. r0 = runOf[e] /\ handOff[r0] = "none" /\ handed'[r0] = kept[e]
      BY <2>2
    <3> QED
      BY <3>1 DEF StorageInv, KeptIsSafe, MayHandOff
  <2> QED
    BY <2>1, <2>2
<1> QED
  BY <1>1, <1>2, <1>3, <1>4, <1>5, <1>6, <1>7, <1>8, <1>9 DEF StorageInv

\* The death of an execution keeps the inductive invariant.
LEMMA CrashUploadKeeps ==
    ASSUME ~StaleRuns, TypeInv, StorageInv, NEW e \in Exec, CrashUpload(e)
    PROVE  StorageInv'
<1> USE DEF TypeInv, TypeOK, dbVars, siaVars, queueVars, execVars, releaseVars,
  CrashUpload, End, Drop, Continue, Requeue
<1>1. ReleasesAreOwn'
  BY DEF StorageInv, ReleasesAreOwn, Uploaded, Actor
<1>2. KeptIsBehind'
  BY DEF StorageInv, KeptIsBehind
<1>3. LateReleases'
  BY DEF StorageInv, LateReleases
<1>4. OldRunsAreOver'
  BY DEF StorageInv, OldRunsAreOver, Running
<1>5. HandedIsDone'
  <2>1. \A r0 \in Runs : \A y \in handed[r0] : y[1] \in Exec /\ y[1] # e
    BY HandedByOthers DEF Running
  <2> QED
    BY <2>1 DEF StorageInv, HandedIsDone
<1>6. AheadIsFresh'
  <2> SUFFICES ASSUME NEW x \in Exec, NEW y \in Object, Ahead(x, y)'
               PROVE  pending'[y] = "none" /\ \A b \in Actor : y \notin todo'[b]
    BY DEF AheadIsFresh
  <2>1. Ahead(x, y)
    BY DEF Ahead, Uploaded
  <2>2. /\ pending[y] = "none" /\ y \notin artifacts
        /\ \A r0 \in Runs : y \notin handed[r0]
        /\ \A b \in Actor : y \notin todo[b]
    BY <2>1, AheadIsUnknown
  <2> QED
    BY <2>1, <2>2
<1>7. KeptIsSafe'
  BY DEF StorageInv, KeptIsSafe, MayHandOff, Untouched, Uploaded
<1>8. HandedIsSafe'
  BY DEF StorageInv, HandedIsSafe, Untouched
<1>9. ReadyIsSafe'
  BY DEF StorageInv, ReadyIsSafe
<1> QED
  BY <1>1, <1>2, <1>3, <1>4, <1>5, <1>6, <1>7, <1>8, <1>9 DEF StorageInv

\* A stalled execution keeps the inductive invariant.
LEMMA StallKeeps ==
    ASSUME ~StaleRuns, TypeInv, StorageInv, NEW e \in Exec, Stall(e)
    PROVE  StorageInv'
<1> USE DEF TypeInv, TypeOK, dbVars, siaVars, queueVars, execVars, releaseVars, Stall
<1>1. ReleasesAreOwn' /\ KeptIsBehind' /\ LateReleases' /\ HandedIsDone' /\ AheadIsFresh' /\
     KeptIsSafe' /\ HandedIsSafe' /\ ReadyIsSafe'
  BY DEF StorageInv, ReleasesAreOwn, KeptIsBehind, LateReleases, HandedIsDone,
    AheadIsFresh, KeptIsSafe, HandedIsSafe, ReadyIsSafe, Ahead, MayHandOff, Untouched,
    Uploaded
<1>2. OldRunsAreOver'
  BY DEF StorageInv, OldRunsAreOver, Running
<1> QED
  BY <1>1, <1>2 DEF StorageInv

\* Giving up a run that is quiet keeps the inductive invariant.
LEMMA GiveUpKeeps ==
    ASSUME ~StaleRuns, TypeInv, StorageInv, NEW r \in Runs, GiveUp(r)
    PROVE  StorageInv'
<1> USE DEF TypeInv, TypeOK, dbVars, siaVars, queueVars, execVars, releaseVars, GiveUp,
  Quiet, FailAsset
<1>1. ReleasesAreOwn' /\ KeptIsBehind' /\ AheadIsFresh'
  BY DEF StorageInv, ReleasesAreOwn, KeptIsBehind, AheadIsFresh, Ahead, Uploaded
<1>2. LateReleases'
  BY DEF StorageInv, LateReleases
<1>3. OldRunsAreOver'
  BY DEF StorageInv, OldRunsAreOver, Running
<1>4. HandedIsDone'
  BY DEF StorageInv, HandedIsDone
<1>5. KeptIsSafe'
  BY DEF KeptIsSafe, MayHandOff
<1>6. HandedIsSafe'
  BY DEF HandedIsSafe
<1>7. ReadyIsSafe'
  BY DEF StorageInv, ReadyIsSafe
<1> QED
  BY <1>1, <1>2, <1>3, <1>4, <1>5, <1>6, <1>7 DEF StorageInv

\* Retrying a failed asset keeps the inductive invariant.
LEMMA RetryAssetKeeps ==
    ASSUME ~StaleRuns, TypeInv, StorageInv, RetryAsset
    PROVE  StorageInv'
<1> USE DEF TypeInv, TypeOK, dbVars, siaVars, queueVars, execVars, releaseVars,
  RetryAsset
<1>1. ReleasesAreOwn' /\ KeptIsBehind' /\ AheadIsFresh'
  BY DEF StorageInv, ReleasesAreOwn, KeptIsBehind, AheadIsFresh, Ahead, Uploaded
<1>2. LateReleases'
  BY DEF StorageInv, LateReleases
<1>3. OldRunsAreOver'
  <2>1. run \in Nat /\ \A r0 \in Runs : r0 \in Nat
    BY DEF Runs
  <2>2. \A r0 \in Runs : r0 < run + 1 <=> (r0 < run \/ r0 = run)
    BY <2>1
  <2>3. \A r0 \in Runs : r0 > run + 1 => r0 > run /\ r0 # run + 1
    BY <2>1
  <2>4. \A r0 \in Runs : r0 < run + 1 => r0 # run + 1
    BY <2>1
  <2> QED
    BY <2>1, <2>2, <2>3, <2>4 DEF StorageInv, OldRunsAreOver, Running
<1>4. HandedIsDone'
  BY DEF StorageInv, HandedIsDone
<1>5. KeptIsSafe'
  <2>1. run \in Nat /\ \A r0 \in Runs : r0 \in Nat
    BY DEF Runs
  <2>2. \A r0 \in Runs : r0 < run \/ r0 = run \/ r0 > run
    BY <2>1
  <2>3. \A x \in Exec : Running(x) => handOff[runOf[x]] # "none"
    BY <2>2 DEF StorageInv, OldRunsAreOver
  <2> QED
    BY <2>3 DEF KeptIsSafe, MayHandOff, Running
<1>6. HandedIsSafe'
  BY DEF StorageInv, HandedIsSafe, OldRunsAreOver, Runs
<1>7. ReadyIsSafe'
  BY DEF ReadyIsSafe
<1> QED
  BY <1>1, <1>2, <1>3, <1>4, <1>5, <1>6, <1>7 DEF StorageInv

\* The transaction of finalize keeps the inductive invariant.
LEMMA FinalizeKeeps ==
    ASSUME ~StaleRuns, TypeInv, StorageInv, NEW r \in Runs, Finalize(r)
    PROVE  StorageInv'
<1> USE DEF TypeInv, TypeOK, dbVars, siaVars, queueVars, execVars, releaseVars,
  Finalize, MakeReady, LeaveAsset, AlreadyReady, RowsAfter, Begin, Continue
<1>1. KeptIsBehind'
  BY DEF StorageInv, KeptIsBehind
<1>2. ReleasesAreOwn'
  BY StorageAssumption DEF StorageInv, ReleasesAreOwn, Uploaded, Actor
<1>3. LateReleases'
  BY DEF StorageInv, LateReleases, OldRunsAreOver, Actor, Runs
<1>4. OldRunsAreOver'
  BY DEF StorageInv, OldRunsAreOver, Running
<1>5. HandedIsDone'
  BY DEF StorageInv, HandedIsDone
<1>6. AheadIsFresh'
  <2> SUFFICES ASSUME NEW x \in Exec, NEW y \in Object, Ahead(x, y)'
               PROVE  pending'[y] = "none" /\ \A b \in Actor : y \notin todo'[b]
    BY DEF AheadIsFresh
  <2>1. Ahead(x, y)
    BY DEF Ahead, Uploaded
  <2>2. /\ pending[y] = "none" /\ y \notin artifacts
        /\ \A r0 \in Runs : y \notin handed[r0]
        /\ \A b \in Actor : y \notin todo[b]
    BY <2>1, AheadIsUnknown
  <2> QED
    BY <2>1, <2>2
<1>7. KeptIsSafe'
  BY DEF KeptIsSafe, MayHandOff
<1>8. HandedIsSafe'
  BY DEF HandedIsSafe
<1>9. ReadyIsSafe'
  BY DEF StorageInv, ReadyIsSafe, HandedIsSafe, HandedIsDone, Actor, Untouched
<1> QED
  BY <1>1, <1>2, <1>3, <1>4, <1>5, <1>6, <1>7, <1>8, <1>9 DEF StorageInv

\* The end of finalize keeps the inductive invariant.
LEMMA EndFinalizeKeeps ==
    ASSUME ~StaleRuns, TypeInv, StorageInv, EndFinalize
    PROVE  StorageInv'
<1> USE DEF TypeInv, TypeOK, dbVars, siaVars, queueVars, execVars, releaseVars,
  EndFinalize
<1>1. ReleasesAreOwn' /\ KeptIsBehind' /\ AheadIsFresh' /\ ReadyIsSafe'
  BY DEF StorageInv, ReleasesAreOwn, KeptIsBehind, AheadIsFresh, ReadyIsSafe, Ahead,
    Uploaded
<1>2. LateReleases'
  BY DEF StorageInv, LateReleases
<1>3. OldRunsAreOver'
  BY DEF StorageInv, OldRunsAreOver, LateReleases, Running
<1>4. HandedIsDone'
  BY DEF StorageInv, HandedIsDone
<1>5. KeptIsSafe'
  BY DEF StorageInv, KeptIsSafe, LateReleases, MayHandOff
<1>6. HandedIsSafe'
  BY DEF StorageInv, HandedIsSafe, LateReleases
<1> QED
  BY <1>1, <1>2, <1>3, <1>4, <1>5, <1>6 DEF StorageInv

\* The death of finalize keeps the inductive invariant.
LEMMA CrashFinalizeKeeps ==
    ASSUME ~StaleRuns, TypeInv, StorageInv, CrashFinalize
    PROVE  StorageInv'
<1> USE DEF TypeInv, TypeOK, dbVars, siaVars, queueVars, execVars, releaseVars,
  CrashFinalize, Drop, Continue
<1>1. KeptIsBehind' /\ OldRunsAreOver' /\ HandedIsDone'
  BY DEF StorageInv, KeptIsBehind, OldRunsAreOver, HandedIsDone, Running
<1>2. ReleasesAreOwn'
  BY DEF StorageInv, ReleasesAreOwn, Uploaded
<1>3. LateReleases'
  BY DEF StorageInv, LateReleases, Actor
<1>4. AheadIsFresh'
  <2> SUFFICES ASSUME NEW x \in Exec, NEW y \in Object, Ahead(x, y)'
               PROVE  pending'[y] = "none" /\ \A b \in Actor : y \notin todo'[b]
    BY DEF AheadIsFresh
  <2>1. Ahead(x, y)
    BY DEF Ahead, Uploaded
  <2>2. /\ pending[y] = "none" /\ y \notin artifacts
        /\ \A r0 \in Runs : y \notin handed[r0]
        /\ \A b \in Actor : y \notin todo[b]
    BY <2>1, AheadIsUnknown
  <2> QED
    BY <2>1, <2>2
<1>5. KeptIsSafe'
  BY DEF StorageInv, KeptIsSafe, LateReleases, MayHandOff
<1>6. HandedIsSafe'
  BY DEF StorageInv, HandedIsSafe, LateReleases
<1>7. ReadyIsSafe'
  BY DEF StorageInv, ReadyIsSafe
<1> QED
  BY <1>1, <1>2, <1>3, <1>4, <1>5, <1>6, <1>7 DEF StorageInv

\* Giving up finalize keeps the inductive invariant.
LEMMA GiveUpFinalizeKeeps ==
    ASSUME ~StaleRuns, TypeInv, StorageInv, NEW r \in Runs, GiveUpFinalize(r)
    PROVE  StorageInv'
<1> USE DEF TypeInv, TypeOK, dbVars, siaVars, queueVars, execVars, releaseVars,
  GiveUpFinalize, FailAsset
<1>1. ReleasesAreOwn' /\ KeptIsBehind' /\ AheadIsFresh'
  BY DEF StorageInv, ReleasesAreOwn, KeptIsBehind, AheadIsFresh, Ahead, Uploaded
<1>2. LateReleases'
  BY DEF StorageInv, LateReleases
<1>3. OldRunsAreOver'
  BY DEF StorageInv, OldRunsAreOver, Running, Runs
<1>4. HandedIsDone'
  BY DEF StorageInv, HandedIsDone, Actor
<1>5. KeptIsSafe'
  BY DEF KeptIsSafe, MayHandOff
<1>6. HandedIsSafe'
  BY DEF HandedIsSafe
<1>7. ReadyIsSafe'
  BY DEF StorageInv, ReadyIsSafe
<1> QED
  BY <1>1, <1>2, <1>3, <1>4, <1>5, <1>6, <1>7 DEF StorageInv

\* Soft deletion keeps the inductive invariant.
LEMMA SoftDeleteKeeps ==
    ASSUME ~StaleRuns, TypeInv, StorageInv, SoftDelete
    PROVE  StorageInv'
<1> USE DEF TypeInv, TypeOK, dbVars, siaVars, queueVars, execVars, releaseVars,
  SoftDelete
<1>1. ReleasesAreOwn' /\ KeptIsBehind' /\ AheadIsFresh'
  BY DEF StorageInv, ReleasesAreOwn, KeptIsBehind, AheadIsFresh, Ahead, Uploaded
<1>2. LateReleases'
  BY DEF StorageInv, LateReleases
<1>3. OldRunsAreOver'
  BY DEF StorageInv, OldRunsAreOver, Running
<1>4. HandedIsDone'
  BY DEF StorageInv, HandedIsDone
<1>5. KeptIsSafe'
  BY DEF KeptIsSafe, MayHandOff
<1>6. HandedIsSafe'
  BY DEF HandedIsSafe
<1>7. ReadyIsSafe'
  BY DEF ReadyIsSafe
<1> QED
  BY <1>1, <1>2, <1>3, <1>4, <1>5, <1>6, <1>7 DEF StorageInv

\* Collecting the objects of a deleted asset keeps the inductive invariant.
LEMMA CollectObjectsKeeps ==
    ASSUME ~StaleRuns, TypeInv, StorageInv, CollectObjects
    PROVE  StorageInv'
<1> USE DEF TypeInv, TypeOK, dbVars, siaVars, queueVars, execVars, releaseVars,
  CollectObjects, Loop, Continue
<1>1. KeptIsBehind' /\ OldRunsAreOver' /\ HandedIsDone'
  BY DEF StorageInv, KeptIsBehind, OldRunsAreOver, HandedIsDone, Running
<1>2. ReleasesAreOwn'
  BY StorageAssumption DEF StorageInv, ReleasesAreOwn, Uploaded
<1>3. LateReleases'
  BY DEF StorageInv, LateReleases
<1>4. AheadIsFresh'
  <2> SUFFICES ASSUME NEW x \in Exec, NEW y \in Object, Ahead(x, y)'
               PROVE  pending'[y] = "none" /\ \A b \in Actor : y \notin todo'[b]
    BY DEF AheadIsFresh
  <2>1. Ahead(x, y)
    BY DEF Ahead, Uploaded
  <2>2. /\ pending[y] = "none" /\ y \notin artifacts
        /\ \A r0 \in Runs : y \notin handed[r0]
        /\ \A b \in Actor : y \notin todo[b]
    BY <2>1, AheadIsUnknown
  <2> QED
    BY <2>1, <2>2
<1>5. KeptIsSafe'
  BY DEF KeptIsSafe, MayHandOff
<1>6. HandedIsSafe'
  BY DEF HandedIsSafe
<1>7. ReadyIsSafe'
  BY DEF ReadyIsSafe
<1> QED
  BY <1>1, <1>2, <1>3, <1>4, <1>5, <1>6, <1>7 DEF StorageInv

\* The end of a deletion keeps the inductive invariant.
LEMMA EndDeletionKeeps ==
    ASSUME ~StaleRuns, TypeInv, StorageInv, EndDeletion
    PROVE  StorageInv'
<1> USE DEF TypeInv, TypeOK, dbVars, siaVars, queueVars, execVars, releaseVars,
  EndDeletion
<1>1. ReleasesAreOwn' /\ KeptIsBehind' /\ AheadIsFresh'
  BY DEF StorageInv, ReleasesAreOwn, KeptIsBehind, AheadIsFresh, Ahead, Uploaded
<1>2. LateReleases'
  BY DEF StorageInv, LateReleases
<1>3. OldRunsAreOver'
  BY DEF StorageInv, OldRunsAreOver, Running
<1>4. HandedIsDone'
  BY DEF StorageInv, HandedIsDone
<1>5. KeptIsSafe'
  BY DEF StorageInv, KeptIsSafe, LateReleases, MayHandOff
<1>6. HandedIsSafe'
  BY DEF StorageInv, HandedIsSafe, LateReleases
<1>7. ReadyIsSafe'
  BY DEF StorageInv, ReadyIsSafe
<1> QED
  BY <1>1, <1>2, <1>3, <1>4, <1>5, <1>6, <1>7 DEF StorageInv

\* The death of a deletion keeps the inductive invariant.
LEMMA CrashDeletionKeeps ==
    ASSUME ~StaleRuns, TypeInv, StorageInv, CrashDeletion
    PROVE  StorageInv'
<1> USE DEF TypeInv, TypeOK, dbVars, siaVars, queueVars, execVars, releaseVars,
  CrashDeletion, Drop, Continue
<1>1. KeptIsBehind' /\ OldRunsAreOver' /\ HandedIsDone'
  BY DEF StorageInv, KeptIsBehind, OldRunsAreOver, HandedIsDone, Running
<1>2. ReleasesAreOwn'
  BY DEF StorageInv, ReleasesAreOwn, Uploaded
<1>3. LateReleases'
  BY DEF StorageInv, LateReleases, Actor
<1>4. AheadIsFresh'
  <2> SUFFICES ASSUME NEW x \in Exec, NEW y \in Object, Ahead(x, y)'
               PROVE  pending'[y] = "none" /\ \A b \in Actor : y \notin todo'[b]
    BY DEF AheadIsFresh
  <2>1. Ahead(x, y)
    BY DEF Ahead, Uploaded
  <2>2. /\ pending[y] = "none" /\ y \notin artifacts
        /\ \A r0 \in Runs : y \notin handed[r0]
        /\ \A b \in Actor : y \notin todo[b]
    BY <2>1, AheadIsUnknown
  <2> QED
    BY <2>1, <2>2
<1>5. KeptIsSafe'
  BY DEF StorageInv, KeptIsSafe, LateReleases, MayHandOff
<1>6. HandedIsSafe'
  BY DEF StorageInv, HandedIsSafe, LateReleases
<1>7. ReadyIsSafe'
  BY DEF StorageInv, ReadyIsSafe
<1> QED
  BY <1>1, <1>2, <1>3, <1>4, <1>5, <1>6, <1>7 DEF StorageInv

\* The death of a sweep keeps the inductive invariant.
LEMMA CrashSweepKeeps ==
    ASSUME ~StaleRuns, TypeInv, StorageInv, CrashSweep
    PROVE  StorageInv'
<1> USE DEF TypeInv, TypeOK, dbVars, siaVars, queueVars, execVars, releaseVars,
  CrashSweep, Drop, Continue
<1>1. KeptIsBehind' /\ OldRunsAreOver' /\ HandedIsDone'
  BY DEF StorageInv, KeptIsBehind, OldRunsAreOver, HandedIsDone, Running
<1>2. ReleasesAreOwn'
  BY DEF StorageInv, ReleasesAreOwn, Uploaded
<1>3. LateReleases'
  BY DEF StorageInv, LateReleases
<1>4. AheadIsFresh'
  <2> SUFFICES ASSUME NEW x \in Exec, NEW y \in Object, Ahead(x, y)'
               PROVE  pending'[y] = "none" /\ \A b \in Actor : y \notin todo'[b]
    BY DEF AheadIsFresh
  <2>1. Ahead(x, y)
    BY DEF Ahead, Uploaded
  <2>2. /\ pending[y] = "none" /\ y \notin artifacts
        /\ \A r0 \in Runs : y \notin handed[r0]
        /\ \A b \in Actor : y \notin todo[b]
    BY <2>1, AheadIsUnknown
  <2> QED
    BY <2>1, <2>2
<1>5. KeptIsSafe'
  BY DEF StorageInv, KeptIsSafe, MayHandOff, Untouched, Uploaded
<1>6. HandedIsSafe'
  BY DEF StorageInv, HandedIsSafe, Untouched
<1>7. ReadyIsSafe'
  BY DEF StorageInv, ReadyIsSafe
<1> QED
  BY <1>1, <1>2, <1>3, <1>4, <1>5, <1>6, <1>7 DEF StorageInv

\* The inductive invariant holds at the start.
LEMMA StorageInit == Init => StorageInv
<1> USE DEF Init
<1>1. Init => ReleasesAreOwn /\ KeptIsBehind /\ LateReleases
  BY DEF ReleasesAreOwn, KeptIsBehind, LateReleases, Actor
<1>2. Init => OldRunsAreOver /\ HandedIsDone
  BY DEF OldRunsAreOver, HandedIsDone
<1>3. Init => AheadIsFresh /\ KeptIsSafe /\ HandedIsSafe /\ ReadyIsSafe
  BY DEF AheadIsFresh, KeptIsSafe, HandedIsSafe, ReadyIsSafe
<1> QED
  BY <1>1, <1>2, <1>3 DEF StorageInv

\* Every step keeps the inductive invariant.
LEMMA StorageStep ==
    ASSUME ~StaleRuns, TypeInv, StorageInv, [Next]_vars
    PROVE  StorageInv'
<1>1. CASE UNCHANGED vars
  <2> USE <1>1 DEF vars, dbVars, siaVars, queueVars, execVars, releaseVars
  <2>1. ReleasesAreOwn' /\ KeptIsBehind' /\ LateReleases'
    BY DEF StorageInv, ReleasesAreOwn, KeptIsBehind, LateReleases, Uploaded
  <2>2. OldRunsAreOver' /\ HandedIsDone'
    BY DEF StorageInv, OldRunsAreOver, HandedIsDone, Running
  <2>3. AheadIsFresh'
    BY DEF StorageInv, AheadIsFresh, Ahead, Uploaded
  <2>4. KeptIsSafe' /\ HandedIsSafe' /\ ReadyIsSafe'
    BY DEF StorageInv, KeptIsSafe, HandedIsSafe, ReadyIsSafe, MayHandOff, Untouched,
      Uploaded
  <2> QED
    BY <2>1, <2>2, <2>3, <2>4 DEF StorageInv
<1>2. ASSUME NEW a \in Actor, ReleaseStep(a) PROVE StorageInv'
  BY <1>2, MarkKeeps, ListKeeps, ReleaseFailsKeeps, UnpinKeeps, UnpinFailsKeeps,
    ForgetKeeps, ForgetFailsKeeps DEF ReleaseStep
<1>3. ASSUME NEW e \in Exec, UploadStep(e) PROVE StorageInv'
  <2>1. HandOff(e) \/ HandOffFails(e) => HandOffEnds(e)
    BY DEF HandOff, HandOffFails, HandOffEnds
  <2> QED
    BY <1>3, <2>1, StartUploadKeeps, CheckpointKeeps, StopKeeps, RecordKeeps, PinKeeps,
      UploadFailsKeeps, PinFailsKeeps, TryAgainKeeps, EndStoppedKeeps, EndFailedKeeps,
      HandOffEndsKeeps, CrashUploadKeeps, StallKeeps DEF UploadStep, UploadProgress
<1>4. ASSUME NEW r \in Runs, RunStep(r) PROVE StorageInv'
  BY <1>4, SkipUploadKeeps, GiveUpKeeps, FinalizeKeeps, GiveUpFinalizeKeeps DEF RunStep
<1> QED
  BY <1>1, <1>2, <1>3, <1>4, RetryAssetKeeps, EndFinalizeKeeps, CrashFinalizeKeeps,
    SoftDeleteKeeps, CollectObjectsKeeps, EndDeletionKeeps, CrashDeletionKeeps,
    MarkAbandonedKeeps, CrashSweepKeeps DEF Next

\* Unless the queue gives up a run that still does something, the objects of a
\* ready asset are pinned: no release of an earlier attempt, of another
\* execution, of finalize or of the sweep reaches them.
THEOREM ReadyObjectsArePinned == ~StaleRuns => (Spec => []ReadyIsPinned)
<1> SUFFICES ASSUME ~StaleRuns PROVE Spec => []ReadyIsPinned
  OBVIOUS
<1>1. Init => TypeInv /\ StorageInv
  BY InitTypes, StorageInit
<1>2. TypeInv /\ StorageInv /\ [Next]_vars => TypeInv' /\ StorageInv'
  BY TypeStep, StorageStep
<1>3. StorageInv => ReadyIsPinned
  BY DEF StorageInv, ReadyIsSafe, ReadyIsPinned
<1> QED
  BY <1>1, <1>2, <1>3, PTL DEF Spec

----------------------------------------------------------------------------
(***************************************************************************)
(* What a ready asset may become.                                          *)
(***************************************************************************)

\* The objects of an asset are collected and unpinned only once it is deleted.
DeletionIsLate ==
    /\ deletion # "idle" => status = "deleted"
    /\ call["delete"] # "none" => deletion # "idle"

\* No deletion runs at the start.
LEMMA DeletionInit == Init => DeletionIsLate
BY DEF Init, DeletionIsLate, Actor

\* Every step keeps DeletionIsLate, and leaves a ready asset as it is or deletes it.
LEMMA DeletionStep ==
    ASSUME TypeOK, DeletionIsLate, [Next]_vars
    PROVE  /\ DeletionIsLate'
           /\ status = "ready" =>
                \/ status' = "ready" /\ artifacts' = artifacts
                \/ status' = "deleted"
<1> DEFINE Kept ==
        status = "ready" =>
            \/ status' = "ready" /\ artifacts' = artifacts
            \/ status' = "deleted"
<1> SUFFICES DeletionIsLate' /\ Kept
  OBVIOUS
<1> USE StorageAssumption DEF TypeOK, DeletionIsLate, Actor, dbVars
<1>1. CASE UNCHANGED vars
  BY <1>1 DEF vars, releaseVars
<1>2. ASSUME NEW a \in Actor, ReleaseStep(a) PROVE DeletionIsLate' /\ Kept
  <2>1. CASE Mark(a)
    BY <2>1 DEF Mark, Begin, Continue
  <2>2. CASE List(a)
    BY <2>2 DEF List, Loop, Continue
  <2>3. CASE ReleaseFails(a)
    BY <2>3 DEF ReleaseFails, Loop, Continue
  <2>4. CASE Forget(a)
    BY <2>4 DEF Forget, Loop, Continue
  <2>5. CASE ForgetFails(a)
    BY <2>5 DEF ForgetFails, Loop, Drop, Continue
  <2>6. ASSUME NEW o \in Object, Unpin(a, o) \/ UnpinFails(a, o)
        PROVE  DeletionIsLate' /\ Kept
    BY <2>6 DEF Unpin, UnpinFails, Loop, Continue
  <2> QED
    BY <1>2, <2>1, <2>2, <2>3, <2>4, <2>5, <2>6 DEF ReleaseStep
<1>3. ASSUME NEW e \in Exec, UploadStep(e) PROVE DeletionIsLate' /\ Kept
  <2>1. /\ UNCHANGED <<status, artifacts, deletion>>
        /\ call'["delete"] = call["delete"]
    <3>1. e \in Actor /\ e # "delete"
      OBVIOUS
    <3>2. CASE \E r \in Runs : StartUpload(e, r)
      BY <3>2 DEF StartUpload, releaseVars
    <3>3. CASE Checkpoint(e) \/ Record(e) \/ Pin(e) \/ TryAgain(e) \/ Stall(e)
      BY <3>3 DEF Checkpoint, Record, Pin, TryAgain, Stall, releaseVars
    <3>4. CASE Stop(e) \/ UploadFails(e) \/ PinFails(e)
      BY <3>1, <3>4
        DEF Stop, UploadFails, PinFails, FailBatch, GiveBack, Begin, Continue
    <3>5. CASE EndStopped(e) \/ EndFailed(e) \/ HandOff(e) \/ HandOffFails(e)
      BY <3>5 DEF EndStopped, EndFailed, HandOff, HandOffFails, releaseVars
    <3>6. CASE CrashUpload(e)
      BY <3>1, <3>6 DEF CrashUpload, Drop, Continue
    <3> QED
      BY <1>3, <3>2, <3>3, <3>4, <3>5, <3>6 DEF UploadStep, UploadProgress
  <2> QED
    BY <2>1
<1>4. ASSUME NEW r \in Runs, RunStep(r) PROVE DeletionIsLate' /\ Kept
  <2>1. CASE SkipUpload(r)
    BY <2>1 DEF SkipUpload, releaseVars
  <2>2. CASE GiveUp(r) \/ GiveUpFinalize(r)
    BY <2>2 DEF GiveUp, GiveUpFinalize, FailAsset, releaseVars
  <2>3. CASE Finalize(r)
    BY <2>3 DEF Finalize, MakeReady, LeaveAsset, Begin, Continue
  <2> QED
    BY <1>4, <2>1, <2>2, <2>3 DEF RunStep
<1>5. CASE RetryAsset \/ EndFinalize \/ SoftDelete
  BY <1>5 DEF RetryAsset, EndFinalize, SoftDelete, releaseVars
<1>6. CASE CrashFinalize \/ CrashDeletion \/ CrashSweep
  BY <1>6 DEF CrashFinalize, CrashDeletion, CrashSweep, Drop, Continue
<1>7. CASE CollectObjects
  BY <1>7 DEF CollectObjects
<1>8. CASE EndDeletion
  BY <1>8 DEF EndDeletion, releaseVars
<1>9. CASE MarkAbandoned
  BY <1>9 DEF MarkAbandoned, Begin, Continue
<1> QED
  BY <1>1, <1>2, <1>3, <1>4, <1>5, <1>6, <1>7, <1>8, <1>9 DEF Next

\* A ready asset keeps its objects until it is deleted, whatever the queue
\* gives up and whatever fails.
THEOREM ReadyAssetsAreKept == Spec => ReadyIsKept
<1>1. Init => TypeInv /\ DeletionIsLate
  BY InitTypes, DeletionInit
<1>2. TypeInv /\ DeletionIsLate /\ [Next]_vars => TypeInv' /\ DeletionIsLate'
  BY TypeStep, DeletionStep DEF TypeInv
<1>3. TypeInv /\ DeletionIsLate /\ [Next]_vars =>
        [status = "ready" =>
            \/ status' = "ready" /\ artifacts' = artifacts
            \/ status' = "deleted"]_vars
  BY DeletionStep DEF TypeInv
<1> QED
  BY <1>1, <1>2, <1>3, PTL DEF Spec, ReadyIsKept

----------------------------------------------------------------------------
(***************************************************************************)
(* PinnedIsAccounted: a pinned object always has a row that leads to it,   *)
(* or was unpinned, as not found, before its pin, whatever runs the queue  *)
(* gives up. Its inductive invariant stands on the types alone.            *)
(***************************************************************************)

\* A release that is over has nothing left to do, and an object waits to be
\* forgotten only between its unpin and that.
ReleasesEnd ==
    \A a \in Actor :
        /\ call[a] = "none" => todo[a] = {}
        /\ call[a] # "forget" => current[a] = {}

\* Nobody begins a release inside another one.
OneRelease ==
    /\ \A e \in Exec : call[e] # "none" => phase[e] \in {"retry", "stop", "fail"}
    /\ call["finalize"] # "none" => finalizing # 0

\* A deletion goes through the artifacts of a deleted asset and makes no list.
DeletionCovers ==
    /\ DeletionIsLate
    /\ call["delete"] \in {"none", "unpin", "forget"}
    /\ deletion = "running" => artifacts \subseteq todo["delete"] \cup current["delete"]

\* What an execution recorded and kept is its own.
OwnObjects == \A e \in Exec : \A o \in recorded[e] \cup kept[e] : o[1] = e

\* Before its record an object is in no row, no job and no release.
Unheard(o) ==
    /\ pending[o] = "none" /\ o \notin artifacts
    /\ \A r \in Runs : o \notin handed[r]
    /\ \A a \in Actor : o \notin todo[a] /\ o \notin current[a]

AheadIsUnheard == \A e \in Exec : \A o \in Object : Ahead(e, o) => Unheard(o)

\* The object is pinned, or is about to be.
Claimed(o) == o \in pinned \/ AboutToPin(o)

\* An unpinned object that is still, or again, to be pinned was unpinned early.
CurrentIsGone ==
    \A a \in Actor : \A o \in current[a] : Claimed(o) => o \in early

\* The same for the pinned objects, stated before their pin already.
ClaimedIsAccounted ==
    \A o \in Object : Claimed(o) => pending[o] # "none" \/ o \in artifacts \/ o \in early

AccountInv ==
    /\ ReleasesEnd
    /\ OneRelease
    /\ DeletionCovers
    /\ OwnObjects
    /\ AheadIsUnheard
    /\ CurrentIsGone
    /\ ClaimedIsAccounted

----------------------------------------------------------------------------
(***************************************************************************)
(* The parts that concern the releases alone.                              *)
(***************************************************************************)

\* The invariant holds at the start.
LEMMA AccountInit == Init => AccountInv
<1> SUFFICES ASSUME Init PROVE AccountInv
  OBVIOUS
<1> USE DEF Init
<1>1. ReleasesEnd /\ OneRelease /\ OwnObjects
  BY DEF ReleasesEnd, OneRelease, OwnObjects, Actor
<1>2. DeletionCovers
  BY DEF DeletionCovers, DeletionIsLate, Actor
<1>3. AheadIsUnheard /\ CurrentIsGone
  BY DEF AheadIsUnheard, Unheard, CurrentIsGone
<1>4. ClaimedIsAccounted
  BY DEF ClaimedIsAccounted, Claimed, AboutToPin
<1> QED
  BY <1>1, <1>2, <1>3, <1>4 DEF AccountInv

\* An execution that releases nothing and does not begin to.
QuietStep(e) ==
    \/ \E r \in Runs : StartUpload(e, r)
    \/ Checkpoint(e) \/ Record(e) \/ Pin(e) \/ TryAgain(e) \/ Stall(e)
    \/ EndStopped(e) \/ EndFailed(e) \/ HandOffEnds(e)

\* An execution that begins its release.
ReleasingStep(e) == Stop(e) \/ UploadFails(e) \/ PinFails(e)

\* The steps of an execution, by what they do to its release.
LEMMA UploadSteps ==
    ASSUME NEW e \in Exec, UploadStep(e)
    PROVE  QuietStep(e) \/ ReleasingStep(e) \/ CrashUpload(e)
BY DEF UploadStep, UploadProgress, QuietStep, ReleasingStep, HandOff, HandOffFails,
  HandOffEnds

\* Releases end, and none begins inside another one.
LEMMA ReleasesStep ==
    ASSUME TypeOK, ReleasesEnd, OneRelease, DeletionIsLate, [Next]_vars
    PROVE  ReleasesEnd' /\ OneRelease'
<1> DEFINE Goal == ReleasesEnd' /\ OneRelease'
<1> USE StorageAssumption DEF TypeOK, ReleasesEnd, OneRelease, Actor
<1>1. CASE UNCHANGED vars
  BY <1>1 DEF vars, releaseVars, execVars
<1>2. ASSUME NEW a \in Actor, ReleaseStep(a) PROVE Goal
  <2>1. CASE Mark(a)
    BY <2>1 DEF Mark, Begin, Continue, execVars
  <2>2. CASE List(a)
    BY <2>2 DEF List, Loop, Continue, execVars
  <2>3. CASE ReleaseFails(a)
    BY <2>3 DEF ReleaseFails, Loop, Continue, execVars
  <2>4. CASE Forget(a)
    BY <2>4 DEF Forget, Loop, Continue, execVars
  <2>5. CASE ForgetFails(a)
    BY <2>5 DEF ForgetFails, Loop, Drop, Continue, execVars
  <2>6. ASSUME NEW o \in Object, Unpin(a, o) \/ UnpinFails(a, o) PROVE Goal
    BY <2>6 DEF Unpin, UnpinFails, Loop, Continue, execVars
  <2> QED
    BY <1>2, <2>1, <2>2, <2>3, <2>4, <2>5, <2>6 DEF ReleaseStep
<1>3. ASSUME NEW e \in Exec, UploadStep(e) PROVE Goal
  <2>1. CASE QuietStep(e)
    BY <2>1 DEF QuietStep, StartUpload, Checkpoint, Record, Pin, TryAgain, Stall,
      EndStopped, EndFailed, HandOffEnds, End, releaseVars
  <2>2. CASE ReleasingStep(e)
    BY <2>2 DEF ReleasingStep, Stop, UploadFails, PinFails, FailBatch, GiveBack, Begin,
      Continue
  <2>3. CASE CrashUpload(e)
    BY <2>3 DEF CrashUpload, End, Drop, Continue
  <2> QED
    BY <1>3, <2>1, <2>2, <2>3, UploadSteps
<1>4. ASSUME NEW r \in Runs, RunStep(r) PROVE Goal
  <2>1. CASE SkipUpload(r) \/ GiveUp(r) \/ GiveUpFinalize(r)
    BY <2>1 DEF SkipUpload, GiveUp, GiveUpFinalize, releaseVars, execVars
  <2>2. CASE Finalize(r)
    <3>1. r # 0 /\ \A e \in Exec : e # "finalize"
      BY DEF Runs
    <3>2. PICK c \in {"listAll", "mark"}, S \in {{}, handed[r]} :
            Begin("finalize", c, S)
      BY <2>2 DEF Finalize, MakeReady, LeaveAsset
    <3>3. call["finalize"] = "none"
      BY <2>2 DEF Finalize
    <3> QED
      BY <2>2, <3>1, <3>2, <3>3 DEF Finalize, Begin, Continue, execVars
  <2> QED
    BY <1>4, <2>1, <2>2 DEF RunStep
<1>5. CASE RetryAsset \/ EndFinalize \/ SoftDelete \/ EndDeletion
  BY <1>5 DEF RetryAsset, EndFinalize, SoftDelete, EndDeletion, releaseVars, execVars
<1>6. CASE CrashFinalize \/ CrashDeletion \/ CrashSweep
  BY <1>6 DEF CrashFinalize, CrashDeletion, CrashSweep, Drop, Continue, execVars
<1>7. CASE CollectObjects
  BY <1>7 DEF CollectObjects, DeletionIsLate, Loop, Continue, execVars
<1>8. CASE MarkAbandoned
  BY <1>8 DEF MarkAbandoned, Begin, Continue, execVars
<1> QED
  BY <1>1, <1>2, <1>3, <1>4, <1>5, <1>6, <1>7, <1>8 DEF Next

\* A deletion that missed nothing covers the artifacts that are left.
LEMMA DeletionCoversStep ==
    ASSUME TypeOK, ReleasesEnd, DeletionCovers, [Next]_vars
    PROVE  DeletionCovers'
<1>1. DeletionIsLate'
  BY DeletionStep DEF DeletionCovers
<1> DEFINE
  Covers ==
    /\ call["delete"] \in {"none", "unpin", "forget"}
    /\ deletion = "running" => artifacts \subseteq todo["delete"] \cup current["delete"]
<1> SUFFICES Covers'
  BY <1>1 DEF DeletionCovers
<1> USE StorageAssumption
    DEF TypeOK, ReleasesEnd, DeletionCovers, DeletionIsLate, Actor, dbVars
<1>2. CASE UNCHANGED vars
  BY <1>2 DEF vars, releaseVars
<1>3. ASSUME NEW a \in Actor, ReleaseStep(a) PROVE Covers'
  <2>1. CASE Mark(a)
    BY <2>1 DEF Mark, Begin, Continue
  <2>2. CASE List(a)
    BY <2>2 DEF List, Loop, Continue
  <2>3. CASE ReleaseFails(a)
    BY <2>3 DEF ReleaseFails, Loop, Continue
  <2>4. CASE Forget(a)
    BY <2>4 DEF Forget, Loop, Continue
  <2>5. CASE ForgetFails(a)
    BY <2>5 DEF ForgetFails, Loop, Drop, Continue
  <2>6. ASSUME NEW o \in Object, Unpin(a, o) \/ UnpinFails(a, o) PROVE Covers'
    BY <2>6 DEF Unpin, UnpinFails, Loop, Continue
  <2> QED
    BY <1>3, <2>1, <2>2, <2>3, <2>4, <2>5, <2>6 DEF ReleaseStep
<1>4. ASSUME NEW e \in Exec, UploadStep(e) PROVE Covers'
  <2>1. e \in Actor /\ e # "delete"
    OBVIOUS
  <2>2. CASE QuietStep(e)
    BY <2>2 DEF QuietStep, StartUpload, Checkpoint, Record, Pin, TryAgain, Stall,
      EndStopped, EndFailed, HandOffEnds, releaseVars
  <2>3. CASE ReleasingStep(e)
    BY <2>1, <2>3 DEF ReleasingStep, Stop, UploadFails, PinFails, FailBatch, GiveBack,
      Begin, Continue
  <2>4. CASE CrashUpload(e)
    BY <2>1, <2>4 DEF CrashUpload, Drop, Continue
  <2> QED
    BY <1>4, <2>2, <2>3, <2>4, UploadSteps
<1>5. ASSUME NEW r \in Runs, RunStep(r) PROVE Covers'
  <2>1. CASE SkipUpload(r) \/ GiveUp(r) \/ GiveUpFinalize(r)
    BY <2>1 DEF SkipUpload, GiveUp, GiveUpFinalize, releaseVars
  <2>2. CASE Finalize(r)
    BY <2>2 DEF Finalize, MakeReady, LeaveAsset, Begin, Continue
  <2> QED
    BY <1>5, <2>1, <2>2 DEF RunStep
<1>6. CASE RetryAsset \/ EndFinalize \/ SoftDelete \/ EndDeletion
  BY <1>6 DEF RetryAsset, EndFinalize, SoftDelete, EndDeletion, releaseVars
<1>7. CASE CrashFinalize \/ CrashDeletion \/ CrashSweep
  BY <1>7 DEF CrashFinalize, CrashDeletion, CrashSweep, Drop, Continue
<1>8. CASE CollectObjects
  BY <1>8 DEF CollectObjects, Loop, Continue
<1>9. CASE MarkAbandoned
  BY <1>9 DEF MarkAbandoned, Begin, Continue
<1> QED
  BY <1>2, <1>3, <1>4, <1>5, <1>6, <1>7, <1>8, <1>9 DEF Next

----------------------------------------------------------------------------
(***************************************************************************)
(* The parts about the objects.                                            *)
(***************************************************************************)

\* The steps that no execution takes leave the executions alone.
LEMMA OtherSteps ==
    ASSUME [Next]_vars, \A e \in Exec : ~UploadStep(e)
    PROVE  UNCHANGED execVars
BY DEF Next, vars, ReleaseStep, RunStep, Mark, List, ReleaseFails, Unpin, UnpinFails,
  Forget, ForgetFails, SkipUpload, GiveUp, Finalize, GiveUpFinalize, RetryAsset,
  EndFinalize, CrashFinalize, SoftDelete, CollectObjects, EndDeletion, CrashDeletion,
  MarkAbandoned, CrashSweep

\* An execution records and keeps its own objects.
LEMMA OwnStep ==
    ASSUME TypeOK, OwnObjects, [Next]_vars
    PROVE  OwnObjects'
<1> USE DEF TypeOK, OwnObjects
<1>1. CASE \A e \in Exec : ~UploadStep(e)
  BY <1>1, OtherSteps DEF execVars
<1>2. ASSUME NEW e \in Exec, UploadStep(e) PROVE OwnObjects'
  <2>1. CASE QuietStep(e)
    BY <2>1 DEF QuietStep, StartUpload, Checkpoint, Record, Pin, TryAgain, Stall,
      EndStopped, EndFailed, HandOffEnds, End, Uploaded
  <2>2. CASE ReleasingStep(e)
    BY <2>2 DEF ReleasingStep, Stop, UploadFails, PinFails
  <2>3. CASE CrashUpload(e)
    BY <2>3 DEF CrashUpload, End
  <2> QED
    BY <1>2, <2>1, <2>2, <2>3, UploadSteps
<1> QED
  BY <1>1, <1>2

\* No step puts an object ahead of an execution that was behind it.
LEMMA AheadBefore ==
    ASSUME TypeOK, [Next]_vars, NEW e \in Exec, NEW o \in Object, Ahead(e, o)'
    PROVE  Ahead(e, o)
<1> USE StorageAssumption DEF TypeOK, Ahead, Uploaded
<1> o[2] \in Nat /\ o[3] \in Nat
  BY DEF Object
<1>1. CASE \A x \in Exec : ~UploadStep(x)
  BY <1>1, OtherSteps DEF execVars
<1>2. ASSUME NEW x \in Exec, UploadStep(x) PROVE Ahead(e, o)
  <2>1. CASE QuietStep(x)
    <3>1. CASE (\E r \in Runs : StartUpload(x, r)) \/ Checkpoint(x) \/ Record(x) \/ Stall(x)
      BY <3>1 DEF StartUpload, Checkpoint, Record, Stall
    <3>2. CASE Pin(x)
      <4>1. CASE x # e
        BY <3>2, <4>1 DEF Pin
      <4>2. CASE x = e /\ LastBatch(e)
        BY <3>2, <4>2 DEF Pin
      <4>3. CASE x = e /\ ~LastBatch(e)
        <5>1. phase[e] = "recorded" /\ batch'[e] = batch[e] + 1 /\ try'[e] = try[e]
          BY <3>2, <4>3 DEF Pin
        <5>2. o[2] >= batch[e] + 1 /\ o[2] # batch[e]
          BY <5>1
        <5> QED
          BY <5>1, <5>2
      <4> QED
        BY <4>1, <4>2, <4>3
    <3>3. CASE TryAgain(x)
      <4>1. CASE x # e
        BY <3>3, <4>1 DEF TryAgain
      <4>2. CASE x = e
        <5>1. phase[e] = "retry" /\ batch'[e] = batch[e] /\ try'[e] = try[e] + 1
          BY <3>3, <4>2 DEF TryAgain
        <5>2. o[3] >= try[e] + 1 /\ o[3] # try[e]
          BY <5>1
        <5> QED
          BY <5>1, <5>2
      <4> QED
        BY <4>1, <4>2
    <3>4. CASE EndStopped(x) \/ EndFailed(x) \/ HandOffEnds(x)
      BY <3>4 DEF EndStopped, EndFailed, HandOffEnds, End
    <3> QED
      BY <2>1, <3>1, <3>2, <3>3, <3>4 DEF QuietStep
  <2>2. CASE ReleasingStep(x)
    BY <2>2 DEF ReleasingStep, Stop, UploadFails, PinFails, FailBatch, GiveBack
  <2>3. CASE CrashUpload(x)
    BY <2>3 DEF CrashUpload, End
  <2> QED
    BY <1>2, <2>1, <2>2, <2>3, UploadSteps
<1> QED
  BY <1>1, <1>2

\* Nothing hears of an object before its record.
LEMMA UnheardStep ==
    ASSUME TypeOK, OwnObjects, AheadIsUnheard, [Next]_vars
    PROVE  AheadIsUnheard'
<1> SUFFICES ASSUME NEW e \in Exec, NEW o \in Object, Ahead(e, o)'
             PROVE  Unheard(o)'
  BY DEF AheadIsUnheard
<1>1. Unheard(o)
  BY AheadBefore DEF AheadIsUnheard
<1>2. o[1] = e /\ phase'[e] \notin {"stop", "fail", "done"}
  BY DEF Ahead
<1>3. phase'[e] \in {"recorded", "retry"} => o # Uploaded(e)'
  BY DEF Ahead
<1> USE <1>1 DEF TypeOK, Unheard
<1>4. CASE UNCHANGED vars
  BY <1>4 DEF vars, dbVars, queueVars, releaseVars
<1>5. ASSUME NEW a \in Actor, ReleaseStep(a) PROVE Unheard(o)'
  <2>1. CASE Mark(a)
    BY <2>1 DEF Mark, MarkRows, Begin, Continue, queueVars
  <2>2. CASE List(a)
    BY <2>2 DEF List, Releasable, Loop, Continue, dbVars, queueVars
  <2>3. CASE ReleaseFails(a)
    BY <2>3 DEF ReleaseFails, Loop, Continue, dbVars, queueVars
  <2>4. CASE Forget(a)
    BY <2>4 DEF Forget, Loop, Continue, queueVars
  <2>5. CASE ForgetFails(a)
    BY <2>5 DEF ForgetFails, Loop, Drop, Continue, dbVars, queueVars
  <2>6. ASSUME NEW x \in Object, Unpin(a, x) \/ UnpinFails(a, x) PROVE Unheard(o)'
    BY <2>6 DEF Unpin, UnpinFails, Loop, Continue, dbVars, queueVars
  <2> QED
    BY <1>5, <2>1, <2>2, <2>3, <2>4, <2>5, <2>6 DEF ReleaseStep
<1>6. ASSUME NEW x \in Exec, UploadStep(x) PROVE Unheard(o)'
  <2>1. x # e => o # Uploaded(x) /\ o \notin recorded[x] /\ o \notin kept[x]
    BY <1>2 DEF Uploaded, OwnObjects
  <2>2. CASE QuietStep(x)
    <3>1. CASE \/ \E r \in Runs : StartUpload(x, r)
               \/ Checkpoint(x) \/ Pin(x) \/ TryAgain(x) \/ Stall(x)
               \/ EndStopped(x) \/ EndFailed(x)
      BY <3>1 DEF StartUpload, Checkpoint, Pin, TryAgain, Stall, EndStopped, EndFailed,
        dbVars, queueVars, releaseVars
    <3>2. CASE Record(x)
      <4>1. x = e => o # Uploaded(e)
        BY <3>2, <1>3 DEF Record, Uploaded
      <4> QED
        BY <3>2, <4>1, <2>1 DEF Record, queueVars, releaseVars
    <3>3. CASE HandOffEnds(x)
      <4>1. x # e
        BY <3>3, <1>2 DEF HandOffEnds, End
      <4> QED
        BY <3>3, <4>1, <2>1 DEF HandOffEnds, AddFinalize, dbVars, releaseVars
    <3> QED
      BY <2>2, <3>1, <3>2, <3>3 DEF QuietStep
  <2>3. CASE ReleasingStep(x)
    <3>1. PICK S \in SUBSET (recorded[x] \cup {Uploaded(x)}), p \in {"stop", "fail", "retry"} :
            /\ GiveBack(x, S, p)
            /\ p = "retry" => S \subseteq {Uploaded(x)}
      BY <2>3 DEF ReleasingStep, Stop, UploadFails, PinFails, FailBatch
    <3>2. UNCHANGED <<artifacts, queueVars, batch, try>>
      BY <2>3 DEF ReleasingStep, Stop, UploadFails, PinFails, dbVars
    <3>3. x = e => o # Uploaded(e) /\ o \notin S
      BY <3>1, <3>2, <1>2, <1>3 DEF GiveBack, Uploaded
    <3>4. pending'[o] = "none"
      BY <2>3, <3>3, <2>1 DEF ReleasingStep, Stop, UploadFails, PinFails, dbVars
    <3> QED
      BY <3>1, <3>2, <3>3, <3>4, <2>1 DEF GiveBack, Begin, Continue, queueVars
  <2>4. CASE CrashUpload(x)
    BY <2>4 DEF CrashUpload, Drop, Continue, dbVars
  <2> QED
    BY <1>6, <2>2, <2>3, <2>4, UploadSteps
<1>7. ASSUME NEW r \in Runs, RunStep(r) PROVE Unheard(o)'
  <2>1. CASE SkipUpload(r) \/ GiveUp(r) \/ GiveUpFinalize(r)
    BY <2>1 DEF SkipUpload, GiveUp, GiveUpFinalize, dbVars, releaseVars
  <2>2. CASE Finalize(r)
    BY <2>2 DEF Finalize, MakeReady, LeaveAsset, RowsAfter, Begin, Continue, dbVars,
      queueVars
  <2> QED
    BY <1>7, <2>1, <2>2 DEF RunStep
<1>8. CASE RetryAsset \/ EndFinalize \/ SoftDelete \/ EndDeletion
  BY <1>8 DEF RetryAsset, EndFinalize, SoftDelete, EndDeletion, dbVars, queueVars,
    releaseVars
<1>9. CASE CrashFinalize \/ CrashDeletion \/ CrashSweep
  BY <1>9 DEF CrashFinalize, CrashDeletion, CrashSweep, Drop, Continue, dbVars, queueVars
<1>10. CASE CollectObjects
  BY <1>10 DEF CollectObjects, Loop, Continue, dbVars, queueVars
<1>11. CASE MarkAbandoned
  BY <1>11 DEF MarkAbandoned, MarkRows, Begin, Continue, queueVars
<1> QED
  BY <1>4, <1>5, <1>6, <1>7, <1>8, <1>9, <1>10, <1>11 DEF Next

\* What the indexer knows is touched by pins and unpins alone.
LEMMA SiaSteps ==
    ASSUME [Next]_vars,
           \A e \in Exec : ~Pin(e) /\ ~PinFails(e),
           \A a \in Actor, o \in Object : ~Unpin(a, o)
    PROVE  UNCHANGED siaVars
<1> USE DEF siaVars
<1>1. CASE UNCHANGED vars
  BY <1>1 DEF vars
<1>2. ASSUME NEW a \in Actor, ReleaseStep(a) PROVE UNCHANGED siaVars
  BY <1>2 DEF ReleaseStep, Mark, List, ReleaseFails, UnpinFails, Forget, ForgetFails
<1>3. ASSUME NEW e \in Exec, UploadStep(e) PROVE UNCHANGED siaVars
  BY <1>3 DEF UploadStep, UploadProgress, StartUpload, Checkpoint, Stop, Record,
    UploadFails, TryAgain, EndStopped, EndFailed, HandOff, HandOffFails, CrashUpload, Stall
<1>4. ASSUME NEW r \in Runs, RunStep(r) PROVE UNCHANGED siaVars
  BY <1>4 DEF RunStep, SkipUpload, GiveUp, Finalize, GiveUpFinalize
<1>5. CASE \/ RetryAsset \/ EndFinalize \/ CrashFinalize \/ SoftDelete \/ CollectObjects
           \/ EndDeletion \/ CrashDeletion \/ MarkAbandoned \/ CrashSweep
  BY <1>5 DEF RetryAsset, EndFinalize, CrashFinalize, SoftDelete, CollectObjects,
    EndDeletion, CrashDeletion, MarkAbandoned, CrashSweep
<1> QED
  BY <1>1, <1>2, <1>3, <1>4, <1>5 DEF Next

\* An object is claimed by its record alone.
LEMMA ClaimedBefore ==
    ASSUME TypeOK, [Next]_vars, NEW o \in Object, Claimed(o)',
           \A e \in Exec : Record(e) => o # Uploaded(e)
    PROVE  Claimed(o)
<1> USE DEF TypeOK, Uploaded
<1>1. AboutToPin(o)' => AboutToPin(o)
  <2> SUFFICES ASSUME NEW e \in Exec, phase'[e] = "recorded", o = <<e, batch'[e], try'[e]>>
               PROVE  AboutToPin(o)
    BY DEF AboutToPin
  <2>1. CASE \A x \in Exec : ~UploadStep(x)
    BY <2>1, OtherSteps DEF execVars, AboutToPin
  <2>2. ASSUME NEW x \in Exec, UploadStep(x)
        PROVE  phase[e] = "recorded" /\ batch'[e] = batch[e] /\ try'[e] = try[e]
    <3>1. CASE QuietStep(x)
      BY <3>1 DEF QuietStep, StartUpload, Checkpoint, Record, Pin, TryAgain, Stall,
        EndStopped, EndFailed, HandOffEnds, End
    <3>2. CASE ReleasingStep(x)
      BY <3>2 DEF ReleasingStep, Stop, UploadFails, PinFails, FailBatch, GiveBack
    <3>3. CASE CrashUpload(x)
      BY <3>3 DEF CrashUpload, End
    <3> QED
      BY <2>2, <3>1, <3>2, <3>3, UploadSteps
  <2> QED
    BY <2>1, <2>2 DEF AboutToPin
<1>2. o \in pinned' => Claimed(o)
  <2>1. ASSUME NEW e \in Exec, Pin(e) \/ PinFails(e), o \in pinned' PROVE Claimed(o)
    BY <2>1 DEF Pin, PinFails, Claimed, AboutToPin
  <2>2. ASSUME NEW a \in Actor, NEW x \in Object, Unpin(a, x), o \in pinned' PROVE Claimed(o)
    BY <2>2 DEF Unpin, Claimed
  <2> QED
    BY <2>1, <2>2, SiaSteps DEF siaVars, Claimed
<1> QED
  BY <1>1, <1>2 DEF Claimed

\* What was unpinned early stays so.
LEMMA EarlyGrows ==
    ASSUME [Next]_vars
    PROVE  early \subseteq early'
<1>1. ASSUME NEW e \in Exec, Pin(e) \/ PinFails(e) PROVE early \subseteq early'
  BY <1>1 DEF Pin, PinFails
<1>2. ASSUME NEW a \in Actor, NEW o \in Object, Unpin(a, o) PROVE early \subseteq early'
  BY <1>2 DEF Unpin
<1> QED
  BY <1>1, <1>2, SiaSteps DEF siaVars

\* An object that was just unpinned, and is still to be pinned, was unpinned early.
LEMMA GoneStep ==
    ASSUME TypeOK, AheadIsUnheard, CurrentIsGone, [Next]_vars
    PROVE  CurrentIsGone'
<1> SUFFICES ASSUME NEW a \in Actor, NEW o \in current'[a], Claimed(o)'
             PROVE  o \in early'
  BY DEF CurrentIsGone
<1> USE DEF TypeOK
<1>1. CASE \E x \in Object : Unpin(a, x)
  <2>1. PICK x \in Object : Unpin(a, x)
    BY <1>1
  <2>2. o = x /\ o \notin pinned'
    BY <2>1 DEF Unpin
  <2>3. AboutToPin(o)
    BY <2>1, <2>2 DEF Unpin, Claimed, AboutToPin, execVars
  <2> QED
    BY <2>1, <2>2, <2>3 DEF Unpin
<1>2. CASE \A x \in Object : ~Unpin(a, x)
  <2>1. o \in current[a]
    <3>1. CASE UNCHANGED current
      BY <3>1
    <3>2. ASSUME NEW b \in Actor, ReleaseStep(b) PROVE o \in current[a]
      BY <3>2, <1>2 DEF ReleaseStep, Mark, List, ReleaseFails, Unpin, UnpinFails, Forget,
        ForgetFails, Drop, Begin
    <3>3. ASSUME NEW b \in Actor, Drop(b) PROVE o \in current[a]
      BY <3>3 DEF Drop
    <3>4. CASE UNCHANGED vars
      BY <3>4 DEF vars, releaseVars
    <3>5. ASSUME NEW e \in Exec, UploadStep(e) PROVE o \in current[a]
      <4>1. CASE QuietStep(e)
        BY <4>1 DEF QuietStep, StartUpload, Checkpoint, Record, Pin, TryAgain, Stall,
          EndStopped, EndFailed, HandOffEnds, releaseVars
      <4>2. CASE ReleasingStep(e)
        BY <4>2 DEF ReleasingStep, Stop, UploadFails, PinFails, FailBatch, GiveBack, Begin
      <4>3. CASE CrashUpload(e)
        BY <4>3, <3>3 DEF CrashUpload, Actor
      <4> QED
        BY <3>5, <4>1, <4>2, <4>3, UploadSteps
    <3>6. ASSUME NEW r \in Runs, RunStep(r) PROVE UNCHANGED current
      BY <3>6 DEF RunStep, SkipUpload, GiveUp, Finalize, MakeReady, LeaveAsset,
        GiveUpFinalize, Begin, releaseVars
    <3>7. CASE CrashFinalize \/ CrashDeletion \/ CrashSweep
      BY <3>7, <3>3 DEF CrashFinalize, CrashDeletion, CrashSweep, Actor
    <3>8. CASE RetryAsset \/ EndFinalize \/ SoftDelete \/ CollectObjects \/ EndDeletion
               \/ MarkAbandoned
      BY <3>8 DEF RetryAsset, EndFinalize, SoftDelete, CollectObjects, EndDeletion,
        MarkAbandoned, Begin, releaseVars
    <3> QED
      BY <3>1, <3>2, <3>4, <3>5, <3>6, <3>7, <3>8 DEF Next
  <2>2. o \in Object
    BY <2>1
  <2>3. ASSUME NEW e \in Exec, Record(e) PROVE o # Uploaded(e)
    <3>1. phase[e] = "upload"
      BY <2>3 DEF Record
    <3>2. ~Ahead(e, o)
      BY <2>1, <2>2 DEF AheadIsUnheard, Unheard
    <3> QED
      BY <3>1, <3>2 DEF Ahead, Uploaded
  <2>4. Claimed(o)
    BY <2>2, <2>3, ClaimedBefore
  <2> QED
    BY <2>1, <2>4, EarlyGrows DEF CurrentIsGone
<1> QED
  BY <1>1, <1>2

\* A claimed object keeps its row, or was unpinned early.
LEMMA ClaimedStep ==
    ASSUME TypeOK, ReleasesEnd, DeletionCovers, CurrentIsGone, ClaimedIsAccounted, [Next]_vars
    PROVE  ClaimedIsAccounted'
<1> SUFFICES ASSUME NEW o \in Object, Claimed(o)', o \notin early'
             PROVE  pending'[o] # "none" \/ o \in artifacts'
  BY DEF ClaimedIsAccounted
<1> DEFINE Named == pending'[o] # "none" \/ o \in artifacts'
<1> USE DEF TypeOK, dbVars
<1>1. CASE \E e \in Exec : Record(e) /\ o = Uploaded(e)
  BY <1>1 DEF Record
<1>2. CASE \A e \in Exec : Record(e) => o # Uploaded(e)
  <2>1. Claimed(o) /\ o \notin early
    BY <1>2, ClaimedBefore, EarlyGrows
  <2>2. pending[o] # "none" \/ o \in artifacts
    BY <2>1 DEF ClaimedIsAccounted
  <2>3. \A a \in Actor : o \notin current[a]
    BY <2>1 DEF CurrentIsGone
  <2> USE <2>2
  <2>4. CASE UNCHANGED vars
    BY <2>4 DEF vars
  <2>5. ASSUME NEW a \in Actor, ReleaseStep(a) PROVE Named
    <3>1. CASE Mark(a)
      BY <3>1 DEF Mark, MarkRows
    <3>2. CASE Forget(a)
      BY <3>2, <2>3 DEF Forget
    <3>3. CASE ~Mark(a) /\ ~Forget(a)
      BY <2>5, <3>3 DEF ReleaseStep, List, ReleaseFails, Unpin, UnpinFails, ForgetFails
    <3> QED
      BY <3>1, <3>2, <3>3
  <2>6. ASSUME NEW e \in Exec, UploadStep(e) PROVE Named
    <3>1. CASE QuietStep(e)
      BY <3>1 DEF QuietStep, StartUpload, Checkpoint, Record, Pin, TryAgain, Stall,
        EndStopped, EndFailed, HandOffEnds
    <3>2. CASE ReleasingStep(e)
      BY <3>2 DEF ReleasingStep, Stop, UploadFails, PinFails
    <3>3. CASE CrashUpload(e)
      BY <3>3 DEF CrashUpload
    <3> QED
      BY <2>6, <3>1, <3>2, <3>3, UploadSteps
  <2>7. ASSUME NEW r \in Runs, RunStep(r) PROVE Named
    <3>1. CASE SkipUpload(r) \/ GiveUp(r) \/ GiveUpFinalize(r)
      BY <3>1 DEF SkipUpload, GiveUp, GiveUpFinalize
    <3>2. CASE Finalize(r)
      BY <3>2 DEF Finalize, MakeReady, LeaveAsset, RowsAfter
    <3> QED
      BY <2>7, <3>1, <3>2 DEF RunStep
  <2>8. CASE EndDeletion
    <3>1. deletion = "running" => artifacts = {}
      BY <2>8 DEF EndDeletion, ReleasesEnd, DeletionCovers, Actor
    <3> QED
      BY <2>8, <3>1 DEF EndDeletion
  <2>9. CASE MarkAbandoned
    BY <2>9 DEF MarkAbandoned, MarkRows
  <2>10. CASE \/ RetryAsset \/ EndFinalize \/ CrashFinalize \/ SoftDelete
              \/ CollectObjects \/ CrashDeletion \/ CrashSweep
    BY <2>10 DEF RetryAsset, EndFinalize, CrashFinalize, SoftDelete, CollectObjects,
      CrashDeletion, CrashSweep
  <2> QED
    BY <2>4, <2>5, <2>6, <2>7, <2>8, <2>9, <2>10 DEF Next
<1> QED
  BY <1>1, <1>2

\* Every step keeps the invariant.
LEMMA AccountStep ==
    ASSUME TypeOK, AccountInv, [Next]_vars
    PROVE  AccountInv'
BY ReleasesStep, DeletionCoversStep, OwnStep, UnheardStep, GoneStep, ClaimedStep
  DEF AccountInv, DeletionCovers

\* Every pinned object is named by a row of the database, or was unpinned, as not
\* found, between its record and its pin: no crash, lost answer or failed call
\* of the upload, of a release or of the deletion, and no run the queue gives
\* up, leaves another one behind.
THEOREM PinnedObjectsAreAccounted == Spec => []PinnedIsAccounted
<1>1. Init => TypeInv /\ AccountInv
  BY InitTypes, AccountInit
<1>2. TypeInv /\ AccountInv /\ [Next]_vars => TypeInv' /\ AccountInv'
  BY TypeStep, AccountStep DEF TypeInv
<1>3. TypeInv /\ AccountInv => PinnedIsAccounted
  BY DEF TypeInv, TypeOK, AccountInv, ClaimedIsAccounted, Claimed, PinnedIsAccounted
<1> QED
  BY <1>1, <1>2, <1>3, PTL DEF Spec
=============================================================================
