------------------------ MODULE SlabPruneGateProofs ------------------------
(***************************************************************************)
(* Proofs about SlabPruneGate for any number of processes and uploads.     *)
(***************************************************************************)
EXTENDS SlabPruneGate, TLAPS

\* A call of run() that leaves its queue leaves counts of calls behind.
LEMMA DequeueType ==
    ASSUME NEW p \in Process, NEW k \in Kinds, Waiting(p, k), Dequeue(p, k),
           forced \in [Process -> Nat], ifWanted \in [Process -> Nat]
    PROVE  forced' \in [Process -> Nat] /\ ifWanted' \in [Process -> Nat]
<1>1. CASE k = "request"
  BY <1>1 DEF Waiting, Dequeue
<1>2. CASE k = "after"
  BY <1>2 DEF Waiting, Dequeue
<1>3. CASE k = "tick"
  BY <1>3 DEF Waiting, Dequeue
<1> QED
  BY <1>1, <1>2, <1>3 DEF Kinds

(***************************************************************************)
(* Type correctness.                                                       *)
(***************************************************************************)

\* Every variable of the gate keeps its type, through every step of an upload,
\* a prune, an expiry and a crash.
THEOREM TypeCorrect == Spec => []TypeOK
<1>1. Init => TypeOK
  <2> SUFFICES ASSUME Init PROVE TypeOK
    OBVIOUS
  <2> USE DEF Init, Free, Orphan, Phases, Kinds, Pruning
  <2>1. /\ leases \subseteq Upload /\ stale \subseteq leases
        /\ lock \in Process \cup {Free, Orphan}
        /\ epoch \in Nat /\ wanted \in BOOLEAN /\ faults \in Nat
    OBVIOUS
  <2>2. /\ slab \in [Upload -> {"absent", "stored", "stripped"}]
        /\ object \in [Upload -> {"none", "pinned", "unpinned"}]
        /\ phase \in [Upload -> Phases]
        /\ owner \in [Upload -> Process]
        /\ epochAt \in [Upload -> Nat]
        /\ lapsed \in [Upload -> BOOLEAN]
    OBVIOUS
  <2>3. /\ up \in [Process -> BOOLEAN]
        /\ attempt \in [Process -> Pruning \cup {"none"}]
        /\ kind \in [Process -> Kinds]
        /\ listed \in [Process -> SUBSET Upload]
    OBVIOUS
  <2>4. /\ forced \in [Process -> Nat]
        /\ ifWanted \in [Process -> Nat]
        /\ watch \in [Process -> BOOLEAN]
        /\ ticking \in [Process -> BOOLEAN]
    OBVIOUS
  <2> QED
    BY <2>1, <2>2, <2>3, <2>4 DEF TypeOK
<1>2. TypeOK /\ [Next]_vars => TypeOK'
  <2> SUFFICES ASSUME TypeOK, [Next]_vars
               PROVE  TypeOK'
    OBVIOUS
  <2> USE DEF TypeOK, redisVars, indexdVars, uploadVars, processVars,
              Free, Orphan, Phases, Kinds, Pruning
  <2>1. ASSUME NEW u \in Upload, UploadStep(u)
        PROVE  TypeOK'
    <3>1. CASE ClaimUpload(u)
      BY <3>1 DEF ClaimUpload, MayClaim
    <3>2. CASE StoreSlabs(u)
      BY <3>2 DEF StoreSlabs
    <3>3. CASE RenewUpload(u)
      BY <3>3 DEF RenewUpload, ExtendLease
    <3>4. CASE ConfirmUpload(u)
      BY <3>4 DEF ConfirmUpload, ExtendLease
    <3>5. CASE RefuseUpload(u)
      BY <3>5 DEF RefuseUpload, FailInto
    <3>6. CASE FailUpload(u)
      BY <3>6 DEF FailUpload, FailInto
    <3>7. CASE PinObject(u)
      BY <3>7 DEF PinObject
    <3>8. CASE ReleaseUpload(u)
      BY <3>8 DEF ReleaseUpload
    <3>9. CASE ReleaseLost(u)
      BY <3>9 DEF ReleaseLost
    <3>10. CASE ExpireLease(u)
      BY <3>10 DEF ExpireLease
    <3> QED
      BY <2>1, <3>1, <3>2, <3>3, <3>4, <3>5, <3>6, <3>7, <3>8, <3>9, <3>10
         DEF UploadStep
  <2>2. ASSUME NEW p \in Process, NEW k \in Kinds, PruneIdle(p, k)
        PROVE  TypeOK'
    <3>1. forced' \in [Process -> Nat] /\ ifWanted' \in [Process -> Nat]
      BY <2>2, DequeueType DEF PruneIdle, CanAttempt
    <3>2. ticking' \in [Process -> BOOLEAN] /\ watch' \in [Process -> BOOLEAN]
      BY <2>2 DEF PruneIdle
    <3> QED
      BY <2>2, <3>1, <3>2 DEF PruneIdle
  <2>3. ASSUME NEW p \in Process, NEW k \in Kinds, PruneDeferred(p, k)
        PROVE  TypeOK'
    <3>1. forced' \in [Process -> Nat] /\ ifWanted' \in [Process -> Nat]
      BY <2>3, DequeueType DEF PruneDeferred, LiveLeases, CanAttempt
    <3>2. ticking' \in [Process -> BOOLEAN] /\ watch' \in [Process -> BOOLEAN]
      BY <2>3 DEF PruneDeferred, LiveLeases
    <3> QED
      BY <2>3, <3>1, <3>2 DEF PruneDeferred, LiveLeases
  <2>4. ASSUME NEW p \in Process, NEW k \in Kinds, PruneLocked(p, k)
        PROVE  TypeOK'
    <3>1. forced' \in [Process -> Nat] /\ ifWanted' \in [Process -> Nat]
      BY <2>4, DequeueType DEF PruneLocked, LiveLeases, CanAttempt
    <3>2. ticking' \in [Process -> BOOLEAN] /\ watch' \in [Process -> BOOLEAN]
      BY <2>4 DEF PruneLocked, LiveLeases
    <3>3. lock' \in Process \cup {Free, Orphan} /\ epoch' \in Nat
      BY <2>4 DEF PruneLocked, LiveLeases
    <3>4. /\ attempt' \in [Process -> Pruning \cup {"none"}]
          /\ kind' \in [Process -> Kinds]
      BY <2>4 DEF PruneLocked, LiveLeases
    <3> QED
      BY <2>4, <3>1, <3>2, <3>3, <3>4 DEF PruneLocked, LiveLeases
  <2>5. ASSUME NEW p \in Process, ListSlabs(p)
        PROVE  TypeOK'
    BY <2>5 DEF ListSlabs
  <2>6. ASSUME NEW p \in Process, StripSlabs(p)
        PROVE  TypeOK'
    BY <2>6 DEF StripSlabs
  <2>7. ASSUME NEW p \in Process, FailPrune(p)
        PROVE  TypeOK'
    BY <2>7 DEF FailPrune
  <2>8. ASSUME NEW p \in Process, ReleasePrune(p)
        PROVE  TypeOK'
    BY <2>8 DEF ReleasePrune
  <2>9. ASSUME NEW p \in Process, WatchTick(p)
        PROVE  TypeOK'
    BY <2>9 DEF WatchTick
  <2>10. ASSUME NEW p \in Process, Crash(p)
         PROVE  TypeOK'
    BY <2>10 DEF Crash
  <2>11. ASSUME NEW p \in Process, Restart(p)
         PROVE  TypeOK'
    BY <2>11 DEF Restart
  <2>12. ASSUME NEW p \in Process, NEW u \in Upload, UnpinObject(p, u)
         PROVE  TypeOK'
    BY <2>12 DEF UnpinObject
  <2>13. CASE ExpireLeaseSet
    BY <2>13 DEF ExpireLeaseSet
  <2>14. CASE ExpireLock
    BY <2>14 DEF ExpireLock
  <2>15. CASE UNCHANGED vars
    BY <2>15 DEF vars
  <2>16. ASSUME NEW p \in Process, NEW k \in Kinds, FailClaim(p, k)
         PROVE  TypeOK'
    <3>1. forced' \in [Process -> Nat] /\ ifWanted' \in [Process -> Nat]
      BY <2>16, DequeueType DEF FailClaim, CanAttempt
    <3>2. ticking' \in [Process -> BOOLEAN]
      BY <2>16 DEF FailClaim
    <3> QED
      BY <2>16, <3>1, <3>2 DEF FailClaim
  <2> QED
    BY <2>1, <2>2, <2>3, <2>4, <2>5, <2>6, <2>7, <2>8, <2>9, <2>10, <2>11,
       <2>12, <2>13, <2>14, <2>15, <2>16
       DEF Next, PruneStep, AttemptPrune
<1> QED
  BY <1>1, <1>2, PTL DEF Spec

(***************************************************************************)
(* Safety. The invariant of a step that leaves alone every variable it     *)
(* reads is free; the steps below are the ones that touch them.            *)
(***************************************************************************)

\* Every step keeps the inductive invariant, a step per action; under a prune
\* that starts, strips or ends, each conjunct has a step of its own.
LEMMA GateInvInductive ==
    ASSUME Timely, TypeOK, TypeOK', GateInv, [Next]_vars
    PROVE  GateInv'
<1> USE DEF GateInv, FreshUploads, ClaimsArePast, LeaseBlockedPrunes,
            PrunersHoldLock, LockSeesNoLease, StrippedIsOutdated,
            ConfirmedIsSafe, ListedIsGarbage, PinnedSlabsKept, Running,
            TypeOK, redisVars, indexdVars, uploadVars, processVars,
            Free, Orphan, Phases, Pruning
<1>1. ASSUME NEW u \in Upload, UploadStep(u)
      PROVE  GateInv'
  <2>1. CASE ClaimUpload(u)
    BY <2>1 DEF ClaimUpload, MayClaim
  <2>2. CASE StoreSlabs(u)
    BY <2>2 DEF StoreSlabs
  <2>3. CASE RenewUpload(u)
    BY <2>3 DEF RenewUpload, ExtendLease, LeaseKept, RenewOutcome
  <2>4. CASE ConfirmUpload(u)
    BY <2>4 DEF ConfirmUpload, ExtendLease, LeaseKept, RenewOutcome
  <2>5. CASE RefuseUpload(u)
    BY <2>5 DEF RefuseUpload, FailInto
  <2>6. CASE FailUpload(u)
    BY <2>6 DEF FailUpload, FailInto
  <2>7. CASE PinObject(u)
    <3>1. FreshUploads'
      BY <2>7, GateAssumption DEF PinObject
    <3>2. ClaimsArePast'
      BY <2>7, GateAssumption DEF PinObject
    <3>3. LeaseBlockedPrunes'
      BY <2>7, GateAssumption DEF PinObject
    <3>4. PrunersHoldLock'
      BY <2>7, GateAssumption DEF PinObject
    <3>5. LockSeesNoLease'
      BY <2>7, GateAssumption DEF PinObject
    <3>6. StrippedIsOutdated'
      BY <2>7, GateAssumption DEF PinObject
    <3>7. ConfirmedIsSafe'
      BY <2>7, GateAssumption DEF PinObject
    <3>8. ListedIsGarbage'
      BY <2>7, GateAssumption DEF PinObject
    <3>9. PinnedSlabsKept'
      BY <2>7, GateAssumption DEF PinObject
    <3> QED
      BY <3>1, <3>2, <3>3, <3>4, <3>5, <3>6, <3>7, <3>8, <3>9
  <2>8. CASE ReleaseUpload(u)
    BY <2>8 DEF ReleaseUpload
  <2>9. CASE ReleaseLost(u)
    BY <2>9 DEF ReleaseLost
  <2>10. CASE ExpireLease(u)
    BY <2>10 DEF ExpireLease, Timely
  <2> QED
    BY <1>1, <2>1, <2>2, <2>3, <2>4, <2>5, <2>6, <2>7, <2>8, <2>9, <2>10
       DEF UploadStep
<1>2. ASSUME NEW p \in Process, NEW k \in Kinds, PruneIdle(p, k)
      PROVE  GateInv'
  BY <1>2 DEF PruneIdle, CanAttempt
<1>3. ASSUME NEW p \in Process, NEW k \in Kinds, PruneDeferred(p, k)
      PROVE  GateInv'
  BY <1>3 DEF PruneDeferred, LiveLeases, CanAttempt
<1>4. ASSUME NEW p \in Process, NEW k \in Kinds, PruneLocked(p, k)
      PROVE  GateInv'
  <2>1. FreshUploads'
    BY <1>4, GateAssumption DEF PruneLocked, LiveLeases, CanAttempt
  <2>2. ClaimsArePast'
    BY <1>4, GateAssumption DEF PruneLocked, LiveLeases, CanAttempt
  <2>3. LeaseBlockedPrunes'
    BY <1>4, GateAssumption DEF PruneLocked, LiveLeases, CanAttempt
  <2>4. PrunersHoldLock'
    BY <1>4, GateAssumption DEF PruneLocked, LiveLeases, CanAttempt
  <2>5. LockSeesNoLease'
    BY <1>4, GateAssumption DEF PruneLocked, LiveLeases, CanAttempt
  <2>6. StrippedIsOutdated'
    BY <1>4, GateAssumption DEF PruneLocked, LiveLeases, CanAttempt
  <2>7. ConfirmedIsSafe'
    BY <1>4, GateAssumption DEF PruneLocked, LiveLeases, CanAttempt
  <2>8. ListedIsGarbage'
    BY <1>4, GateAssumption DEF PruneLocked, LiveLeases, CanAttempt
  <2>9. PinnedSlabsKept'
    BY <1>4, GateAssumption DEF PruneLocked, LiveLeases, CanAttempt
  <2> QED
    BY <2>1, <2>2, <2>3, <2>4, <2>5, <2>6, <2>7, <2>8, <2>9
<1>5. ASSUME NEW p \in Process, ListSlabs(p)
      PROVE  GateInv'
  BY <1>5 DEF ListSlabs
<1>6. ASSUME NEW p \in Process, StripSlabs(p)
      PROVE  GateInv'
  <2>1. FreshUploads'
    BY <1>6, GateAssumption DEF StripSlabs
  <2>2. ClaimsArePast'
    BY <1>6, GateAssumption DEF StripSlabs
  <2>3. LeaseBlockedPrunes'
    BY <1>6, GateAssumption DEF StripSlabs
  <2>4. PrunersHoldLock'
    BY <1>6, GateAssumption DEF StripSlabs
  <2>5. LockSeesNoLease'
    BY <1>6, GateAssumption DEF StripSlabs
  <2>6. StrippedIsOutdated'
    BY <1>6, GateAssumption DEF StripSlabs
  <2>7. ConfirmedIsSafe'
    BY <1>6, GateAssumption DEF StripSlabs
  <2>8. ListedIsGarbage'
    BY <1>6, GateAssumption DEF StripSlabs
  <2>9. PinnedSlabsKept'
    BY <1>6, GateAssumption DEF StripSlabs
  <2> QED
    BY <2>1, <2>2, <2>3, <2>4, <2>5, <2>6, <2>7, <2>8, <2>9
<1>7. ASSUME NEW p \in Process, FailPrune(p)
      PROVE  GateInv'
  BY <1>7 DEF FailPrune
<1>8. ASSUME NEW p \in Process, ReleasePrune(p)
      PROVE  GateInv'
  <2>1. FreshUploads'
    BY <1>8, GateAssumption DEF ReleasePrune
  <2>2. ClaimsArePast'
    BY <1>8, GateAssumption DEF ReleasePrune
  <2>3. LeaseBlockedPrunes'
    BY <1>8, GateAssumption DEF ReleasePrune
  <2>4. PrunersHoldLock'
    BY <1>8, GateAssumption DEF ReleasePrune
  <2>5. LockSeesNoLease'
    BY <1>8, GateAssumption DEF ReleasePrune
  <2>6. StrippedIsOutdated'
    BY <1>8, GateAssumption DEF ReleasePrune
  <2>7. ConfirmedIsSafe'
    BY <1>8, GateAssumption DEF ReleasePrune
  <2>8. ListedIsGarbage'
    BY <1>8, GateAssumption DEF ReleasePrune
  <2>9. PinnedSlabsKept'
    BY <1>8, GateAssumption DEF ReleasePrune
  <2> QED
    BY <2>1, <2>2, <2>3, <2>4, <2>5, <2>6, <2>7, <2>8, <2>9
<1>9. ASSUME NEW p \in Process, WatchTick(p)
      PROVE  GateInv'
  BY <1>9 DEF WatchTick
<1>10. ASSUME NEW p \in Process, Crash(p)
      PROVE  GateInv'
  <2>1. FreshUploads'
    BY <1>10, GateAssumption DEF Crash
  <2>2. ClaimsArePast'
    BY <1>10, GateAssumption DEF Crash
  <2>3. LeaseBlockedPrunes'
    BY <1>10, GateAssumption DEF Crash
  <2>4. PrunersHoldLock'
    BY <1>10, GateAssumption DEF Crash
  <2>5. LockSeesNoLease'
    BY <1>10, GateAssumption DEF Crash
  <2>6. StrippedIsOutdated'
    BY <1>10, GateAssumption DEF Crash
  <2>7. ConfirmedIsSafe'
    BY <1>10, GateAssumption DEF Crash
  <2>8. ListedIsGarbage'
    BY <1>10, GateAssumption DEF Crash
  <2>9. PinnedSlabsKept'
    BY <1>10, GateAssumption DEF Crash
  <2> QED
    BY <2>1, <2>2, <2>3, <2>4, <2>5, <2>6, <2>7, <2>8, <2>9
<1>11. ASSUME NEW p \in Process, Restart(p)
      PROVE  GateInv'
  BY <1>11 DEF Restart
<1>12. ASSUME NEW p \in Process, NEW u \in Upload, UnpinObject(p, u)
       PROVE  GateInv'
  BY <1>12 DEF UnpinObject
<1>13. CASE ExpireLeaseSet
  BY <1>13 DEF ExpireLeaseSet
<1>14. CASE ExpireLock
  <2>1. FreshUploads'
    BY <1>14, GateAssumption DEF ExpireLock, Timely
  <2>2. ClaimsArePast'
    BY <1>14, GateAssumption DEF ExpireLock, Timely
  <2>3. LeaseBlockedPrunes'
    BY <1>14, GateAssumption DEF ExpireLock, Timely
  <2>4. PrunersHoldLock'
    BY <1>14, GateAssumption DEF ExpireLock, Timely
  <2>5. LockSeesNoLease'
    BY <1>14, GateAssumption DEF ExpireLock, Timely
  <2>6. StrippedIsOutdated'
    BY <1>14, GateAssumption DEF ExpireLock, Timely
  <2>7. ConfirmedIsSafe'
    BY <1>14, GateAssumption DEF ExpireLock, Timely
  <2>8. ListedIsGarbage'
    BY <1>14, GateAssumption DEF ExpireLock, Timely
  <2>9. PinnedSlabsKept'
    BY <1>14, GateAssumption DEF ExpireLock, Timely
  <2> QED
    BY <2>1, <2>2, <2>3, <2>4, <2>5, <2>6, <2>7, <2>8, <2>9
<1>15. CASE UNCHANGED vars
  BY <1>15 DEF vars
<1>16. ASSUME NEW p \in Process, NEW k \in Kinds, FailClaim(p, k)
       PROVE  GateInv'
  BY <1>16 DEF FailClaim
<1> QED
  BY <1>1, <1>2, <1>3, <1>4, <1>5, <1>6, <1>7, <1>8, <1>9, <1>10, <1>11,
     <1>12, <1>13, <1>14, <1>15, <1>16
     DEF Next, PruneStep, AttemptPrune

\* The inductive invariant holds in every state of a timely behavior.
LEMMA GateInvariant == Timely => (Spec => []GateInv)
<1> SUFFICES ASSUME Timely
             PROVE  Spec => []GateInv
  OBVIOUS
<1>1. Init => GateInv
  BY DEF Init, GateInv, FreshUploads, ClaimsArePast, LeaseBlockedPrunes,
         PrunersHoldLock, LockSeesNoLease, StrippedIsOutdated,
         ConfirmedIsSafe, ListedIsGarbage, PinnedSlabsKept, Running, Free
<1>2. TypeOK /\ TypeOK' /\ GateInv /\ [Next]_vars => GateInv'
  BY GateInvInductive
<1> QED
  BY <1>1, <1>2, TypeCorrect, PTL DEF Spec

\* No object is pinned over slabs a prune took, for any number of replicas and
\* uploads, if a prune keeps its lock and a pin follows its check in time.
THEOREM PinnedSlabsAreKept == Timely => (Spec => []PinnedSlabsKept)
<1>1. GateInv => PinnedSlabsKept
  BY DEF GateInv
<1> QED
  BY <1>1, GateInvariant, PTL

\* While a prune lists or unpins slabs, no upload of any replica holds a lease
\* or has passed its check, and no second replica prunes.
THEOREM PrunesRunAlone == Timely => (Spec => []PruneIsAlone)
<1>1. TypeOK /\ GateInv => PruneIsAlone
  <2> SUFFICES ASSUME TypeOK, GateInv PROVE PruneIsAlone
    OBVIOUS
  <2>1. \A p, q \in Process : attempt[p] \in Pruning /\ attempt[q] \in Pruning => p = q
    BY DEF GateInv, PrunersHoldLock, TypeOK, Pruning
  <2>2. ASSUME NEW p \in Process, attempt[p] \in {"locked", "listed"}
        PROVE  leases = {} /\ \A u \in Upload : phase[u] # "confirmed"
    BY <2>2, GateAssumption
       DEF GateInv, PrunersHoldLock, LockSeesNoLease, ConfirmedIsSafe, TypeOK, Free
  <2> QED
    BY <2>1, <2>2 DEF PruneIsAlone
<1> QED
  BY <1>1, TypeCorrect, GateInvariant, PTL

\* A lease in the set blocked every prune since its claim. This one needs no
\* assumption about time: it holds when the lock lapses and when pins stall.
THEOREM LeasesBlockPrunes == Spec => []LeaseBlockedPrunes
<1> USE DEF LeaseBlockedPrunes, Running
<1>1. Init => LeaseBlockedPrunes
  BY DEF Init
<1>2. TypeOK /\ LeaseBlockedPrunes /\ [Next]_vars => LeaseBlockedPrunes'
  <2> SUFFICES ASSUME TypeOK, LeaseBlockedPrunes, [Next]_vars
               PROVE  LeaseBlockedPrunes'
    OBVIOUS
  <2> USE DEF TypeOK, redisVars, indexdVars, uploadVars, processVars, Phases
  <2>1. ASSUME NEW u \in Upload, UploadStep(u)
        PROVE  LeaseBlockedPrunes'
    BY <2>1 DEF UploadStep, ClaimUpload, MayClaim, StoreSlabs, RenewUpload, ConfirmUpload,
                RefuseUpload, FailUpload, FailInto, PinObject, ReleaseUpload,
                ReleaseLost, ExpireLease, ExtendLease, LeaseKept, RenewOutcome
  <2>2. ASSUME NEW p \in Process, PruneStep(p)
        PROVE  LeaseBlockedPrunes'
    BY <2>2 DEF PruneStep, AttemptPrune, PruneIdle, PruneDeferred, PruneLocked,
                LiveLeases, FailClaim, ListSlabs, StripSlabs,
                FailPrune, ReleasePrune, WatchTick
  <2>3. ASSUME NEW p \in Process, Crash(p) \/ Restart(p)
        PROVE  LeaseBlockedPrunes'
    BY <2>3 DEF Crash, Restart
  <2>4. ASSUME NEW p \in Process, NEW u \in Upload, UnpinObject(p, u)
        PROVE  LeaseBlockedPrunes'
    BY <2>4 DEF UnpinObject
  <2>5. CASE ExpireLeaseSet \/ ExpireLock \/ UNCHANGED vars
    BY <2>5 DEF ExpireLeaseSet, ExpireLock, vars
  <2> QED
    BY <2>1, <2>2, <2>3, <2>4, <2>5 DEF Next
<1> QED
  BY <1>1, <1>2, TypeCorrect, PTL DEF Spec

(***************************************************************************)
(* Refinement. A step moves the slabs the way SlabStore does, or not at    *)
(* all: only storing, pinning, unpinning and a prune touch slab or object. *)
(***************************************************************************)

\* Every step of the gate is a step of SlabStore or leaves its state alone.
LEMMA GateStepRefines ==
    ASSUME TypeOK, GateInv, [Next]_vars
    PROVE  [Store!Next]_slabState
<1> USE DEF TypeOK, redisVars, indexdVars, uploadVars, processVars, slabState
<1> DEFINE Still == UNCHANGED <<slab, object>>
<1>1. Still => [Store!Next]_slabState
  BY DEF slabState
<1>2. ASSUME NEW u \in Upload, StoreSlabs(u)
      PROVE  Store!Store(u)
  <2>1. object[u] # "pinned"
    BY <1>2 DEF StoreSlabs, GateInv, PinnedSlabsKept
  <2> QED
    BY <1>2, <2>1 DEF StoreSlabs, Store!Store, Store!Move
<1>3. ASSUME NEW u \in Upload, PinObject(u)
      PROVE  Store!Pin(u) \/ Still
  <2>1. slab[u] = "stored"
    BY <1>3 DEF PinObject, GateInv, ConfirmedIsSafe
  <2>2. CASE object[u] = "pinned"
    BY <1>3, <2>2 DEF PinObject
  <2>3. CASE object[u] # "pinned"
    BY <1>3, <2>1, <2>3 DEF PinObject, Store!Pin, Store!Move
  <2> QED
    BY <2>2, <2>3
<1>4. ASSUME NEW p \in Process, NEW u \in Upload, UnpinObject(p, u)
      PROVE  Store!Unpin(u)
  <2>1. slab[u] = "stored"
    BY <1>4 DEF UnpinObject, GateInv, PinnedSlabsKept
  <2> QED
    BY <1>4, <2>1 DEF UnpinObject, Store!Unpin, Store!Move
<1>5. ASSUME NEW p \in Process, StripSlabs(p)
      PROVE  Store!Prune(listed[p])
  <2>1. \A u \in listed[p] : slab[u] = "stored" /\ object[u] # "pinned"
    BY <1>5 DEF StripSlabs, GateInv, ListedIsGarbage
  <2> QED
    BY <1>5, <2>1 DEF StripSlabs, Store!Prune
<1>6. ASSUME NEW u \in Upload, UploadStep(u)
      PROVE  Still \/ StoreSlabs(u) \/ PinObject(u)
  BY <1>6 DEF UploadStep, ClaimUpload, RenewUpload, ConfirmUpload, RefuseUpload,
              FailUpload, FailInto, ReleaseUpload, ReleaseLost, ExpireLease
<1>7. ASSUME NEW p \in Process, PruneStep(p)
      PROVE  Still \/ StripSlabs(p)
  BY <1>7 DEF PruneStep, AttemptPrune, PruneIdle, PruneDeferred, PruneLocked,
              LiveLeases, FailClaim, ListSlabs, FailPrune, ReleasePrune, WatchTick
<1>8. ASSUME NEW p \in Process, Crash(p) \/ Restart(p)
      PROVE  Still
  BY <1>8 DEF Crash, Restart
<1>9. ASSUME ExpireLeaseSet \/ ExpireLock \/ UNCHANGED vars
      PROVE  Still
  BY <1>9 DEF ExpireLeaseSet, ExpireLock, vars
<1>10. ASSUME NEW p \in Process
       PROVE  listed[p] \in SUBSET Upload
  OBVIOUS
<1>11. Still \/ Store!Next
  <2>1. ASSUME NEW u \in Upload, Store!Store(u) \/ Store!Pin(u) \/ Store!Unpin(u)
        PROVE  Store!Next
    BY <2>1 DEF Store!Next
  <2>2. ASSUME NEW p \in Process, Store!Prune(listed[p])
        PROVE  Store!Next
    <3> HIDE DEF slabState, TypeOK
    <3>1. PICK S \in SUBSET Upload : S = listed[p]
      BY <1>10
    <3>2. Store!Prune(S)
      BY <2>2, <3>1 DEF Store!Prune
    <3> QED
      BY <3>2 DEF Store!Next
  <2> HIDE DEF Still
  <2> QED
    BY <2>1, <2>2, <1>2, <1>3, <1>4, <1>5, <1>6, <1>7, <1>8, <1>9, Zenon DEF Next
<1> QED
  BY <1>1, <1>11

\* The gate implements SlabStore: prunes take only slabs no pinned object
\* references, and pins rest on slabs no prune has taken.
THEOREM GateImplementsSlabStore == Timely => (Spec => ImplementsSlabStore)
<1> SUFFICES ASSUME Timely
             PROVE  Spec => Store!Spec
  BY DEF ImplementsSlabStore
<1>1. Init => Store!Init
  BY DEF Init, Store!Init, slabState
<1>2. TypeOK /\ GateInv /\ [Next]_vars => [Store!Next]_slabState
  BY GateStepRefines
<1> QED
  BY <1>1, <1>2, TypeCorrect, GateInvariant, PTL DEF Spec, Store!Spec
=============================================================================
