--------------------------- MODULE SlabPruneGate ---------------------------
(***************************************************************************)
(* How Sluby keeps slab prunes and packed uploads apart, across every      *)
(* backend process that shares one Sia account.                            *)
(*                                                                         *)
(* indexd prunes each slab of the account that no pinned object            *)
(* references. An upload pins its slabs as they are stored and its objects *)
(* only at the end, so a prune in between would strip it. Every upload     *)
(* therefore holds a lease in Redis, a prune takes a lock in Redis only    *)
(* when no lease is live, and an upload asks right before its pin whether  *)
(* a prune may have run since its claim. Leases and the lock expire.       *)
(*                                                                         *)
(* Redis runs each Lua script atomically; the local state a reply changes  *)
(* is visible to its own process only, so a script and the handling of its *)
(* reply are one action. Time is not counted: a lease or a lock may expire *)
(* at any moment the two timing constants below allow.                     *)
(***************************************************************************)
EXTENDS Naturals

CONSTANTS
    Process,     \* the backend processes sharing the Sia account
    Upload,      \* packed uploads, each executed once by one process
    MaxFaults,   \* bound: how many processes crash, and prunes or their claims fail
    LockLapses,  \* whether the lock may expire while its holder still prunes
    PinStalls    \* whether a lease may expire between its check and the pin

ASSUME GateAssumption ==
    /\ MaxFaults \in Nat
    /\ LockLapses \in BOOLEAN
    /\ PinStalls \in BOOLEAN
    /\ Process \cap {"free", "orphan"} = {}

VARIABLES
    \* Redis
    leases,     \* the uploads in the lease set
    stale,      \* those of them whose expiry has passed
    lock,       \* "free", a process whose running attempt holds the lock, or
                \* "orphan": a token that nobody will release
    epoch,      \* how many prunes took the lock
    wanted,     \* a prune waits for uploads to end
    \* indexd
    slab,       \* per upload: "absent", "stored" or "stripped" by a prune
    object,     \* per upload: "none", "pinned" or "unpinned"
    \* the uploads
    phase,      \* how far the upload got
    owner,      \* the process that runs it
    epochAt,    \* the prune count its claim returned
    lapsed,     \* a renewal found that a prune may have run
    \* the processes
    up,
    attempt,    \* the prune attempt running in the process, or "none"
    kind,       \* which call runs it
    listed,     \* the slabs the running prune is about to unpin
    forced,     \* calls of request() that have yet to attempt
    ifWanted,   \* calls of afterUpload() that have yet to attempt
    watch,      \* the timer that retries a wanted prune is set
    ticking,    \* a tick of that timer has yet to attempt
    faults      \* how many crashes and failures there were

redisVars == <<leases, stale, lock, epoch, wanted>>
indexdVars == <<slab, object>>
uploadVars == <<phase, owner, epochAt, lapsed>>
processVars == <<up, attempt, kind, listed, forced, ifWanted, watch, ticking>>
vars == <<redisVars, indexdVars, uploadVars, processVars, faults>>

Free == "free"
Orphan == "orphan"

Phases == {"idle", "claimed", "confirmed", "releasing", "ended"}
Kinds == {"request", "after", "tick"}
Pruning == {"locked", "listed", "pruned", "failed"}

TypeOK ==
    /\ leases \subseteq Upload
    /\ stale \subseteq leases
    /\ lock \in Process \cup {Free, Orphan}
    /\ epoch \in Nat
    /\ wanted \in BOOLEAN
    /\ slab \in [Upload -> {"absent", "stored", "stripped"}]
    /\ object \in [Upload -> {"none", "pinned", "unpinned"}]
    /\ phase \in [Upload -> Phases]
    /\ owner \in [Upload -> Process]
    /\ epochAt \in [Upload -> Nat]
    /\ lapsed \in [Upload -> BOOLEAN]
    /\ up \in [Process -> BOOLEAN]
    /\ attempt \in [Process -> Pruning \cup {"none"}]
    /\ kind \in [Process -> Kinds]
    /\ listed \in [Process -> SUBSET Upload]
    /\ forced \in [Process -> Nat]
    /\ ifWanted \in [Process -> Nat]
    /\ watch \in [Process -> BOOLEAN]
    /\ ticking \in [Process -> BOOLEAN]
    /\ faults \in Nat

Init ==
    /\ leases = {} /\ stale = {}
    /\ lock = Free
    /\ epoch = 0
    /\ wanted = FALSE
    /\ slab = [u \in Upload |-> "absent"]
    /\ object = [u \in Upload |-> "none"]
    /\ phase = [u \in Upload |-> "idle"]
    /\ owner \in [Upload -> Process]
    /\ epochAt = [u \in Upload |-> 0]
    /\ lapsed = [u \in Upload |-> FALSE]
    /\ up = [p \in Process |-> TRUE]
    /\ attempt = [p \in Process |-> "none"]
    /\ kind = [p \in Process |-> "request"]
    /\ listed = [p \in Process |-> {}]
    /\ forced = [p \in Process |-> 0]
    /\ ifWanted = [p \in Process |-> 0]
    /\ watch = [p \in Process |-> FALSE]
    /\ ticking = [p \in Process |-> FALSE]
    /\ faults = 0

----------------------------------------------------------------------------
(***************************************************************************)
(* Mutants: slips of the code that the properties must notice. No action   *)
(* of the specification uses them.                                         *)
(***************************************************************************)

\* An upload that does not wait for prunes.
MayClaimAnyTime(u) == TRUE

\* A renewal that does not compare the prune counts.
RenewNoCount(u) ==
    IF u \in leases THEN "held"
    ELSE IF lock # Free THEN "prune-running"
    ELSE "reclaimed"

\* A check that overlooks a prune still running.
LeaseKeptUnderPrune(u) == u \in leases \/ epochAt[u] = epoch \/ lock # Free

\* A failed upload that requests no prune.
FailQuietly(u) ==
    /\ phase' = [phase EXCEPT ![u] = "releasing"]
    /\ UNCHANGED <<owner, epochAt, lapsed, processVars>>

\* A prune that counts no lease, and one that counts the expired ones.
NoLiveLeases == {}
ExpiredCount == leases

----------------------------------------------------------------------------
(***************************************************************************)
(* Uploads. `owner` is fixed in the initial state, which stands for the    *)
(* process whose worker happens to pick the upload up.                     *)
(***************************************************************************)

\* The upload is between its claim and its end.
Running(u) == phase[u] \in {"claimed", "confirmed"}

\* The uploads the gate of a process has in its map.
InFlight(p) == {u \in Upload : owner[u] = p /\ Running(u)}

\* No attempt runs in the process, and no prune holds the lock.
MayClaim(u) == attempt[owner[u]] = "none" /\ lock = Free

\* beginUpload: the lease is recorded with the prune count.
ClaimUpload(u) ==
    /\ phase[u] = "idle"
    /\ up[owner[u]]
    /\ MayClaim(u)
    /\ leases' = leases \cup {u}
    /\ epochAt' = [epochAt EXCEPT ![u] = epoch]
    /\ phase' = [phase EXCEPT ![u] = "claimed"]
    /\ UNCHANGED <<stale, lock, epoch, wanted, indexdVars, owner, lapsed,
                   processVars, faults>>

\* The SDK stores and pins the slabs of the batch.
StoreSlabs(u) ==
    /\ phase[u] = "claimed"
    /\ slab[u] = "absent"
    /\ slab' = [slab EXCEPT ![u] = "stored"]
    /\ UNCHANGED <<redisVars, object, uploadVars, processVars, faults>>

\* What the renewal script answers for the lease of u.
RenewOutcome(u) ==
    IF u \in leases THEN "held"
    ELSE IF lock # Free THEN "prune-running"
    ELSE IF epoch # epochAt[u] THEN "pruned"
    ELSE "reclaimed"

LeaseKept(u) == RenewOutcome(u) \in {"held", "reclaimed"}

\* The script extends a lease it keeps.
ExtendLease(u) ==
    /\ leases' = leases \cup {u}
    /\ stale' = stale \ {u}

\* renewUploads, for one upload of the map: a lost lease marks the upload.
RenewUpload(u) ==
    /\ Running(u)
    /\ ~lapsed[u]
    /\ \/ /\ LeaseKept(u)
          /\ ExtendLease(u)
          /\ UNCHANGED lapsed
       \/ /\ ~LeaseKept(u)
          /\ lapsed' = [lapsed EXCEPT ![u] = TRUE]
          /\ UNCHANGED <<leases, stale>>
    /\ UNCHANGED <<lock, epoch, wanted, indexdVars, phase, owner, epochAt,
                   processVars, faults>>

\* A failed upload requests a prune of the slabs it left and then ends.
FailInto(u) ==
    /\ phase' = [phase EXCEPT ![u] = "releasing"]
    /\ forced' = [forced EXCEPT ![owner[u]] = @ + 1]
    /\ UNCHANGED <<owner, epochAt, lapsed, up, attempt, kind, listed, ifWanted,
                   watch, ticking>>

\* confirmUpload, right before the pin: the lease is renewed and held.
ConfirmUpload(u) ==
    /\ phase[u] = "claimed"
    /\ slab[u] # "absent"
    /\ ~lapsed[u]
    /\ LeaseKept(u)
    /\ ExtendLease(u)
    /\ phase' = [phase EXCEPT ![u] = "confirmed"]
    /\ UNCHANGED <<lock, epoch, wanted, indexdVars, owner, epochAt, lapsed,
                   processVars, faults>>

\* confirmUpload throws UploadLeaseLost.
RefuseUpload(u) ==
    /\ phase[u] = "claimed"
    /\ slab[u] # "absent"
    /\ lapsed[u] \/ ~LeaseKept(u)
    /\ FailInto(u)
    /\ UNCHANGED <<redisVars, indexdVars, faults>>

\* The upload stalls, is cancelled, or its objects cannot be recorded or pinned.
FailUpload(u) ==
    /\ Running(u)
    /\ FailInto(u)
    /\ UNCHANGED <<redisVars, indexdVars, faults>>

\* pinObject succeeds, and endUpload takes the upload out of the map.
PinObject(u) ==
    /\ phase[u] = "confirmed"
    /\ object' = [object EXCEPT ![u] = "pinned"]
    /\ phase' = [phase EXCEPT ![u] = "releasing"]
    /\ UNCHANGED <<redisVars, slab, owner, epochAt, lapsed, processVars, faults>>

\* afterUpload: the lease is released, and the last upload of the process
\* looks for a wanted prune.
ReleaseUpload(u) ==
    /\ phase[u] = "releasing"
    /\ phase' = [phase EXCEPT ![u] = "ended"]
    /\ leases' = leases \ {u}
    /\ stale' = stale \ {u}
    /\ ifWanted' = IF InFlight(owner[u]) = {}
                   THEN [ifWanted EXCEPT ![owner[u]] = @ + 1] ELSE ifWanted
    /\ UNCHANGED <<lock, epoch, wanted, indexdVars, owner, epochAt, lapsed, up,
                   attempt, kind, listed, forced, watch, ticking, faults>>

\* afterUpload when Redis cannot be reached: logged, the lease is left to expire.
ReleaseLost(u) ==
    /\ phase[u] = "releasing"
    /\ phase' = [phase EXCEPT ![u] = "ended"]
    /\ UNCHANGED <<redisVars, indexdVars, owner, epochAt, lapsed, processVars,
                   faults>>

\* The object of an ended upload is unpinned, by any process, which then asks
\* for a prune of its slabs.
UnpinObject(p, u) ==
    /\ up[p]
    /\ phase[u] = "ended"
    /\ object[u] = "pinned"
    /\ object' = [object EXCEPT ![u] = "unpinned"]
    /\ forced' = [forced EXCEPT ![p] = @ + 1]
    /\ UNCHANGED <<redisVars, slab, uploadVars, up, attempt, kind, listed,
                   ifWanted, watch, ticking, faults>>

----------------------------------------------------------------------------
(***************************************************************************)
(* Prunes. A process runs one attempt at a time; the other calls of run()  *)
(* wait for it and then attempt themselves. A claim that answers 'busy'    *)
(* changes nothing and is asked again, so it is no step here.              *)
(***************************************************************************)

\* The calls of run() waiting in the process.
Waiting(p, k) ==
    \/ k = "request" /\ forced[p] > 0
    \/ k = "after" /\ ifWanted[p] > 0
    \/ k = "tick" /\ ticking[p]

\* The waiting call leaves the queue.
Dequeue(p, k) ==
    /\ forced' = IF k = "request" THEN [forced EXCEPT ![p] = @ - 1] ELSE forced
    /\ ifWanted' = IF k = "after" THEN [ifWanted EXCEPT ![p] = @ - 1] ELSE ifWanted

CanAttempt(p, k) ==
    /\ up[p]
    /\ attempt[p] = "none"
    /\ Waiting(p, k)
    /\ lock = Free

\* The claim script answers 'idle': nobody wants the prune any more.
PruneIdle(p, k) ==
    /\ CanAttempt(p, k)
    /\ k # "request"
    /\ ~wanted
    /\ Dequeue(p, k)
    /\ IF k = "tick"
       THEN ticking' = [ticking EXCEPT ![p] = FALSE] /\ watch' = [watch EXCEPT ![p] = FALSE]
       ELSE UNCHANGED <<ticking, watch>>
    /\ UNCHANGED <<redisVars, indexdVars, uploadVars, up, attempt, kind, listed, faults>>

\* The claim script drops the leases that expired and counts the others.
LiveLeases == leases \ stale

\* The claim script answers 'deferred': a lease is live, the prune is wanted,
\* and this process watches for the moment it can run.
PruneDeferred(p, k) ==
    /\ CanAttempt(p, k)
    /\ k = "request" \/ wanted
    /\ LiveLeases # {}
    /\ leases' = LiveLeases
    /\ stale' = {}
    /\ wanted' = TRUE
    /\ Dequeue(p, k)
    /\ watch' = [watch EXCEPT ![p] = TRUE]
    /\ ticking' = IF k = "tick" THEN [ticking EXCEPT ![p] = FALSE] ELSE ticking
    /\ UNCHANGED <<lock, epoch, indexdVars, uploadVars, up, attempt, kind, listed,
                   faults>>

\* The claim script answers 'locked'.
PruneLocked(p, k) ==
    /\ CanAttempt(p, k)
    /\ k = "request" \/ wanted
    /\ LiveLeases = {}
    /\ leases' = {}
    /\ stale' = {}
    /\ lock' = p
    /\ epoch' = epoch + 1
    /\ wanted' = FALSE
    /\ attempt' = [attempt EXCEPT ![p] = "locked"]
    /\ kind' = [kind EXCEPT ![p] = k]
    /\ Dequeue(p, k)
    /\ UNCHANGED <<indexdVars, uploadVars, up, listed, watch, ticking, faults>>

\* The claim script cannot be run: the call throws, which request's caller and
\* the timer only log. The timer stays set.
FailClaim(p, k) ==
    /\ faults < MaxFaults
    /\ faults' = faults + 1
    /\ CanAttempt(p, k)
    /\ Dequeue(p, k)
    /\ ticking' = IF k = "tick" THEN [ticking EXCEPT ![p] = FALSE] ELSE ticking
    /\ UNCHANGED <<redisVars, indexdVars, uploadVars, up, attempt, kind, listed,
                   watch>>

\* indexd reads the slabs no pinned object references ...
ListSlabs(p) ==
    /\ attempt[p] = "locked"
    /\ listed' = [listed EXCEPT ![p] =
                    {u \in Upload : slab[u] = "stored" /\ object[u] # "pinned"}]
    /\ attempt' = [attempt EXCEPT ![p] = "listed"]
    /\ UNCHANGED <<redisVars, indexdVars, uploadVars, up, kind, forced, ifWanted,
                   watch, ticking, faults>>

\* ... and unpins them.
StripSlabs(p) ==
    /\ attempt[p] = "listed"
    /\ slab' = [u \in Upload |-> IF u \in listed[p] THEN "stripped" ELSE slab[u]]
    /\ attempt' = [attempt EXCEPT ![p] = "pruned"]
    /\ UNCHANGED <<redisVars, object, uploadVars, up, kind, listed, forced,
                   ifWanted, watch, ticking, faults>>

\* The prune call fails; the lock is released all the same.
FailPrune(p) ==
    /\ faults < MaxFaults
    /\ faults' = faults + 1
    /\ attempt[p] \in {"locked", "listed"}
    /\ attempt' = [attempt EXCEPT ![p] = "failed"]
    /\ UNCHANGED <<redisVars, indexdVars, uploadVars, up, kind, listed, forced,
                   ifWanted, watch, ticking>>

\* releasePrune, and run() returns or throws. A tick that pruned stops the
\* timer; one that threw leaves it set. A release Redis never got leaves the
\* lock to expire.
ReleasePrune(p) ==
    /\ attempt[p] \in {"pruned", "failed"}
    /\ lock' \in IF lock = p THEN {Free, Orphan} ELSE {lock}
    /\ attempt' = [attempt EXCEPT ![p] = "none"]
    /\ listed' = [listed EXCEPT ![p] = {}]
    /\ IF kind[p] = "tick"
       THEN /\ ticking' = [ticking EXCEPT ![p] = FALSE]
            /\ watch' = [watch EXCEPT ![p] = attempt[p] = "failed"]
       ELSE UNCHANGED <<ticking, watch>>
    /\ UNCHANGED <<leases, stale, epoch, wanted, indexdVars, uploadVars, up, kind,
                   forced, ifWanted, faults>>

\* The timer of watchWanted fires.
WatchTick(p) ==
    /\ watch[p]
    /\ ~ticking[p]
    /\ attempt[p] = "none"
    /\ ticking' = [ticking EXCEPT ![p] = TRUE]
    /\ UNCHANGED <<redisVars, indexdVars, uploadVars, up, attempt, kind, listed,
                   forced, ifWanted, watch, faults>>

----------------------------------------------------------------------------
(***************************************************************************)
(* Time and crashes.                                                       *)
(***************************************************************************)

\* The expiry of a lease passes: its process died, or stalled for a whole ttl.
ExpireLease(u) ==
    /\ u \in leases \ stale
    /\ phase[u] = "confirmed" => PinStalls
    /\ stale' = stale \cup {u}
    /\ UNCHANGED <<leases, lock, epoch, wanted, indexdVars, uploadVars,
                   processVars, faults>>

\* The key of the lease set expires with the last lease renewed.
ExpireLeaseSet ==
    /\ leases # {}
    /\ stale = leases
    /\ leases' = {} /\ stale' = {}
    /\ UNCHANGED <<lock, epoch, wanted, indexdVars, uploadVars, processVars, faults>>

\* The lock expires: its token is lost, or its holder could not renew it.
ExpireLock ==
    /\ lock # Free
    /\ lock = Orphan \/ LockLapses
    /\ lock' = Free
    /\ UNCHANGED <<leases, stale, epoch, wanted, indexdVars, uploadVars,
                   processVars, faults>>

\* The process dies: its uploads end with their leases held, its attempt, its
\* waiting calls and its timers are gone.
Crash(p) ==
    /\ up[p]
    /\ faults < MaxFaults
    /\ faults' = faults + 1
    /\ up' = [up EXCEPT ![p] = FALSE]
    /\ phase' = [u \in Upload |->
                    IF owner[u] = p /\ phase[u] \in {"claimed", "confirmed", "releasing"}
                    THEN "ended" ELSE phase[u]]
    /\ lock' = IF lock = p THEN Orphan ELSE lock
    /\ attempt' = [attempt EXCEPT ![p] = "none"]
    /\ listed' = [listed EXCEPT ![p] = {}]
    /\ forced' = [forced EXCEPT ![p] = 0]
    /\ ifWanted' = [ifWanted EXCEPT ![p] = 0]
    /\ watch' = [watch EXCEPT ![p] = FALSE]
    /\ ticking' = [ticking EXCEPT ![p] = FALSE]
    /\ UNCHANGED <<leases, stale, epoch, wanted, indexdVars, owner, epochAt,
                   lapsed, kind>>

Restart(p) ==
    /\ ~up[p]
    /\ up' = [up EXCEPT ![p] = TRUE]
    /\ UNCHANGED <<redisVars, indexdVars, uploadVars, attempt, kind, listed,
                   forced, ifWanted, watch, ticking, faults>>

----------------------------------------------------------------------------
UploadStep(u) ==
    \/ ClaimUpload(u) \/ StoreSlabs(u) \/ RenewUpload(u) \/ ConfirmUpload(u)
    \/ RefuseUpload(u) \/ FailUpload(u) \/ PinObject(u) \/ ReleaseUpload(u)
    \/ ReleaseLost(u) \/ ExpireLease(u)

AttemptPrune(p) ==
    \E k \in Kinds : PruneIdle(p, k) \/ PruneDeferred(p, k) \/ PruneLocked(p, k)

PruneStep(p) ==
    \/ AttemptPrune(p) \/ (\E k \in Kinds : FailClaim(p, k))
    \/ ListSlabs(p) \/ StripSlabs(p) \/ FailPrune(p) \/ ReleasePrune(p)
    \/ WatchTick(p)

Next ==
    \/ \E u \in Upload : UploadStep(u)
    \/ \E p \in Process : PruneStep(p) \/ Crash(p) \/ Restart(p)
    \/ \E p \in Process, u \in Upload : UnpinObject(p, u)
    \/ ExpireLeaseSet \/ ExpireLock

Spec == Init /\ [][Next]_vars

\* Every upload ends (the stall timer cancels it at the latest), a process
\* that lives polls, reaches Redis again after it failed to, runs its prune and
\* fires its timer, and leases nobody renews and locks nobody releases expire.
Fairness ==
    /\ \A u \in Upload :
        /\ WF_vars(PinObject(u) \/ FailUpload(u) \/ RefuseUpload(u))
        /\ WF_vars(ReleaseUpload(u) \/ ReleaseLost(u))
        /\ WF_vars(phase[u] = "ended" /\ ExpireLease(u))
    /\ \A p \in Process :
        /\ SF_vars(AttemptPrune(p))
        /\ WF_vars(ListSlabs(p) \/ StripSlabs(p) \/ FailPrune(p))
        /\ WF_vars(ReleasePrune(p))
        /\ WF_vars(WatchTick(p))
    /\ WF_vars(lock = Orphan /\ ExpireLock)

FairSpec == Spec /\ Fairness

----------------------------------------------------------------------------
(***************************************************************************)
(* Properties.                                                             *)
(***************************************************************************)

\* No object is ever pinned over slabs a prune took, whatever leases expired
\* while the upload stored them: "an upload a prune may have run under fails
\* before its pin" (uploadAndPinPacked). It needs a prune that keeps its lock
\* and a pin that follows its check within one ttl.
PinnedSlabsKept == \A u \in Upload : object[u] = "pinned" => slab[u] = "stored"

\* A prune never runs next to another one of the account, nor next to an upload
\* that can still pin: while one lists or unpins slabs, no lease is in the set and
\* no upload has passed its check (attempt, confirmUpload).
PruneIsAlone ==
    /\ \A p, q \in Process : attempt[p] \in Pruning /\ attempt[q] \in Pruning => p = q
    /\ (\E p \in Process : attempt[p] \in {"locked", "listed"}) =>
           /\ leases = {}
           /\ \A u \in Upload : phase[u] # "confirmed"

\* The prune count an upload remembers is still the current one while its lease
\* is in the set: a lease that stayed put blocked every prune since its claim
\* (the comment over RENEW_UPLOAD). This is what makes extending it safe.
LeaseBlockedPrunes ==
    \A u \in leases : Running(u) => epochAt[u] = epoch

\* The gate implements the promise of SlabStore.
slabState ==
    [u \in Upload |->
        IF object[u] # "pinned" THEN slab[u]
        ELSE IF slab[u] = "stored" THEN "pinned" ELSE "broken"]

Store == INSTANCE SlabStore WITH state <- slabState

ImplementsSlabStore == Store!Spec

\* A wanted prune that some living process watches is attempted in the end,
\* also when the replica that blocked it died with its lease (checkWanted).
WantedIsServed ==
    \A p \in Process : (wanted /\ watch[p]) ~> (~wanted \/ ~up[p])

\* The slabs of an upload that failed, and of an object that was unpinned.
Garbage(u) == slab[u] = "stored" /\ object[u] # "pinned" /\ phase[u] = "ended"

\* Such slabs are pruned in the end, though the prune asked for them may find
\* uploads in flight, another prune that listed too early, or a lock held
\* elsewhere (request). It needs a prune that succeeds and processes that live:
\* a process that dies takes its wish for a prune with it.
GarbageIsPruned ==
    [](faults = 0) => \A u \in Upload : Garbage(u) ~> ~Garbage(u)

----------------------------------------------------------------------------
(***************************************************************************)
(* The inductive invariant behind the safety properties. It holds when the *)
(* lock outlives its prune and a pin follows its check within one ttl.     *)
(***************************************************************************)
Timely == ~LockLapses /\ ~PinStalls

\* An upload that has not begun has stored nothing.
FreshUploads == \A u \in Upload : phase[u] = "idle" => slab[u] = "absent" /\ object[u] = "none"

\* No upload remembers a prune count that is still to come.
ClaimsArePast == \A u \in Upload : Running(u) => epochAt[u] <= epoch

\* Whoever runs an attempt holds the lock.
PrunersHoldLock == \A p \in Process : attempt[p] # "none" => lock = p

\* While the lock is held the set is empty, and every upload that runs claimed
\* before the prune was counted.
LockSeesNoLease ==
    lock # Free =>
        /\ leases = {}
        /\ \A u \in Upload : Running(u) => epochAt[u] < epoch

\* A stripped upload that still runs remembers an older prune count.
StrippedIsOutdated ==
    \A u \in Upload : Running(u) /\ slab[u] = "stripped" => epochAt[u] < epoch

\* Past the check, the lease is live and the slabs are there.
ConfirmedIsSafe ==
    \A u \in Upload : phase[u] = "confirmed" =>
        u \in leases /\ u \notin stale /\ slab[u] = "stored"

\* The slabs about to be unpinned are stored, and no pinned object has them.
ListedIsGarbage ==
    \A p \in Process : attempt[p] = "listed" =>
        \A u \in listed[p] : slab[u] = "stored" /\ object[u] # "pinned"

GateInv ==
    /\ FreshUploads
    /\ ClaimsArePast
    /\ LeaseBlockedPrunes
    /\ PrunersHoldLock
    /\ LockSeesNoLease
    /\ StrippedIsOutdated
    /\ ConfirmedIsSafe
    /\ ListedIsGarbage
    /\ PinnedSlabsKept
=============================================================================
