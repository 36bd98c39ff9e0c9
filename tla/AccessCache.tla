---------------------------- MODULE AccessCache ----------------------------
(***************************************************************************)
(* How the delivery gateway decides whether one object may be served       *)
(* (delivery/access-control.ts): two caches in front of the database, one  *)
(* from the object to the asset that claims it and one from the asset to   *)
(* its state, filled by the queries that requests wait for.                *)
(*                                                                         *)
(* The asset is edited, deleted and removed by this process, which drops   *)
(* what it cached once the database answered, and by another one, which    *)
(* does not.  A state of the asset is the number of a version of its row.  *)
(***************************************************************************)
EXTENDS Naturals, Sequences

CONSTANTS
    Request,
    None,
    StateTTL,       \* ASSET_STATE_TTL_MS
    OwnerTTL,       \* OBJECT_OWNER_TTL_MS
    UnclaimedTTL,   \* UNCLAIMED_TTL_MS
    QueryTime,      \* bound: how long a query of the database takes
    MaxTime,        \* bound: the clock
    MaxVersions     \* bound: the versions of the asset's row

\* What the constants must be; no entry of a cache is None.
CacheAssumption ==
    /\ StateTTL \in Nat /\ OwnerTTL \in Nat /\ UnclaimedTTL \in Nat
    /\ QueryTime \in Nat /\ MaxTime \in Nat /\ MaxVersions \in Nat \ {0}
    /\ None \notin Nat \cup [version : Nat, at : Nat]

VARIABLES
    now,
    versions,    \* the versions of the asset's row: [kind, from]
    claimedAt,   \* when finalize wrote the artifact row of the object, or None
    dropping,    \* this process committed a change and has not dropped the state yet
    owners,      \* objectOwners: [claimed, at, ttl] or None
    state,       \* assetStates: [version, at] or None
    pc,          \* where a request is
    began,       \* when its query was sent
    result,      \* what it knows of the object: [claimed, version]
    dropped,     \* ghost: the state was dropped while the request was on its way
    verdict      \* what it decided: [version, at, dropped] or None

vars == <<now, versions, claimedAt, dropping, owners, state, pc, began, result, dropped,
          verdict>>

Kind == {"live", "deleted", "gone"}
Missing == 0        \* assetStates' 'missing', and the verdict 'unknown'

Row == Len(versions)
Claimed == claimedAt # None /\ versions[Row].kind # "gone"

TypeOK ==
    /\ now \in 0..MaxTime
    /\ Row \in 1..MaxVersions
    /\ \A v \in 1..Row : versions[v].kind \in Kind /\ versions[v].from \in 0..now
    /\ claimedAt \in 0..now \cup {None}
    /\ dropping \in BOOLEAN
    /\ owners \in [claimed : BOOLEAN, at : 0..now, ttl : {OwnerTTL, UnclaimedTTL}] \cup {None}
    /\ state \in [version : 0..Row, at : 0..now] \cup {None}
    /\ pc \in [Request -> {"idle", "ask_object", "ask_asset", "got_object", "got_asset",
                           "decide", "done"}]
    /\ began \in [Request -> 0..now]
    /\ result \in [Request -> [claimed : BOOLEAN, version : 0..Row]]
    /\ verdict \in [Request -> [version : 0..Row, at : 0..now, dropped : BOOLEAN] \cup {None}]
    /\ dropped \in [Request -> BOOLEAN]

Nothing == [claimed |-> FALSE, version |-> Missing]

Init ==
    /\ now = 0
    /\ versions = <<[kind |-> "live", from |-> 0]>>
    /\ claimedAt = None
    /\ dropping = FALSE
    /\ owners = None
    /\ state = None
    /\ pc = [r \in Request |-> "idle"]
    /\ began = [r \in Request |-> 0]
    /\ result = [r \in Request |-> Nothing]
    /\ verdict = [r \in Request |-> None]
    /\ dropped = [r \in Request |-> FALSE]

----------------------------------------------------------------------------
(* The caches (lru-cache): an entry older than its ttl is not there.       *)

KnownOwners == owners # None /\ now - owners.at <= owners.ttl

StateOfAnyAge == state # None   \* for a mutant

KnownState == state # None /\ now - state.at <= StateTTL

TtlOf(claimed) == IF claimed THEN OwnerTTL ELSE UnclaimedTTL

Drop ==
    /\ state' = None
    /\ dropped' = [r \in Request |-> dropped[r] \/ pc[r] \notin {"idle", "done"}]

----------------------------------------------------------------------------
(* A request: resolveObjectAccess.                                         *)

Go(r, to) == pc' = [pc EXCEPT ![r] = to]

\* With both entries cached the decision is taken at once.
Ask(r) ==
    /\ pc[r] = "idle"
    /\ Go(r, IF ~KnownOwners THEN "ask_object"
             ELSE IF owners.claimed /\ ~KnownState THEN "ask_asset" ELSE "decide")
    /\ result' = [result EXCEPT ![r] =
          [claimed |-> KnownOwners /\ owners.claimed, version |-> Missing]]
    /\ began' = [began EXCEPT ![r] = now]
    /\ UNCHANGED <<now, versions, claimedAt, dropping, owners, state, verdict, dropped>>

\* The database reads the rows some time before the answer arrives: the state of
\* the asset and, in loadByObject, whether its artifact rows name the object.
Read(r) ==
    /\ \/ pc[r] = "ask_object" /\ Go(r, "got_object")
       \/ pc[r] = "ask_asset" /\ Go(r, "got_asset")
    /\ result' = [result EXCEPT ![r] =
          [claimed |-> Claimed \/ pc[r] = "ask_asset",
           version |-> IF Claimed THEN Row ELSE Missing]]
    /\ UNCHANGED <<now, versions, claimedAt, dropping, owners, state, began, verdict, dropped>>

\* loadByObject caches the owners and the states of those it found, loadAssetStates
\* the state or its absence.
Store(r) ==
    /\ pc[r] \in {"got_object", "got_asset"}
    /\ Go(r, "decide")
    /\ owners' = IF pc[r] = "got_asset" THEN owners
                 ELSE [claimed |-> result[r].claimed, at |-> now,
                       ttl |-> TtlOf(result[r].claimed)]
    /\ state' = IF result[r].claimed
                THEN [version |-> result[r].version, at |-> now] ELSE state
    /\ UNCHANGED <<now, versions, claimedAt, dropping, began, result, verdict, dropped>>

Forget(r) ==
    /\ began' = [began EXCEPT ![r] = 0]
    /\ result' = [result EXCEPT ![r] = Nothing]
    /\ dropped' = [dropped EXCEPT ![r] = FALSE]

\* It decides, once its turn comes, by the owners it holds and the state cached then.
Decide(r) ==
    /\ pc[r] = "decide"
    /\ Go(r, "done")
    /\ verdict' = [verdict EXCEPT ![r] =
          [version |-> IF result[r].claimed /\ KnownState THEN state.version ELSE Missing,
           at |-> now, dropped |-> dropped[r]]]
    /\ Forget(r)
    /\ UNCHANGED <<now, versions, claimedAt, dropping, owners, state>>

Leave(r) ==
    /\ pc[r] = "done"
    /\ Go(r, "idle")
    /\ verdict' = [verdict EXCEPT ![r] = None]
    /\ UNCHANGED <<now, versions, claimedAt, dropping, owners, state, began, result, dropped>>

----------------------------------------------------------------------------
(* The asset.                                                              *)

\* Finalize writes the artifact rows of the asset.
Claim ==
    /\ claimedAt = None
    /\ versions[Row].kind = "live"
    /\ claimedAt' = now
    /\ UNCHANGED <<now, versions, dropping, owners, state, pc, began, result, verdict, dropped>>

NewVersion(kind) ==
    /\ Row < MaxVersions
    /\ versions' = Append(versions, [kind |-> kind, from |-> now])

\* A tier edit or a revoke, a delete, or the removal of the row of a deleted asset.
Change ==
    \/ versions[Row].kind = "live" /\ \E kind \in {"live", "deleted"} : NewVersion(kind)
    \/ versions[Row].kind = "deleted" /\ NewVersion("gone")

\* This process changes the asset and is told so ...
ChangeHere ==
    /\ ~dropping
    /\ Change
    /\ dropping' = (versions[Row].kind = "live")
    /\ UNCHANGED <<now, claimedAt, owners, state, pc, began, result, verdict, dropped>>

\* ... and drops the cached state (invalidateAssetAccess).
DropState ==
    /\ dropping
    /\ dropping' = FALSE
    /\ Drop
    /\ UNCHANGED <<now, versions, claimedAt, owners, pc, began, result, verdict>>

\* The deletion worker unpinned the object (invalidateObjectAccessTier), or the
\* cache was full.
DropOwners ==
    /\ owners # None
    /\ owners' = None
    /\ UNCHANGED <<now, versions, claimedAt, dropping, state, pc, began, result, verdict, dropped>>

\* Another process changes the asset.
ChangeElsewhere ==
    /\ Change
    /\ UNCHANGED <<now, claimedAt, dropping, owners, state, pc, began, result, verdict, dropped>>

\* The cache was full.
EvictState ==
    /\ state # None
    /\ Drop
    /\ UNCHANGED <<now, versions, claimedAt, dropping, owners, pc, began, result, verdict>>

\* Time passes: not over a query for longer than it takes, nor over a request that
\* could decide.
Tick ==
    /\ now < MaxTime
    /\ \A r \in Request :
          /\ pc[r] \in {"ask_object", "ask_asset", "got_object", "got_asset"}
                => now - began[r] < QueryTime
          /\ pc[r] \notin {"decide", "done"}
    /\ now' = now + 1
    /\ UNCHANGED <<versions, claimedAt, dropping, owners, state, pc, began, result, verdict,
                   dropped>>

Next ==
    \/ \E r \in Request : Ask(r) \/ Read(r) \/ Store(r) \/ Decide(r) \/ Leave(r)
    \/ Claim \/ ChangeHere \/ DropState \/ DropOwners \/ ChangeElsewhere \/ EvictState \/ Tick

Spec == Init /\ [][Next]_vars

----------------------------------------------------------------------------
(* Properties.                                                             *)

\* When a version was replaced.
Replaced(v) == versions[v + 1].from

\* A tier edit, a revoke or a delete reaches every decision: whichever process made
\* it, and whatever queries were on their way, a state is decided by no longer than
\* its ttl and one query after it was replaced (access-control.ts:16-21).
DecidesFresh ==
    \A r \in Request : verdict[r] # None /\ verdict[r].version \in 1..(Row - 1)
        => verdict[r].at - Replaced(verdict[r].version) <= StateTTL + QueryTime

\* A finalized object is not answered unknown for longer than the ttl of an unclaimed one and
\* one query, unless its state was dropped under the request (access-control.ts:52-53).
ClaimIsSeen ==
    \A r \in Request :
        (verdict[r] # None /\ verdict[r].version = Missing /\ ~verdict[r].dropped /\ Claimed)
            => verdict[r].at - claimedAt <= UnclaimedTTL + QueryTime
=============================================================================
