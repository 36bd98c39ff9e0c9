----------------------------- MODULE Reconcile -----------------------------
(***************************************************************************)
(* One reconciliation run over objects that move while it reads. The rows  *)
(* that lead to an object, in pending_objects and in artifacts, and its    *)
(* state at the indexer change by the steps of uploads, finalize, releases *)
(* and deletions; the run reads the first, the second and the third one    *)
(* after another, and compares what it read. ReconcileFeed shows that what *)
(* a sync leaves in the copy is the indexer's state; here the sync reads   *)
(* the state of one object after another.                                  *)
(***************************************************************************)
EXTENDS Naturals

CONSTANTS
    Object,
    Grace,        \* RECONCILE_GRACE_MS
    CommitDelay,  \* how long before its commit the indexer stamps an event
    MaxTime       \* bound: the clock

\* What the constants must be: a commit takes less than the grace time.
ReconcileAssumption ==
    /\ Grace \in Nat /\ CommitDelay \in Nat /\ CommitDelay < Grace
    /\ MaxTime \in Nat

VARIABLES
    now,
    upload,     \* of each object: new, recorded while its pin is to come, over
    pending,    \* its row in pending_objects: none, uploading, release
    updated,    \* the updatedAt of that row
    tracked,    \* the objects with a row in artifacts
    unpinned,   \* those a release or a deletion unpinned, or did not find, and
                \* has not forgotten yet
    state,      \* the object at the indexer: none, pinned, deleted
    event,      \* the instant of its latest event
    pc,         \* what the run is at
    started,    \* startedAt
    owned,      \* pipelineOwned of the pending rows, as read
    db,         \* the tracked ids, as read
    copy,       \* the saved inventory: [state, event] of each object
    unread,     \* the objects the sync has not come to
    report,     \* [orphaned, missing]
    ever, always  \* history: [orphaned, missing] of the objects that were so at some
                  \* moment since the run began, and at every one

objectVars == <<upload, pending, updated, tracked, unpinned, state, event>>
readVars == <<started, owned, db, copy, unread, report>>
vars == <<now, objectVars, pc, readVars, ever, always>>

Drift == [orphaned : SUBSET Object, missing : SUBSET Object]
Nothing == [orphaned |-> {}, missing |-> {}]

TypeOK ==
    /\ now \in 0 .. MaxTime
    /\ upload \in [Object -> {"new", "recorded", "over"}]
    /\ pending \in [Object -> {"none", "uploading", "release"}]
    /\ updated \in [Object -> 0 .. now]
    /\ tracked \subseteq Object /\ unpinned \subseteq Object
    /\ state \in [Object -> {"none", "pinned", "deleted"}]
    /\ event \in [Object -> 0 .. now]
    /\ pc \in {"idle", "first", "second", "sync", "diff", "done"}
    /\ started \in 0 .. now
    /\ owned \subseteq Object /\ db \subseteq Object /\ unread \subseteq Object
    /\ copy \in [Object -> [state : {"none", "pinned", "deleted"}, event : 0 .. now]]
    /\ report \in Drift /\ ever \in Drift /\ always \in Drift

NoCopy == [o \in Object |-> [state |-> "none", event |-> 0]]

Init ==
    /\ now = 0
    /\ upload = [o \in Object |-> "new"]
    /\ pending = [o \in Object |-> "none"] /\ updated = [o \in Object |-> 0]
    /\ tracked = {} /\ unpinned = {}
    /\ state = [o \in Object |-> "none"] /\ event = [o \in Object |-> 0]
    /\ pc = "idle" /\ started = 0
    /\ owned = {} /\ db = {} /\ copy = NoCopy /\ unread = {}
    /\ report = Nothing /\ ever = Nothing /\ always = Nothing

----------------------------------------------------------------------------
(***************************************************************************)
(* What is drift, at one moment, for a run that began at `started`.        *)
(***************************************************************************)
Settled(t) == t + Grace <= started

\* Pinned for a while, and no row leads to it but one whose release keeps failing.
Orphaned(o) ==
    /\ state[o] = "pinned" /\ Settled(event[o])
    /\ o \notin tracked
    /\ pending[o] = "none" \/ (pending[o] = "release" /\ Settled(updated[o]))

\* Of a stored video, and gone for a while.
Missing(o) == o \in tracked /\ state[o] = "deleted" /\ Settled(event[o])

Drifting == [orphaned |-> {o \in Object : Orphaned(o)}, missing |-> {o \in Object : Missing(o)}]

Running == pc \notin {"idle", "done"}

Watch ==
    IF ~Running THEN UNCHANGED <<ever, always>> ELSE
    /\ ever' = [k \in DOMAIN ever |-> ever[k] \cup Drifting'[k]]
    /\ always' = [k \in DOMAIN always |-> always[k] \cap Drifting'[k]]

----------------------------------------------------------------------------
(***************************************************************************)
(* The objects.                                                            *)
(***************************************************************************)
Row(o, becomes) ==
    /\ pending' = [pending EXCEPT ![o] = becomes]
    /\ updated' = [updated EXCEPT ![o] = IF becomes = "none" THEN 0 ELSE now]

\* recordUploadingObjects.
Record(o) ==
    /\ upload[o] = "new"
    /\ upload' = [upload EXCEPT ![o] = "recorded"]
    /\ Row(o, "uploading")
    /\ UNCHANGED <<tracked, unpinned, state, event>>

\* The indexer stamps an event when its transaction starts, after the call.
Stamp(o, becomes, called) ==
    /\ state' = [state EXCEPT ![o] = becomes]
    /\ \E t \in called .. now : t + CommitDelay >= now /\ event' = [event EXCEPT ![o] = t]

Pin(o) ==
    /\ upload[o] = "recorded"
    /\ upload' = [upload EXCEPT ![o] = "over"]
    /\ Stamp(o, "pinned", updated[o])
    /\ UNCHANGED <<pending, updated, tracked, unpinned>>

\* finalizeAssetStorage promotes what its run uploaded.
Finalize(o) ==
    /\ upload[o] = "over" /\ pending[o] = "uploading"
    /\ tracked' = tracked \cup {o}
    /\ Row(o, "none")
    /\ UNCHANGED <<upload, unpinned, state, event>>

\* A failed upload, finalize or the sweep marks it; a second mark makes the first one
\* younger.
Mark(o) ==
    /\ pending[o] # "none"
    /\ Row(o, "release")
    /\ UNCHANGED <<upload, tracked, unpinned, state, event>>

\* A release takes what is marked, a deletion every object a row leads to. An object
\* that is not found counts as unpinned.
Unpin(o) ==
    /\ pending[o] # "none" \/ o \in tracked
    /\ o \notin unpinned
    /\ unpinned' = unpinned \cup {o}
    /\ IF state[o] = "pinned"
       THEN Stamp(o, "deleted", event[o])
       ELSE UNCHANGED <<state, event>>
    /\ UNCHANGED <<upload, pending, updated, tracked>>

\* forgetPendingObjects, markObjectsUnpinned.
Forget(o) ==
    /\ o \in unpinned
    /\ unpinned' = unpinned \ {o}
    /\ tracked' = tracked \ {o}
    /\ Row(o, "none")
    /\ UNCHANGED <<upload, state, event>>

\* Somebody unpins it at the indexer, past this program.
Lose(o) ==
    /\ state[o] = "pinned"
    /\ Stamp(o, "deleted", event[o])
    /\ UNCHANGED <<upload, pending, updated, tracked, unpinned>>

ObjectStep ==
    /\ \E o \in Object :
          Record(o) \/ Pin(o) \/ Finalize(o) \/ Mark(o) \/ Unpin(o) \/ Forget(o) \/ Lose(o)
    /\ UNCHANGED <<now, pc, readVars>>

Tick ==
    /\ now < MaxTime
    /\ now' = now + 1
    /\ UNCHANGED <<objectVars, pc, readVars>>

----------------------------------------------------------------------------
(***************************************************************************)
(* The run.                                                                *)
(***************************************************************************)
Goes(from, to) == pc = from /\ pc' = to

Begin ==
    /\ ~Running /\ pc' = "first"
    /\ started' = now
    /\ report' = Nothing
    /\ UNCHANGED <<now, objectVars, owned, db, copy, unread>>
    /\ ever' = Drifting' /\ always' = Drifting'

\* pipelineOwned of listPendingObjectStates.
ReadPending ==
    /\ owned' = {o \in Object : \/ pending[o] = "uploading"
                                \/ pending[o] = "release" /\ ~Settled(updated[o])}
    /\ UNCHANGED db

\* getAllTrackedObjectIds.
ReadTracked == db' = tracked /\ UNCHANGED owned

\* Mutant: the artifacts first.
ReadTrackedFirst ==
    /\ \/ Goes("first", "second") /\ ReadTracked
       \/ Goes("second", "sync") /\ ReadPending
    /\ unread' = Object
    /\ UNCHANGED <<now, objectVars, started, copy, report>>

ReadDatabase ==
    /\ \/ Goes("first", "second") /\ ReadPending
       \/ Goes("second", "sync") /\ ReadTracked
    /\ unread' = Object
    /\ UNCHANGED <<now, objectVars, started, copy, report>>

SyncIndexer ==
    /\ pc = "sync"
    /\ \E o \in unread :
          /\ copy' = [copy EXCEPT ![o] = [state |-> state[o], event |-> event[o]]]
          /\ unread' = unread \ {o}
    /\ pc' = IF unread' = {} THEN "diff" ELSE "sync"
    /\ UNCHANGED <<now, objectVars, started, owned, db, report>>

Recent(o) == ~Settled(copy[o].event)

\* diffInventory.
DiffInventory ==
    [orphaned |-> {o \in Object \ db : copy[o].state = "pinned" /\ ~Recent(o) /\ o \notin owned},
     missing |-> {o \in db : copy[o].state # "pinned"
                             /\ ~(copy[o].state = "deleted" /\ Recent(o))}]

RecordRun ==
    /\ Goes("diff", "done")
    /\ report' = DiffInventory
    /\ UNCHANGED <<now, objectVars, started, owned, db, copy, unread>>

\* A read, the sync or the process fails: the run reports nothing.
RunFails ==
    /\ Running /\ pc' = "idle"
    /\ UNCHANGED <<now, objectVars, readVars>>

Next ==
    \/ Begin
    \/ (ObjectStep \/ Tick \/ ReadDatabase \/ SyncIndexer \/ RecordRun \/ RunFails) /\ Watch

Spec == Init /\ [][Next]_vars

----------------------------------------------------------------------------
(***************************************************************************)
(* Properties.                                                             *)
(***************************************************************************)

\* A report calls an object orphaned or missing only if at some one moment of the
\* run it was, though the rows and the indexer are read at different moments while
\* objects move between them; and one that was so from its begin to its end is in
\* the report (reconcileOnce, "the database first ... pending before artifacts").
ReportIsRight ==
    pc = "done" => \A k \in DOMAIN report : report[k] \subseteq ever[k] /\ always[k] \subseteq report[k]
=============================================================================
