--------------------------- MODULE ReconcileFeed ---------------------------
(***************************************************************************)
(* How reconciliation keeps a copy of the indexer's inventory: it reads    *)
(* the indexer's feed of object events page by page from a saved cursor,   *)
(* applies each page to the copy and moves the cursor on.                  *)
(*                                                                         *)
(* The indexer keeps one event per object, the latest, ordered by (time,   *)
(* id). It stamps an event when its transaction starts, so an event can    *)
(* appear behind later ones that were already read; the cursor is held     *)
(* back for a grace time instead. The SDK passes times at millisecond      *)
(* precision, the indexer compares them at its own, so a cursor inside a   *)
(* millisecond leads back to the start of that millisecond.                *)
(***************************************************************************)
EXTENDS Integers, FiniteSets

CONSTANTS
    Object,       \* object ids; their order is the order of numbers
    Feed,         \* the indexers or accounts a backend may be configured with
    Run,          \* executions of a reconciliation
    PageSize,     \* the feed's page limit
    Fine,         \* the indexer's instants per millisecond
    Grace,        \* milliseconds before its start that a run takes as settled
    CommitDelay,  \* milliseconds within which an event's transaction commits
    MaxTime,      \* bound: the last instant of the clock
    Overlap       \* whether a run may start before another is over

\* What the constants must be: a commit takes less than the grace time.
FeedAssumption ==
    /\ Object \subseteq Nat /\ IsFiniteSet(Object)
    /\ PageSize \in Nat \ {0}
    /\ Fine \in Nat \ {0}
    /\ Grace \in Nat
    /\ CommitDelay \in Nat /\ CommitDelay < Grace
    /\ MaxTime \in Nat
    /\ Overlap \in BOOLEAN

VARIABLES
    \* the indexers
    now,
    event,      \* per feed and object: its latest committed event
    open,       \* per feed and object: the event of an uncommitted transaction
    \* the database
    feed,       \* the feed the copy is of
    copy,       \* per object: the event the copy has
    source,     \* history: the feed each row of the copy was read from
    saved,      \* the saved cursor
    \* the runs
    phase,
    runFeed,    \* the feed the run's backend is configured with
    settled,    \* the end of the settled time, in milliseconds
    cursor,     \* where the run reads on
    held,       \* the cursor the run saved last
    page,       \* the page it fetched: the objects of its events
    fetched,    \* their events at that time
    since       \* history: the objects that changed since the run began

indexerVars == <<now, event, open>>
dbVars == <<feed, copy, source, saved>>
runVars == <<phase, runFeed, settled, cursor, held, page, fetched, since>>
vars == <<indexerVars, dbVars, runVars>>

Phases == {"idle", "fetch", "apply", "prune", "synced", "stalled"}

\* The millisecond of an instant.
Ms(at) == at \div Fine

\* An object without an event counts as deleted long ago.
NoEvent == [at |-> -1, deleted |-> TRUE]
Instants == 0 .. MaxTime
Events == {NoEvent} \cup [at : Instants, deleted : BOOLEAN]

\* A cursor is a place in the feed; the start precedes every event.
Start == [after |-> -1, id |-> 0]
Cursors == {Start} \cup [after : 0 .. Ms(MaxTime), id : Object]

TypeOK ==
    /\ now \in Instants
    /\ event \in [Feed -> [Object -> Events]]
    /\ open \in [Feed -> [Object -> Events]]
    /\ feed \in Feed
    /\ copy \in [Object -> Events]
    /\ source \in [Object -> Feed]
    /\ saved \in Cursors
    /\ phase \in [Run -> Phases]
    /\ runFeed \in [Run -> Feed]
    /\ settled \in [Run -> -Grace .. MaxTime]
    /\ cursor \in [Run -> Cursors]
    /\ held \in [Run -> Cursors]
    /\ page \in [Run -> SUBSET Object]
    /\ fetched \in [Run -> [Object -> Events]]
    /\ since \in [Run -> SUBSET Object]

Init ==
    /\ now = 0
    /\ event = [f \in Feed |-> [o \in Object |-> NoEvent]]
    /\ open = [f \in Feed |-> [o \in Object |-> NoEvent]]
    /\ feed \in Feed
    /\ copy = [o \in Object |-> NoEvent]
    /\ source = [o \in Object |-> feed]
    /\ saved = Start
    /\ phase = [r \in Run |-> "idle"]
    /\ runFeed = [r \in Run |-> feed]
    /\ settled = [r \in Run |-> -Grace]
    /\ cursor = [r \in Run |-> Start]
    /\ held = [r \in Run |-> Start]
    /\ page = [r \in Run |-> {}]
    /\ fetched = [r \in Run |-> [o \in Object |-> NoEvent]]
    /\ since = [r \in Run |-> {}]

----------------------------------------------------------------------------
(***************************************************************************)
(* Mutants: slips of the code that the properties must notice. No action   *)
(* of the specification uses them.                                         *)
(***************************************************************************)

\* A cursor that is not held back.
AlwaysSettled(r, o) == TRUE

\* Places compared by id alone.
AfterById(a, b) == a.id > b.id

\* A prune of every old row, pinned objects included.
ForgetsAll(r, o) == copy[o].at < settled[r]

----------------------------------------------------------------------------
(***************************************************************************)
(* The indexer.                                                            *)
(***************************************************************************)

\* Time passes, while every open transaction still has time to commit.
Tick ==
    /\ now < MaxTime
    /\ \A f \in Feed, o \in Object :
        open[f][o] # NoEvent => Ms(now + 1) - Ms(open[f][o].at) <= CommitDelay
    /\ now' = now + 1
    /\ UNCHANGED <<event, open, dbVars, runVars>>

\* An object is pinned, or a pinned one unpinned.
StartChange(f, o) ==
    /\ open[f][o] = NoEvent
    /\ event[f][o].at < now
    /\ open' = [open EXCEPT ![f][o] = [at |-> now, deleted |-> ~event[f][o].deleted]]
    /\ UNCHANGED <<now, event, dbVars, runVars>>

CommitChange(f, o) ==
    /\ open[f][o] # NoEvent
    /\ event' = [event EXCEPT ![f][o] = open[f][o]]
    /\ open' = [open EXCEPT ![f][o] = NoEvent]
    /\ since' = [r \in Run |->
                IF phase[r] # "idle" /\ runFeed[r] = f THEN since[r] \cup {o} ELSE since[r]]
    /\ UNCHANGED <<now, dbVars, phase, runFeed, settled, cursor, held, page, fetched>>

\* The indexer's order, at its own precision.
Precedes(e, o, d, p) == e.at < d.at \/ (e.at = d.at /\ o <= p)

\* The event of o lies past the cursor, as the indexer compares them.
Past(e, o, c) ==
    \/ e.at > c.after * Fine
    \/ e.at = c.after * Fine /\ o > c.id

Ahead(ev, c) == {o \in Object : ev[o] # NoEvent /\ Past(ev[o], o, c)}

\* The first events past the cursor, a page of them.
PageFrom(ev, c) ==
    {o \in Ahead(ev, c) :
        Cardinality({p \in Ahead(ev, c) : Precedes(ev[p], p, ev[o], o)}) <= PageSize}

----------------------------------------------------------------------------
(***************************************************************************)
(* A sync (syncObjectFeed over indexerFeedStore).                          *)
(***************************************************************************)
\* begin: the copy of another feed is dropped.
Begin(r, f) ==
    /\ phase[r] = "idle"
    /\ Overlap \/ \A s \in Run : phase[s] = "idle"
    /\ feed' = f
    /\ IF f = feed
       THEN UNCHANGED <<copy, source, saved>>
       ELSE /\ copy' = [o \in Object |-> NoEvent]
            /\ source' = [o \in Object |-> f]
            /\ saved' = Start
    /\ phase' = [phase EXCEPT ![r] = "fetch"]
    /\ runFeed' = [runFeed EXCEPT ![r] = f]
    /\ settled' = [settled EXCEPT ![r] = Ms(now) - Grace]
    /\ cursor' = [cursor EXCEPT ![r] = saved']
    /\ held' = [held EXCEPT ![r] = saved']
    /\ since' = [since EXCEPT ![r] = {}]
    /\ UNCHANGED <<indexerVars, page, fetched>>

\* fetchPage.
Fetch(r) ==
    /\ phase[r] = "fetch"
    /\ page' = [page EXCEPT ![r] = PageFrom(event[runFeed[r]], cursor[r])]
    /\ fetched' = [fetched EXCEPT ![r] =
                    [o \in Object |-> IF o \in page'[r] THEN event[runFeed[r]][o] ELSE NoEvent]]
    /\ phase' = [phase EXCEPT ![r] = "apply"]
    /\ UNCHANGED <<indexerVars, dbVars, runFeed, settled, cursor, held, since>>

\* isAfter, at the precision the SDK passes.
IsAfter(a, b) == a.after > b.after \/ (a.after = b.after /\ a.id > b.id)

Place(r, o) == [after |-> Ms(fetched[r][o].at), id |-> o]

IsSettled(r, o) == Ms(fetched[r][o].at) <= settled[r]

\* The latest settled event of the page, or the cursor saved before it.
NewHeld(r) ==
    LET places == {held[r]} \cup {Place(r, o) : o \in {p \in page[r] : IsSettled(r, p)}} IN
    CHOOSE c \in places : \A d \in places : ~IsAfter(d, c)

\* The place of the page's last event.
LastPlace(r) ==
    Place(r, CHOOSE o \in page[r] :
                \A p \in page[r] : Precedes(fetched[r][p], p, fetched[r][o], o))

\* The copy is still of the feed the run reads.
SameFeed(r) == feed = runFeed[r]

\* applyPage's row for an object: an older event never replaces a newer one.
NewRow(r, o) ==
    LET row == [at |-> Ms(fetched[r][o].at), deleted |-> fetched[r][o].deleted] IN
    IF o \in page[r] /\ copy[o].at <= row.at THEN row ELSE copy[o]

\* The page is done with.
DropPage(r) ==
    /\ page' = [page EXCEPT ![r] = {}]
    /\ fetched' = [fetched EXCEPT ![r] = [o \in Object |-> NoEvent]]

\* applyPage, and the way on: a short page is the end of the feed, and a full
\* one that did not advance makes the run fail.
Apply(r) ==
    /\ phase[r] = "apply"
    /\ SameFeed(r)
    /\ copy' = [o \in Object |-> NewRow(r, o)]
    /\ source' = [o \in Object |-> IF o \in page[r] THEN runFeed[r] ELSE source[o]]
    /\ saved' = NewHeld(r)
    /\ held' = [held EXCEPT ![r] = NewHeld(r)]
    /\ \/ /\ Cardinality(page[r]) < PageSize
          /\ phase' = [phase EXCEPT ![r] = "prune"]
          /\ DropPage(r)
          /\ UNCHANGED cursor
       \/ /\ Cardinality(page[r]) = PageSize
          /\ IsAfter(LastPlace(r), cursor[r])
          /\ phase' = [phase EXCEPT ![r] = "fetch"]
          /\ DropPage(r)
          /\ cursor' = [cursor EXCEPT ![r] = LastPlace(r)]
       \/ /\ Cardinality(page[r]) = PageSize
          /\ ~IsAfter(LastPlace(r), cursor[r])
          /\ phase' = [phase EXCEPT ![r] = "stalled"]
          /\ UNCHANGED <<cursor, page, fetched>>
    /\ UNCHANGED <<indexerVars, feed, runFeed, settled, since>>

\* The run is over, and its local state with it.
Leave(r) ==
    /\ phase' = [phase EXCEPT ![r] = "idle"]
    /\ settled' = [settled EXCEPT ![r] = -Grace]
    /\ cursor' = [cursor EXCEPT ![r] = Start]
    /\ held' = [held EXCEPT ![r] = Start]
    /\ DropPage(r)
    /\ since' = [since EXCEPT ![r] = {}]
    /\ UNCHANGED runFeed

\* The copy was started over for another feed meanwhile: the run throws.
ApplyRefused(r) ==
    /\ phase[r] = "apply"
    /\ ~SameFeed(r)
    /\ Leave(r)
    /\ UNCHANGED <<indexerVars, dbVars>>

\* The rows pruneDeleted drops.
Forgotten(r, o) == copy[o].deleted /\ copy[o].at < settled[r]

\* pruneDeleted, and the sync is over.
Prune(r) ==
    /\ phase[r] = "prune"
    /\ copy' = [o \in Object |-> IF Forgotten(r, o) THEN NoEvent ELSE copy[o]]
    /\ phase' = [phase EXCEPT ![r] = "synced"]
    /\ UNCHANGED <<indexerVars, feed, source, saved, runFeed, settled, cursor, held, page,
                   fetched, since>>

\* The run goes on to its report, or a call of it fails or its process dies.
EndRun(r) ==
    /\ phase[r] # "idle"
    /\ Leave(r)
    /\ UNCHANGED <<indexerVars, dbVars>>

----------------------------------------------------------------------------
RunStep(r) ==
    \/ \E f \in Feed : Begin(r, f)
    \/ Fetch(r) \/ Apply(r) \/ ApplyRefused(r) \/ Prune(r) \/ EndRun(r)

Next ==
    \/ Tick
    \/ \E f \in Feed, o \in Object : StartChange(f, o) \/ CommitChange(f, o)
    \/ \E r \in Run : RunStep(r)

Spec == Init /\ [][Next]_vars

----------------------------------------------------------------------------
(***************************************************************************)
(* Properties.                                                             *)
(***************************************************************************)

\* The copy shows the latest event of o, or has forgotten a delete.
Shows(f, o) ==
    LET e == event[f][o] IN
    IF e.deleted THEN copy[o].deleted
    ELSE copy[o] = [at |-> Ms(e.at), deleted |-> FALSE]

\* A sync that went through has read every change the indexer committed before
\* it began: late commits, held cursors and pages that end inside a millisecond
\* lose none (syncObjectFeed, "re-reads recent events on the next run").
SyncIsComplete ==
    \A r \in Run : phase[r] = "synced" =>
        \A o \in Object \ since[r] : Shows(runFeed[r], o)

\* What the saved cursor has passed is in the copy, and nothing can still be
\* committed behind it: the next run may start from there.
SavedIsRead ==
    \A o \in Object :
        /\ event[feed][o] # NoEvent /\ ~Past(event[feed][o], o, saved) => Shows(feed, o)
        /\ open[feed][o] # NoEvent => Past(open[feed][o], o, saved)

\* The rows of the copy all come from one indexer and account, though backends
\* with different ones may sync at the same time (applyPage).
FromOneFeed == \A o \in Object : copy[o] # NoEvent => source[o] = feed

\* A run fails for a feed that does not advance only when one millisecond fills
\* a page.
StallNeedsAPage ==
    \A r \in Run : phase[r] = "stalled" =>
        Cardinality({o \in page[r] : Ms(fetched[r][o].at) = cursor[r].after}) >= PageSize
=============================================================================
