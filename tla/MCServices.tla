----------------------------- MODULE MCServices -----------------------------
(***************************************************************************)
(* Small instances of the parts whose properties are safety properties,    *)
(* side by side: a behaviour is one of the part that the variable part     *)
(* names from its start. The parts share the variables v1, v2, ..., which  *)
(* stand for the variables of the part in the order of its declaration;    *)
(* only Members has its own. What a part does not use stays None.          *)
(***************************************************************************)
EXTENDS Members, Naturals, Sequences, TLC

CONSTANTS
    Session, MaxUses, MaxPasswords, MaxRemovals,
    Delivery, Event, Attempts, MaxOpen, MaxRotations, MaxFaults,
    StateTTL, OwnerTTL, UnclaimedTTL, QueryTime, MaxTime, MaxVersions,
    MaxRetries

VARIABLES
    part,
    v1, v2, v3, v4, v5, v6, v7, v8, v9, v10, v11, v12, v13, v14, v15, v16, v17, v18,
    v19, v20, v21

S == INSTANCE SignIn WITH
        Request <- User, password <- v1, removed <- v2, live <- v3, used <- v4,
        resetUsed <- v5, invite <- v6, req <- v7, by <- v8, since <- v9,
        late <- v10, unended <- v11, removals <- v12, resets <- v13,
        joins <- v14
W == INSTANCE WebhookDelivery WITH
        Execution <- User, endpoint <- v1, secret <- v2, dispatch <- v3,
        resend <- v4, job <- v5, made <- v6, stalls <- v7, holder <- v8,
        doing <- v9, log <- v10, acks <- v11, unlogged <- v12, unread <- v13,
        faults <- v14
A == INSTANCE AccessCache WITH
        Request <- User, now <- v1, versions <- v2, claimedAt <- v3, dropping <- v4,
        owners <- v5, state <- v6, pc <- v7, began <- v8, result <- v9,
        dropped <- v10, verdict <- v11
C == INSTANCE StudioUploads WITH
        Upload <- User, SameFile <- User, TooLarge <- {}, card <- v1, task <- v2,
        waiting <- v3, held <- v4, online <- v5, overLimit <- v6, elsewhere <- v7
D == INSTANCE AssetStorage WITH
        Exec <- User, Batches <- 1, Attempts <- 1, Faults <- FALSE,
        StaleRuns <- FALSE, status <- v1, artifacts <- v2, pending <- v3,
        pinned <- v4, early <- v5, run <- v6, waiting <- v7, handOff <- v8,
        handed <- v9, phase <- v10, runOf <- v11, stalled <- v12, batch <- v13,
        try <- v14, recorded <- v15, kept <- v16, call <- v17, todo <- v18,
        current <- v19, finalizing <- v20, deletion <- v21
F == INSTANCE ReconcileFeed WITH
        Object <- {1}, Run <- User, Feed <- {"f1", "f2"}, PageSize <- 1, Fine <- 1,
        Grace <- 1, CommitDelay <- 0, MaxTime <- 1, Overlap <- TRUE, now <- v1,
        event <- v2, open <- v3, feed <- v4, copy <- v5, source <- v6, saved <- v7,
        phase <- v8, runFeed <- v9, settled <- v10, cursor <- v11, held <- v12,
        page <- v13, fetched <- v14, since <- v15
Q == INSTANCE ReconcileFeed WITH
        Object <- {1, 2}, Run <- {"run"}, Feed <- {"f1"}, PageSize <- 1, Fine <- 2,
        Grace <- 1, CommitDelay <- 0, MaxTime <- 5, Overlap <- FALSE, now <- v1,
        event <- v2, open <- v3, feed <- v4, copy <- v5, source <- v6, saved <- v7,
        phase <- v8, runFeed <- v9, settled <- v10, cursor <- v11, held <- v12,
        page <- v13, fetched <- v14, since <- v15
L == INSTANCE ReconcileFeed WITH
        Object <- {1, 2}, Run <- {"run"}, Feed <- {"f1"}, PageSize <- 1, Fine <- 1,
        Grace <- 2, CommitDelay <- 1, MaxTime <- 3, Overlap <- FALSE, now <- v1,
        event <- v2, open <- v3, feed <- v4, copy <- v5, source <- v6, saved <- v7,
        phase <- v8, runFeed <- v9, settled <- v10, cursor <- v11, held <- v12,
        page <- v13, fetched <- v14, since <- v15
H == INSTANCE HybridLoader WITH
        Loader <- User, Segment <- Provider, MaxFailures <- 2, session <- v1,
        warm <- v2, siaBusy <- v3, failures <- v4, paused <- v5, load <- v6,
        object <- v7, read <- v8, answers <- v9
R == INSTANCE Reconcile WITH
        Object <- {"object"}, Grace <- 2, CommitDelay <- 1, MaxTime <- 4, now <- v1,
        upload <- v2, pending <- v3, updated <- v4, tracked <- v5, unpinned <- v6,
        state <- v7, event <- v8, pc <- v9, started <- v10, owned <- v11, db <- v12,
        copy <- v13, unread <- v14, report <- v15, ever <- v16, always <- v17
K == INSTANCE ShareLinks WITH
        Request <- User, Grid <- 3, MinLeft <- 1, MinAsk <- 1, DefaultAsk <- 2,
        Cap <- 5, GatedCap <- 4, SignedCap <- 4, Wanted <- {0, 1, 4}, MaxTime <- 2,
        now <- v1, pc <- v2, gated <- v3, signedTo <- v4, lifetime <- v5,
        limit <- v6, looked <- v7, slot <- v8, kept <- v9, minting <- v10,
        minted <- v11, again <- v12
X == INSTANCE Shutdown WITH
        Request <- User, Job <- {"job"}, phase <- v1, crashed <- v2, exit <- v3,
        httpDone <- v4, jobsDone <- v5, handler <- v6, conn <- v7, job <- v8,
        counted <- v9, unheard <- v10, pending <- v11, writing <- v12, last <- v13,
        told <- v14
N == INSTANCE SiaSession WITH
        Attempt <- User, Resolve <- User, Object <- Provider, Fetch <- {"fetch"},
        MaxCached <- 1, MaxDisposed <- 1, generation <- v1, promise <- v2,
        sdk <- v3, conn <- v4, born <- v5, map <- v6, fetch <- v7, asked <- v8,
        cached <- v9, at <- v10, object <- v11, on <- v12, using <- v13,
        forced <- v14, handle <- v15, dropped <- v16

ASSUME PartsAssumption ==
    /\ S!SignInAssumption /\ K!ShareAssumption /\ N!SessionAssumption
    /\ H!LoaderAssumption /\ A!CacheAssumption /\ W!WebhookAssumption
    /\ R!ReconcileAssumption
    /\ F!FeedAssumption /\ Q!FeedAssumption /\ L!FeedAssumption
    /\ MaxRetries \in Nat /\ User \cap {"finalize", "gc", "delete"} = {}

\* The variables after the first so many: unused, and how they stay so.
Rest17 == <<v18, v19, v20, v21>>
Rest16 == <<v17, Rest17>>
Rest15 == <<v16, Rest16>>
Rest14 == <<v15, Rest15>>
Rest12 == <<v13, v14, Rest14>>
Rest11 == <<v12, Rest12>>
Rest9 == <<v10, v11, Rest11>>
Rest7 == <<v8, v9, Rest9>>
Rest0 == <<v1, v2, v3, v4, v5, v6, v7, Rest7>>

Unused17 ==
    /\ v18 = None /\ v19 = None /\ v20 = None /\ v21 = None
Unused16 ==
    /\ v17 = None /\ Unused17
Unused15 ==
    /\ v16 = None /\ Unused16
Unused14 ==
    /\ v15 = None /\ Unused15
Unused12 ==
    /\ v13 = None /\ v14 = None /\ Unused14
Unused11 ==
    /\ v12 = None /\ Unused12
Unused9 ==
    /\ v10 = None /\ v11 = None /\ Unused11
Unused7 ==
    /\ v8 = None /\ v9 = None /\ Unused9
Unused0 ==
    /\ v1 = None /\ v2 = None /\ v3 = None /\ v4 = None /\ v5 = None /\ v6 = None
    /\ v7 = None /\ Unused7

\* Members does not move.
NoMembers ==
    /\ role = [u \in User |-> "none"] /\ removed = {} /\ ways = [u \in User |-> {}]
    /\ tx = [t \in Tx |-> Idle] /\ overtaken = {}

AllInit ==
    \/ part = "members" /\ Init /\ Unused0
    \/ /\ NoMembers
       /\ \/ part = "signIn" /\ S!Init /\ Unused14
          \/ part = "webhook" /\ W!Init /\ Unused14
          \/ part = "cache" /\ A!Init /\ Unused11
          \/ part = "studio" /\ C!Init /\ Unused7
          \/ part = "storage" /\ D!Init
          \/ part = "feed" /\ F!Init /\ Unused15
          \/ part = "sync" /\ Q!Init /\ Unused15
          \/ part = "late" /\ L!Init /\ Unused15
          \/ part = "loader" /\ H!Init /\ Unused9
          \/ part = "reconcile" /\ R!Init /\ Unused17
          \/ part = "share" /\ K!Init /\ Unused12
          \/ part = "shutdown" /\ X!Init /\ Unused14
          \/ part = "viewer" /\ N!Init /\ Unused16

AllNext ==
    /\ UNCHANGED part
    /\ \/ part = "members" /\ Next /\ UNCHANGED Rest0
       \/ part = "signIn" /\ S!Next /\ UNCHANGED <<vars, Rest14>>
       \/ part = "webhook" /\ W!Next /\ UNCHANGED <<vars, Rest14>>
       \/ part = "cache" /\ A!Next /\ UNCHANGED <<vars, Rest11>>
       \/ part = "studio" /\ C!Next /\ UNCHANGED <<vars, Rest7>>
       \/ part = "storage" /\ D!Next /\ UNCHANGED vars
       \/ part = "feed" /\ F!Next /\ UNCHANGED <<vars, Rest15>>
       \/ part = "sync" /\ Q!Next /\ UNCHANGED <<vars, Rest15>>
       \/ part = "late" /\ L!Next /\ UNCHANGED <<vars, Rest15>>
       \/ part = "loader" /\ H!Next /\ UNCHANGED <<vars, Rest9>>
       \/ part = "reconcile" /\ R!Next /\ UNCHANGED <<vars, Rest17>>
       \/ part = "share" /\ K!Next /\ UNCHANGED <<vars, Rest12>>
       \/ part = "shutdown" /\ X!Next /\ UNCHANGED <<vars, Rest14>>
       \/ part = "viewer" /\ N!Next /\ UNCHANGED <<vars, Rest16>>

AllSpec == AllInit /\ [][AllNext]_<<part, vars, Rest0>>

\* All sets of two are the same in the configuration, so that one permutation
\* serves every part.
Symmetry == Permutations(User)

\* The properties of the parts, under their names; those of Members are its own.
\* Every variable of a part keeps its type.
AllTypeOK ==
    CASE part = "members" -> TypeOK
      [] part = "signIn" -> S!TypeOK
      [] part = "webhook" -> W!TypeOK
      [] part = "cache" -> A!TypeOK
      [] part = "studio" -> C!TypeOK
      [] part = "storage" -> D!TypeOK
      [] part = "feed" -> F!TypeOK
      [] part = "sync" -> Q!TypeOK
      [] part = "late" -> L!TypeOK
      [] part = "loader" -> H!TypeOK
      [] part = "reconcile" -> R!TypeOK
      [] part = "share" -> K!TypeOK
      [] part = "shutdown" -> X!TypeOK
      [] part = "viewer" -> N!TypeOK

\* No session outlives a removal or a reset; one outlives a change of the password only
\* while, or because, its request did not come to end it.
SessionsEnd == part = "signIn" => S!SessionsEnd

\* No link is used more often than it allows, and every use is counted.
LinksAreCounted == part = "signIn" => S!LinksAreCounted

\* The queue never waits for nothing.
QueueIsServed == part = "studio" => C!QueueIsServed

\* A sync stalls only where one millisecond fills a page.
StallNeedsAPage == part = "sync" => Q!StallNeedsAPage

\* A segment has one source at a time and one answer.
SegmentsComeOnce == part = "loader" => H!SegmentsComeOnce

\* Nothing in WebAssembly memory is leaked or used after it was freed.
NothingLeaks == part = "viewer" => N!NothingLeaks

\* An acknowledged delivery is repeated only after a stall, and the log of a delivery is
\* the truth about its tries, those left out whose endpoint could not be read.
DeliveriesAreTold == part = "webhook" => W!RepeatNeedsAStall /\ W!LogTellsAll

\* No decision is older than a ttl and a query, and a finalized object is known within
\* as much.
CacheIsFresh == part = "cache" => A!DecidesFresh /\ A!ClaimIsSeen

\* At most one upload of a tab transfers, and a card that shows processing is polled, or
\* says why not; each but for what a cancel leaves that came too late.
CardsAreTrue == part = "studio" => C!OneTransfer /\ C!ProcessingIsFollowed

\* A share map ends in time and lasts as long as it may; its expiry lies on the grid,
\* and each is minted once.
SharesLast == part = "share" => K!SharesLast

\* A clean exit loses no play, and what still runs finds the queues and the database
\* open.
ShutdownDrains == part = "shutdown" => X!PlaysAreTold /\ X!WorkFindsItOpen

\* A sync that went through has missed nothing.
SyncIsComplete ==
    /\ part = "sync" => Q!SyncIsComplete
    /\ part = "late" => L!SyncIsComplete

\* The saved cursor has passed nothing that is not in the copy.
SavedIsRead ==
    /\ part = "sync" => Q!SavedIsRead
    /\ part = "late" => L!SavedIsRead

\* The copy is never a mixture of two indexers, and a report calls only that drift
\* which is.
InventoryIsRight ==
    /\ part = "feed" => F!FromOneFeed
    /\ part = "reconcile" => R!ReportIsRight

\* With two executions of the upload, the objects of a ready asset stay pinned, and a
\* row leads to every pinned object.
ObjectsAreKept == part = "storage" => D!ReadyIsPinned /\ D!PinnedIsAccounted
=============================================================================
