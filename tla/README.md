# A TLA+ model of Sluby

Sluby is a self-hosted video service that keeps its files as objects on the Sia
network, behind an indexer (indexd). Its backend is several replicas of one
Node.js program over PostgreSQL, Redis (BullMQ queues, the prune leases) and the
indexer, none of which share a transaction. The hard part of the program is
that the same object is spoken of in all three places: a row that leads to it, a
job that works on it, and the pin that keeps it. Around that part stand services
with protocols of their own: uploads, webhooks, accounts, caches, and in the
browser the player, the SDK's viewer session and the studio's upload queue.

Paths below are relative to `src/backend/src/` unless they say otherwise.

## Running it

    tlc -workers 2 -config MCSlabPruneGate_watch.cfg MCSlabPruneGate.tla
    tlapm SlabPruneGateProofs.tla
    tlapm AssetStorageProofs.tla
    tlapm PipelineProofs.tla
    tlapm ReconcileFeedProofs.tla
    tlapm BackendProofs.tla
    tlapm BrowserProofs.tla
    tlapm LiveServicesProofs.tla
    tlapm ServicesProofs.tla

Every `MC<module>_<run>.cfg` is one run of the module `MC<module>`; PROJECT.json
lists what each expects. The passing runs take between some seconds and about
four minutes on two workers, the longest of the proofs (ServicesProofs) about ten.

## Inventory

| Component | State | Operations | What is hard |
|---|---|---|---|
| slab prune gate (`storage/slab-prune-gate.ts`, `prune-leases.ts`) | Redis: upload leases, prune lock, prune count, wanted mark; per process: uploads in flight, the running attempt, a watch timer | begin, confirm, renew, end an upload; request a prune; the watch's tick | leases and lock expire under their holders; a prune on another replica between an upload's slabs and its pin; deferral and its watcher's death |
| sia client, segment uploader (`storage/sia-client.ts`, `segment-uploader.ts`) | slabs and objects at the indexer | packed upload in dependent batches, unpin, prune | partial failure, lost replies, retries of a batch |
| object ledger (`storage/object-ledger.ts`, `artifact-records.ts`, `db/queries/storage-records.ts`) | `artifacts`, `pending_objects` | record before pin, promote, mark, list, unpin, forget | rows and pins disagree between two calls |
| pipeline (`queue/pipeline.ts`, `retry.ts`, `bull-config.ts`) | three queues, run ids, an upload lease per asset | transcode, upload, finalize, give up, retry | at-least-once jobs, stalled jobs given out twice, hand-offs |
| asset lifecycle (`db/queries/assets.ts`, `jobs.ts`) | `video_assets.status`, `deleted_at` | fail, finalize, soft delete, claim a retry | a late failure or a late success over a newer state |
| deletion (`deletion/`) | the deletion queue | delete, sweep of leftovers, redrive | crash between unpin and record, one object failing |
| reconciliation (`reconcile/`, `db/queries/reconciliation.ts`) | a copy of the indexer's inventory, its feed's cursor, reports | sync the feed, read the database, diff, report | events that commit late, a cursor cut to milliseconds, overlapping runs |
| output directories (`queue/output-dirs.ts`, `upload/source-files.ts`) | files of runs | sweep, drop | a retry between the look and the removal |
| upload sessions (`upload/`, `db/queries/uploads.ts`) | sessions, partial files | create, append, complete, cancel, expire | completion against cancel or expiry |
| webhooks (`webhooks/`, `db/queries/webhooks.ts`) | endpoints, deliveries | dispatch, deliver, retry, redeliver | at-least-once delivery, a lost job |
| access control (`delivery/access-control.ts`) | two caches per process, queries under way | decide, drop, change here and elsewhere | a query under way that puts an old value back |
| delivery gateway (`delivery/aggregator.ts`, `storage/blob-manager.ts`) | small objects in memory, downloads under way, open responses | whole, ranged and HEAD answers, evict | byte arithmetic at the edges, streams that end early or late, clients that go away |
| share links (`delivery/share-*.ts`, `signed-url.ts`) | maps kept and being minted | bound, round, mint | rounding against the limits, one mint per slot |
| shutdown, plays (`shutdown.ts`, `delivery/plays.ts`) | the process's sockets, workers, queues, buffered plays | drain, close, flush, give up | work that goes on while something closes |
| accounts, members, invites (`db/queries/`, `api/routes/auth.ts`) | rows of PostgreSQL | sign in, reset, accept, demote, remove, unlink | the last administrator, a link used twice, a session that outlives its password |
| player (`src/packages/player/`) | warm objects, one slot for Sia, a failure count | load, cut off, fall back, warm up, abort, destroy | late steps of reads that were given up |
| SDK (`src/packages/sdk/`) | one connection, a share map, resolved objects in WebAssembly memory | connect, resolve, evict, renew, dispose | dispose between a promise and its answer |
| studio (`src/frontend/`) | the browser's upload queue | add, pause, resume | navigation and lost tabs |

What makes each correct, in one line: no pinned object over pruned slabs, and
garbage is pruned in the end (gate); a ready asset's objects are pinned, every
pinned object has a row that leads to it, a deleted asset is freed (ledger,
pipeline, deletion); the copy shows the indexer's state as of the sync, and a
report never calls an object drift that is only moving (reconciliation); a
session ends in one of completed, cancelled, expired and its files go
(sessions); a delivery is attempted until it succeeds or gives up, and not again
(webhooks); no decision is older than a ttl and a query (access control); a
response that ends is exactly the bytes asked for (gateway); a share map never
outlives its limit (share links); a clean exit loses no play (shutdown); an
administrator remains, and a new password ends the old sessions (accounts); one
source and one answer for each segment (player); what is allocated is freed
(SDK); a queue that may go on does (studio).

Components interact this way: a tus upload creates an asset and its transcode
job; the pipeline's upload stage calls the segment uploader, which asks the prune
gate around each packed upload and the ledger before each pin; finalize promotes
the ledger's rows and sends webhooks; deletion, the sweep and failed uploads
unpin through the ledger's calls and ask the gate for a prune; reconciliation
only reads, and compares the ledger with the indexer's feed.

## Modules

### SlabPruneGate, SlabStore

`SlabPruneGate` is the protocol between uploads and prunes over every replica.
Each Lua script of `prune-leases.ts` is atomic, and what the process does with
the reply is visible to itself only, so a script and the handling of its reply
are one action:

| Code | Here |
|---|---|
| `CLAIM_UPLOAD`, `beginUpload` | `ClaimUpload`; a claim that has to wait is not enabled |
| `RENEW_UPLOAD`, `renewUploads`, `confirmUpload` | `RenewOutcome`, `RenewUpload`, `ConfirmUpload`, `RefuseUpload` |
| `packedUpload` | `StoreSlabs`, then `PinObject` or `FailUpload` |
| `endUpload`, `afterUpload`, `RELEASE_UPLOAD` | `ReleaseUpload`, `ReleaseLost` |
| `request`, `run`, `attempt`, `CLAIM_PRUNE` | `forced`, `ifWanted`, `PruneIdle`, `PruneDeferred`, `PruneLocked`, `FailClaim` |
| `pruneSlabs` at the indexer | `ListSlabs`, `StripSlabs`, `FailPrune` |
| `RELEASE_PRUNE` | `ReleasePrune` |
| `watchWanted`, `checkWanted` | `watch`, `WatchTick` |
| expiry of a lease, of the lock; death of a process | `ExpireLease`, `ExpireLock`, `Crash`, ... |

Time is not counted. A lease may expire whenever its upload is not between the
check and the pin, and there too when `PinStalls`; the lock expires under its
holder only when `LockLapses`. The renewal of the lock (`RENEW_PRUNE`) is what
makes `LockLapses = FALSE` the normal case, and has no step of its own. `faults` counts
crashes, failing prunes and failing claims, up to `MaxFaults`. A prune
whose claim answers "busy" asks again: a stutter. A prune that fails loses its
wanted mark and a claim that Redis fails loses its request, as in the code.

`SlabStore` is what the gate promises of one upload's slabs: absent, stored,
then pinned or stripped, and never pinned and stripped. `ImplementsSlabStore`
is the refinement.

Not modelled: an upload whose promise was abandoned and stores slabs later, and
a prune at the indexer that outlives the process that asked for it.

### AssetStorage

The objects of one asset, from the end of its transcode to its removal. The
database, the queue and the indexer are separate, so every call is an action, and
with `Faults` any of them fails or loses its answer. `phase` is an execution of
the upload stage (`uploadStage`, `uploadSegments`); several run at once when
BullMQ takes one for stalled (`Stall`), which goes on when it wakes. Releases
(`releaseObjects`, `unpinReleasedObjects`, `unpinAndForget`, the loop of
`runAssetDeletion`) are one machine that each actor runs: `call` is the next
call, `todo` the objects left, `current` the one unpinned and not yet forgotten.
The actors are the executions, the finalize worker, the sweep ("gc") and the
deletion ("delete"). `Finalize` is the transaction of `finalizeAssetStorage`.

A batch is one object; a batch that fails part way is covered object by object,
since an object's fate (recorded or not, pinned or not, answer lost) does not
depend on the others of its batch. Two batches stand for three. A failed asset's
retry and its job are one step. The retention of finished jobs is not modelled:
a run's finalize id is taken for ever. The upload lease is represented by
executions that may stall at any time; its timing is left to the plan. `early` is a history variable: the objects that a release unpinned, as not
found, between their record and their pin. `StaleRuns` says whether the queue may
fail a run for good while an execution of it still does something.

### ReconcileFeed

`syncObjectFeed` over `indexerFeedStore`. The indexer keeps the latest event of
each object, ordered by its own instant and id; `Fine` instants make one
millisecond, and cursors are cut to it. A transaction stamps its event when it
starts and commits within `CommitDelay`, which the assumption takes to be less
than the grace time, as the code does. `Begin`, `Fetch`, `Apply` and `Prune` are the
awaits of a run; `EndRun` is its end, its failure or its death. An object has at
most one open transaction, two changes of one object are at different instants,
and transactions that abort are left out. `source` and `since` are history
variables.

`StallNeedsAPage` also shows a detail of the comment over `syncObjectFeed`: it
says that more than a page of events inside one millisecond stalls the feed, but
a page of them is enough, when their instants lie inside the millisecond.

### Pipeline

One video's way through the three queues, from its finished upload to its
deletion: `status` is the row, `job`, `upload` and `finalize` the jobs of each
run (the first and the retries), `writing` and `finished` the run directories
without and with their marker, `source` the uploaded file. AssetStorage begins
where this module's transcode ends, and looks at the upload object by object;
here an upload only reads its directory.

The transcode stage is modelled by its awaits: `Read` (the asset), `Look` (has
the upload job been queued?), `Mark` (status processing), `Find` (a finished
directory, or FFmpeg), `Probe` and `Check` (`stillProcessing`), `WriteMarker`,
`Add` and `Compare` (the hand-off), `Drop` (`dropOutput`). Several executions run
at once: BullMQ gives a job out again when its lock runs out (`Stall`) while the
first goes on, and ignores the outcome of one that no longer has the lock
(`Holds`). A job that stalled too often, or used up its tries, enters `failing`
until `RecordFailure`. `RetryCheck`, `RetryClaim` and `RetryQueue` are the steps of
`buildRetryAsset`, `RetryFails` its catch. `Fault` bounds how many calls fail, lose
their answers or die with their process; a directory or a source that is gone
makes a stage fail without one.

`lost` is a history variable. It holds the three things that can leave a run
without an end, so that the properties can name them: the write of a "failure" or
the job of a "claim" was lost with its process, or a late "mark" took an asset
that was done back to processing.

Left out: progress, the processing job's row, events, the time a job waits
before it is tried again, and finished jobs that Redis forgets (1000 later). The
upload lease is taken as given: one execution of an upload at a time. The sweep
of a deleted asset's files is one step with the deletion's own removal.

### Reconcile

What one run reads of the rows and of the indexer while objects move between
them. `Record`, `Pin`, `Finalize`, `Mark`, `Unpin` and `Forget` are the steps of uploads,
finalize, releases and deletions of one object; `Lose` is an unpin outside the
program, which is what makes an object missing. The run is `Begin` (startedAt),
`ReadPending` and `ReadTracked` (`ReadDatabase`), `SyncIndexer` for one object after
another, `DiffInventory` and `RecordRun`, or `RunFails`. The sync is reduced to what
ReconcileFeed's `SyncIsComplete` says of it: it reads the indexer's state at some
moment after the run began. `ever` and `always` are history: what was drift at some
moment of the run, and at all of them. Objects are independent, so one is
enough. Left out: the objects finalize replaces (a row of another run), and the
history of runs.

### UploadSessions

One tus upload from its creation to the end of its source file: the session's
row, its asset and the file. The creation (`CreateAsset`, `CreateSession`, `StoreFile`,
`Abandon`), the patches, the finish hook (`FinishHash` ... `FinishFail`), the cancel
through the REST api and the one through tus (`Rest...`, `Tus...`), the hourly sweep
(`Sweep...`), and the deletion each read a row and change it, or the file, some
awaits later, and are modelled await by await. The pipeline is `Transcode` and
`Retry`, its outcomes only. `slips` is a history variable: a failed call or a
restart, or a "race", an upload that completed between a cancel's or a sweep's
judgement and its end. `FinishedIsKept` needs that exception: the judgement is a
read, and nothing keeps it true. Left out: byte counts (`updateProgress`) and the
hash.

### WebhookDelivery

One endpoint and the deliveries to it. `FindEndpoints` and `AddBulk` are the
dispatcher, `ReadEndpoint`, `Post`, `Record` and `Settle` the awaits of `deliverWebhook`,
`ResendRead` and `ResendAdd` a resend from the log. `Take`, `Stall` and `Restart` are the
queue's, external: a job whose lock runs out is given out again while its first
execution goes on. The receiver answers or does not, `Post` chooses; time between
tries is left out. A read of the endpoint may fail, which ends the try before anything
was sent. `acks`, `unlogged` and `unread` are history: what the receiver acknowledged,
the deliveries with a row that was not inserted, and the tries whose endpoint was not read.

### Members

Roles, removals and ways to sign in, changed by transactions at READ COMMITTED.
A transaction's reads and its commit are separate steps; `Begin` takes the
advisory lock of `lockAdmins` or of `unlinkIdentity`'s member, and `Free` makes two
with one lock exclude each other. `Restore` and `Join` are one statement, or add what no
one has read. `Link` adds a provider to a signed-in member, or by a reset link a
password, also the first way in, to any who was not removed; it takes no lock. `Rollback`
ends any transaction without its write. `overtaken` is history: the transactions that read
a member as removed or without a way in, which a restore or a first password then changed
before they wrote; `AdminStays` excepts their end.

### SignIn

One member's password and sessions, a reset link and an invite. `Verify` and
`StartSession` are the two ends of a sign-in, with awaits between; `Change...`, `Reset...`,
`Remove...` and `Join` the requests and transactions, whose statements take effect at
commit and whose row locks (`Unlocked`) make a second claim of one link wait. A change of
the password is two statements, `ChangeSet` and `ChangeOthers`, and any request may `Fail`
between its steps. Both histories are exceptions of `SessionsEnd`: `late` holds the sessions
of sign-ins that a change overtook between their check and their insert, `unended` the
passwords whose request failed before it had ended the sessions of the one before.

### AccessCache

`delivery/access-control.ts` on a clock: `owners` and `state` are its two caches with
their times to live, and a request that misses sends a query (`Ask`), which reads
the row at one moment (`Read`) and fills the cache at another (`Store`). Changes by
this process drop the state after their commit (`DropState`, `DropOwners`), changes
elsewhere do not. Row versions are numbers.

### Delivery

The gateway's answers for one object. `ParseRange` is `parseRange`, with headers as
records; `Start` and `Sized` choose between the memory cache, a shared download
(`FetchOpens`, `FetchReads`, `FetchFails` of `getSmallObject`) and a stream; `ReadChunk`, `ReadEnd`,
`ReadFails`, `Drain` and `Close` are `streamBody` with its byte count and its waits. The
close event of Node's response is external: it is emitted once, and `heard` says
whether the handler listened then. 502 stands for 404 as well. A HEAD with a range
is answered whole, as in the code. Left out: the signing of manifests, etags and
304, content types, and two objects.

### ShareLinks

An asset's share maps on a clock in seconds. `Arrive` sets a request's bounds
(`shareExpiryBounds`), `Look` rounds the expiry (`ShareExpiry`, the arithmetic of
`shareExpirySec`) and finds, awaits or starts the map of that slot, `MintEnds` and
`MintFails` end a mint for all who wait. The constants of the code are CONSTANTS. A
signature of the old kind may be for longer than `SignedCap`, but its limit is cut at
`GatedCap` as well. Left out: the eviction of the least used of 5000 maps, after
which a slot is minted again, and the HMAC.

### Shutdown

`shutdown.ts` with the play counter and what goes on meanwhile. `phase` is what the
shutdown awaits. Requests may still come on connections that are kept alive while
it drains; a handler goes on after its client left, and `server.close` does not
wait for that one, so a play it counts late is lost: `PlaysAreTold` excepts it, the
comment in `index.ts` does not. A worker's close waits for the jobs it runs. The
pool ends after the queries it runs. `GiveUp` is the deadline, or a close that was
refused. BullMQ does not wait for its event handlers, so a failure may go
unrecorded; `RunIsDriven` of Pipeline has that case.

### HybridLoader

The loaders of one player (`packages/player`). What loaders share, as static fields
and one session, is `session`, `warm`, `siaBusy`, `failures` and `paused`; `load` is where a
segment comes from, and `read` its function that reads from Sia, which outlives the
load when that is cut off, aborted or destroyed and finds out at its next step.
`PauseEnds` stands for the clock. Bytes and statistics are left out.

### SiaSession

The viewer session (`packages/sdk`): the connection, the share map of one asset and
source, and the resolved objects. Every call is cut at its awaits (`Connect`,
`Connected`, `HasSdk`, `Fetched`, `Resolved`, `Refused`, ...), and `Dispose` or an eviction may come
between any two. `conn` and `handle` say what lives in WebAssembly memory. The time
to live of the map is `MapAges`.

### StudioUploads

The upload queue of one studio tab (`frontend/src/lib/upload-store.ts`). `card` is what
the page shows, `task` what goes on behind it. Every change ends with `emit`, which
calls `advance`; `Emit` is that call with its recursion cut by the flag, so one action
is the whole handler. Answers of the tus client, the server and the locks between
tabs come later, when the card may be gone. Other tabs are `elsewhere`: the files
they claim. Drafts and progress are left out, and `start()` (upload-store.ts:1065-1070),
which begins a file whatever the queue, the hold and the connection are: only the
tests call it, every page adds its files with `enqueue`.

### MCServices, MCLiveServices

The modules above are small, and each question about them needs a small
instance. `MCServices` puts instances side by side: the variable `part` names one from
the start and never changes, and only that part moves, so the states are a sum
and not a product. The parts share the variables `v1`, `v2`, ..., substituted for
theirs in the order of declaration; `Members` has its own and is extended. One
symmetric set of two serves every part. `MCLiveServices` does the same, with fairness
and without symmetry, for UploadSessions and WebhookDelivery, and for Delivery,
which it extends.

## Runs

| Run | Checks | Bounds |
|---|---|---|
| gate_watch | `PinnedSlabsKept`, `PruneIsAlone`, `LeaseBlockedPrunes`, `WantedIsServed`, `GarbageIsPruned`, `ImplementsSlabStore` | 2 processes, 2 uploads, 1 crash or failing prune or claim |
| gate_lapse | finds `PinnedSlabsKept` violated | no fault; the lock lapses under its prune |
| asset_faults | `ReadyIsPinned`, `PinnedIsAccounted` | 1 execution, 2 batches, 2 tries, failing calls |
| asset_freed | `ReadyIsKept`, `DeletedIsFreed`, `ReleasedIsForgotten` | 1 execution, 1 batch, 1 retry, failing calls |
| asset_orphan | finds `NoOrphan` violated | 1 execution |
| asset_stale | finds `ReadyIsPinned` violated | 1 retry, runs given up while they still work |
| feed_overlap | finds `SavedIsRead` violated | 1 object, 2 runs of one feed, pages of 2 |
| pipeline_runs | `TypeOK`, `ReadyIsFinal`, `FailedCanRetry`, `RunIsDriven`, `UploadHasOutput` | 2 executions at once, 2 tries, 1 stall, 1 retry, 1 fault; nothing after a late mark |
| live | `AllTypeOK`, `FinishedIsKept`, `GatewayIsExact`, `UploadEnds`, `SourceGoes`, `DeliveryEnds` | 1 upload with 1 fault; 2 deliveries, 2 executions, 2 tries, 1 fault; 2 requests, sizes 0, 2 and 3, of which 3 is streamed, chunks of 2 |
| services | the safety properties of the other modules, see below | see below |
| studio_queue | finds `QueueIsServed` violated | 3 uploads, one too large |
| gateway_gone | finds `GoneIsNoticed` violated | 1 request |

The parts of services, each with two of its actors:

| Part | Checks | Bounds |
|---|---|---|
| Members | `AdminStays`, `WayInStays` | 2 members, 2 providers, 2 transactions |
| SignIn | `SessionsEnd`, `LinksAreCounted` | 2 requests, 2 sessions, 2 passwords, 1 removal, an invite for 2 |
| WebhookDelivery | `DeliveriesAreTold` (`RepeatNeedsAStall`, `LogTellsAll`) | 2 deliveries, 2 tries, 1 new secret, 1 fault |
| AccessCache | `CacheIsFresh` (`DecidesFresh`, `ClaimIsSeen`) | clock to 3, ttls 1, 2 and 1, a query takes 1, 2 versions |
| StudioUploads | `CardsAreTrue` (`OneTransfer`, `ProcessingIsFollowed`), `QueueIsServed` | 2 uploads of one file, none too large |
| AssetStorage | `ObjectsAreKept` (`ReadyIsPinned`, `PinnedIsAccounted`) | 2 executions of 1 batch |
| ReconcileFeed, three instances | `InventoryIsRight` (`FromOneFeed`), `SyncIsComplete`, `SavedIsRead`, `StallNeedsAPage` | 2 runs of 2 feeds; 2 objects with 2 instants to a millisecond, clock to 5; 2 objects that commit late, clock to 3; pages of 1 |
| Reconcile | `InventoryIsRight` (`ReportIsRight`) | 1 object, grace 2, delay 1, clock to 4 |
| HybridLoader | `SegmentsComeOnce` | 2 loaders, 2 segments, 2 failures |
| SiaSession | `NothingLeaks` | 2 connects, 2 resolves, 1 request for the map, 1 cached object, 1 dispose |
| ShareLinks | `SharesLast` | 2 requests, grid 3, caps 4 and 5, clock to 2 |
| Shutdown | `ShutdownDrains` (`PlaysAreTold`, `WorkFindsItOpen`) | 2 requests, 1 job |

Why the bounds are enough. Two uploads on two processes are the smallest number
at which one upload's lease blocks the prune another asks for, and a prune's
effect on an upload needs no third. All processes are alike and so are all
uploads: `NamedSpec` starts gate_watch with a given upload at a given process, which
loses no behaviour but its renamings. One fault reaches each recovery; a second
one only repeats it. Two executions give each pair of steps of a stalled job and
its duplicate, and a retry on top needs one of them; two batches are the least
with a batch before the last and a release of more than one object; the first
batch alone is tried again. Faults and duplicates are checked in separate runs
for the size of their product. In the feed, two objects in two orders give an
event behind another already read; pages of one make every boundary between two
events a boundary of pages; two instants to a millisecond let a cursor be cut. In
the pipeline, a stall, a fault and a retry together reach every write against
every other's read: an older run's execution, duplicate and failure against the
new run. In the services, two of each actor meet in every order of their awaits,
and each bound on numbers has both its sides inside: a size below, at and above
what is kept in memory, a second execution and a last try, a lifetime below and
above the grid, a clock that passes each ttl with a query under way.

Deadlock checking is off: every one of these systems may come to rest with all
work done or all processes dead.

### Fairness

`SlabPruneGate!FairSpec`: an upload that runs ends one way or another (its stall
timer cancels it at the latest) and is released; a process that lives runs its
prune and fires its timer; leases nobody renews and locks nobody releases
expire; and a waiting prune that can be attempted again and again (its process
polls, and Redis answers in between) is attempted. No fairness is assumed of a
new upload or of a crash. `AssetStorage!FairSpec`: workers and releases take their
steps; the sweep and the deletion, which the schedule and the GC's redrive repeat
without end, get through when the indexer and the database answer again and
again. No fairness of failures, stalls, retries or deletions. `UploadSessions!Fairness`:
the day of an upload ends; handlers, the finish hook and the sweep that began take
their steps; a connection ends; the timer starts the sweep again and again; jobs
run. `WebhookDelivery!Fairness`: dispatches, resends and executions go on; a waiting job
is taken by some execution; the lock of a dead execution runs out. No fairness of
pausing, deleting, failing or stalling there. All other modules have safety
properties only; in Pipeline, that a run ends shows as `RunIsDriven`, that somebody
is there to end it.

## What the runs found

* gate_lapse: the comment over `uploadAndPinPacked` says that an upload a prune may
  have run under fails before its pin. When the lock expires under a running
  prune, an upload that claims afterwards has a lease and the count that prune
  already raised, so its check passes.
* asset_orphan: the comment over `recordUploadingObjects` says that no pinned
  object is ever left without a row. A deletion that unpins an object between its
  record and its pin gets "not found", drops the row, and the pin comes after.
* asset_stale: the comment over `releaseAbandonedObjects` says that no run can
  promote the objects it marks. A run that was given up while its execution still
  hands off is finalized after the user retried the asset, over objects the sweep
  is about to unpin.
* feed_overlap: the comment in `indexerFeedStore.begin` says the row lock keeps two
  runs from syncing at once, but it ends with that transaction, and the queue
  gives a stalled run's job out again. A page read before a delete is then applied
  after the delete was pruned from the copy, which shows a pinned object for good.
* studio_queue: the comment over `advance` says it starts the next queued file once
  nothing is transferring. A file found too large when its turn comes fails inside
  `advance`; the call this failure makes returns at once, because the outer one still
  runs, and that one does not look again. The files behind it wait.
* gateway_gone: the comment over `streamBody` says that a client that goes away cancels
  the download. `streamBody` listens only once it has read the first chunk, so a client
  that goes away before is never noticed: the write is refused, and the handler
  waits for an event that has been.

More is shown by the exceptions that properties need. They hold with them and TLC finds
each violated without. Of Pipeline:

* `ReadyIsFinal`: of two executions of a first transcode (the queue took the job for
  stalled, which the docs call harmless), the one that read the asset as created
  may write "processing" (`updateVideoAsset`, which looks at nothing) after the other
  one's finalize. The video is no longer ready, its files are gone, and nobody
  may be left to end the run.
* `RunIsDriven`: an asset stays processing for good when the process dies between a
  retry's claim and its job, when the claim cannot be released either, or when
  no try of `recordFailure` gets through. The code logs the last case.
* `UploadHasOutput`: after a retry the directory may go. The retry finds a finished
  directory before it claims the asset; the execution that wrote it may see the
  asset failed in between and drop it (`dropOutput`), though the docs say a failed
  asset keeps its finished output. The retried upload then fails.

Of the services:

* `SessionsEnd`: POST /auth/password/change sets the password and ends the other
  sessions in two statements without a transaction (auth.ts:574-575). If the second
  fails, or the process dies between them, every other session stays under the new
  password, though the route's comment (547-549) says they end. A reset and a removal
  are transactions and leave none of these.
* `LogTellsAll`: `deliverWebhook` awaits `getEndpoint` outside of any `try` (delivery.ts:153).
  When the read fails the try counts and no row of the log tells of it.
* `AdminStays`: `lockAdmins` ("the last admin who can sign in stays an admin") is not taken
  by `restoreMember`, nor by `acceptReset`, which may give a member the first way in. A
  demotion or removal that read the member as no admin who can sign in skips the
  look at the others, and takes the last one who can.
* `OneTransfer`: upload-store.ts:119 says at most one upload of a tab is transferring, and
  `isTransferring` (226-228) counts one that is finishing. A cancel lets the next file
  start at once; if the upload turns out to have finished first (1146-1150), its card is
  finishing beside the new transfer.
* `ProcessingIsFollowed`: the second try of a failed cancel that is answered 409 shows the
  card as processing and polls its asset only if the id is known (1176-1185). One whose id
  never came stays at processing, neither polled nor marked as stopped.
* `failProcessingAsset` says a late failure changes nothing after the run failed. After
  a retry it fails the new run; `FailedCanRetry` still holds then.

## Proofs

`SlabPruneGateProofs` proves, for any processes, uploads and number of crashes and failing
prunes:

* `TypeCorrect`: `TypeOK`;
* `LeasesBlockPrunes`: no prune starts while a live lease is out;
* `PrunesRunAlone`, `PinnedSlabsAreKept` and `GateImplementsSlabStore`, under
  `Timely`: the lock does not lapse under its prune and a pin follows its check
  within one ttl. gate_lapse shows that the first of the two is needed.

`PinnedSlabsKept` is not inductive. The argument: an upload that is confirmed with
a live lease, or remembers the current prune count, cannot have its slabs among
those a prune listed or will list before its pin. So the inductive invariant
(`GateInv`) says that no upload remembers a count still to come; that only the
lock's holder prunes; that while the lock is held no lease is out and every
upload still running claimed under an older count; that a stripped upload still
running remembers an older count, so its check refuses; and that past the check
the lease is live and the slabs are stored.

`AssetStorageProofs` proves, for any executions and numbers of batches, attempts
and retries, with failing calls or without:

* `TypeCorrect`: `TypeOK`;
* `ReadyAssetsAreKept`: `ReadyIsKept`. It rests on `DeletionIsLate`: a deletion
  collects and unpins only while the asset is deleted. Whatever the queue gives
  up, this holds;
* `ReadyObjectsArePinned`: `ReadyIsPinned`, when the queue gives up only runs that
  do nothing any more (`~StaleRuns`). asset_stale shows that this is needed.

`ReadyIsPinned` is not inductive: that a pinned object stays pinned depends on
every list a release is working through, and each was read from the database some
steps before. The inductive invariant (`StorageInv`) follows an object through its
life. Until its execution records it, no row and no list knows of it
(`AheadIsFresh`). While its execution may still hand it off, it is not marked, is in
no list, and is pinned once its batch succeeded (`KeptIsSafe`); the same holds while
a queued finalize job carries it (`HandedIsSafe`), and for a ready asset's objects
(`ReadyIsSafe`). The other parts say why no release gets hold of it in between: an
execution releases its own objects, after it failed or stopped (`ReleasesAreOwn`,
`KeptIsBehind`); finalize and deletion release once the asset left processing for
good (`LateReleases`); a run that was given up, or that a retry followed, neither
pins nor finalizes any more (`OldRunsAreOver`); and the objects of finalize jobs and
artifacts belong to executions that ended, those of one run to one job
(`HandedIsDone`). `StorageInv` and its parts stand in `AssetStorage`.

It also proves, on top of this and whatever runs the queue gives up:

* `PinnedObjectsAreAccounted`: `PinnedIsAccounted`.

The row of an object goes in three places, and each needs its own reason. Finalize
drops the rows of the objects it makes artifacts and releases every other one, so
nothing is lost. A release forgets the object it unpinned before (`current`): that one is
no longer pinned, and if an upload is still to pin it, it was unpinned early
(`CurrentIsGone`). The end of a deletion drops every artifact row, but none is left: the
artifacts are among what it has yet to unpin or to forget (`DeletionCovers`). For the
second reason nobody may record an object anew that a release holds, so before its
record an object is in no row, no job and no release (`AheadIsUnheard`), and what an
execution releases is its own (`OwnObjects`). `ReleasesEnd` and `OneRelease` say that a release
is never begun inside another one. `ClaimedIsAccounted` speaks of objects about to be
pinned too, since a pin whose answer was lost looks like no pin at all.

`PipelineProofs` proves, for any executions, tries, stalls, retries and faults:

* `Typed`: `TypeOK`;
* `RunsAreDriven`: `RunIsDriven`, and `ReadyStaysFinal`: `ReadyIsFinal`;
* `FailedAreRetriable`: `FailedCanRetry`, and `UploadsHaveOutput`: `UploadHasOutput`.

`RunIsDriven` lets any run drive the asset, and a job of an old run may end at any time;
so the inductive invariant (`DriveInv`) has the current run driven (`RunIsHeld`). A job
may end because the next stage took over: a finalize that is over ended the run or
failed (`FinalizeEnds`), an upload that is over handed on or failed (`UploadEnds`), and a
transcode compares after it added the upload (`CompareIsLate`) and drops its output once
the run is over (`DropIsLate`). A retry starts from nothing: the run it claims, and those
after it, have no job and no execution (`LaterRunsAreBlank`). `PastCreation` says that an
upload never meets an asset still as it was created, which it would skip.

What is on disk has an invariant of its own. The source goes only with an asset that is
ready or deleted, unless a mark was late (`SourceIsKept`). The upload of the first run
finds its directory (`FirstOutput`), and so does an execution about to add it: FFmpeg
writes a directory of its own execution (`OwnDir`), and an execution that drops its
output found its run over (`DropEnds`). `OutputTypes` says that a directory is never both
being written and finished, and that a job that is not over has a try left (`RowsFit`).

`ReconcileFeedProofs` proves, for any objects, runs, feeds, instants, pages and commit
delays, under `FeedAssumption` (the delay is less than the grace time, pages hold one):

* `CopyIsOfOneFeed`: `FromOneFeed` and `StallNeedsAPage`, for runs that overlap too;
* `SyncsAreComplete`: `SyncIsComplete` and `SavedIsRead`, when runs do not overlap.
  feed_overlap shows that this is needed.

A fetched page is the next events past its cursor that did not change meanwhile, and a
page that is not full has all of them (`PageIsNext`). So what a run passed is in the copy,
unless it changed since the run began (`ReadOn`, `Through`). A saved cursor is settled
(`SavedIsSettled`): it is older than the grace time, and a transaction that is still open is
younger than the commit delay (`OpenIsYoung`), so nothing can be committed behind it.

`BackendProofs` proves about services of the backend, each an instance over constants
and variables of its own:

* `SignInTypes`, `SessionsDoEnd`: `SessionsEnd`, and `LinksCount`: `LinksAreCounted`, for any
  sessions, requests, passwords, removals and uses. A reset or a removal ends the sessions
  its statement saw, and takes effect later: only sign-ins that were overtaken lie between
  the two (`Ended`). With that `SessionsEnd` is inductive, since it names for each password
  a session has outlived the request that is about to end it or failed to; of two changes
  at once, each ends the other's. `ResetLocked` and `JoinLocked` are what the row locks of
  `claimLink` give.
* `ShareTypes`, which bounds every expiry, and `SharesAreRight`: `SharesLast`, for any grid,
  limits and requests, under `ShareAssumption` (the order of the code's constants).
  `ExpiryBounds` is the lemma on the rounding, from one on division. The invariant says
  where each slot lies between its request's moment and limit (`Bounded`, `Rounded`), and
  that a slot minted and still valid is kept (`ValidKept`).
* `ShutdownLosesNothing`: `PlaysAreTold` and `WorkFindsItOpen`, for any requests and jobs. A
  counted play is in the buffer, being written or told (`PlaysAreSomewhere`), and each
  phase comes after what it waits for (`Drains`, `LastFlush`).
* `CacheStaysFresh`: `DecidesFresh` and `ClaimIsSeen`, for any ttls, clock and requests. A
  version that was replaced is known no longer than a query takes and the cache keeps
  it (`Fresh`); that an object is unclaimed was read by a query that had begun before
  the claim (`Unclaimed`).
* `DeliveriesAreTruthful`: `RepeatNeedsAStall` and `LogTellsAll`, for any deliveries,
  executions, tries and faults. Of each delivery (`Told`): without a stall one execution has
  its job (`OneExecution`), the receiver acknowledged it only if that one is about to record
  or settle it (`Answers`), and its rows are the tries made so far but those whose endpoint
  was not read (`Rows`).
* `ReportsAreRight`: `ReportIsRight`, for any objects, grace, delay and clock. What
  the run will call drift was drift at some moment (`Found`), and what was drift all the
  time will be called so (`Kept`), given what each of its three reads saw; both rest on
  settled objects, whose state did not change since the run began.

`BrowserProofs` does so for what runs in a browser:

* `ViewerLeaksNothing`: `NothingLeaks` of SiaSession, for any number of connects, resolves,
  objects and evictions. An eviction keeps the others and frees one (`Evicted`).
* `SegmentsDoComeOnce`: `SegmentsComeOnce` of HybridLoader, for any loaders and segments.
* `CardsStayTrue`: `OneTransfer` and `ProcessingIsFollowed` of StudioUploads, for any files:
  nothing starts while a card transfers, so two do only if one is back from a cancel
  (`OneActive`). And `QueueStaysServed`: `QueueIsServed`, when no file is over the limit; studio_queue
  shows that this is needed. `CardFits` relates each card to what goes on behind it: an
  attempt lives only while the card transfers or the attempt is being aborted; a card
  whose abort was asked for is cancelled and its cleanup pending; one whose retry was asked
  for is processing and not yet polled; a poll is on only while it is processing. `emit`
  ends with nothing left to start, since every file it starts then transfers.

A removal from an array or an ordered map is `Without` (module `Removal`), a recursive
function whose laws (`WithoutIsRight`) follow by induction over the prefixes, with the
library's theorem on subsets of the naturals (`NatSetInduction`).

`LiveServicesProofs` proves, for any values of the constants:

* `TypeCorrect` and `GatewayExact` of Delivery: `TypeOK` and `GatewayIsExact`, for any sizes,
  limits, chunks and requests. `RangeIsRight` is its lemma on `ParseRange`: the part it
  returns is exactly the bytes the header names, and it returns none only if there
  are none. The inductive invariant has `OneInv` for each request (nothing is sent
  before the first chunk, what is sent stays inside the window, what ended is
  exact) and `SharedInv` for the download and those who wait for it.
* `UploadsAreKept`: `FinishedIsKept` of UploadSessions, for any number of faults. Five
  removals could take the file of a completed upload; `UploadInv` says of each
  what it found when it began (`JudgedIsEnded`, `RemovalsAreDue`), and that between the hook's
  look at the file and its write of the session the file stays, unless the session was
  judged meanwhile (`SeenIsThere`).
* `LivePartsAreTyped`, `AnswersAreAlwaysExact` and `FinishedIsAlwaysKept`: the same for
  the specification of the live run, with the types of WebhookDelivery from BackendProofs.

`ServicesProofs` proves, for any members, providers and transactions, `MembersTypes`,
`AdminsStay`: `AdminStays`, and `WaysStay`: `WayInStays` of Members. A commit is safe because
what its transaction read is still true. The inductive invariant (`MembersInv`) says just
that, for every open transaction past its reads: the other administrator it saw is one
(`OtherAdmin`), the other way it saw is there (`OtherWay`), and two transactions with one lock
are never open together (`OneHolder`); `Absent` and `Named` tie members and transactions to
rows that exist. A step that takes no lock only adds a way or a member, or brings a
removed one back; where it makes the member of an open transaction one who can sign in,
that transaction is in `overtaken`, which `OtherAdmin` excepts.

The rest of `ServicesProofs` carries the theorems of the other modules over to `AllSpec`,
the specification the services run checks: each property of that run is a theorem there
(`SessionsAlwaysEnd`, ..., `EveryPartIsTyped`), for every value of the constants it leaves
open. The proof modules are instances there (`B`, `P`, `Z`, `FP`, `QP`, `LP`), with the
shared variables for theirs, and one lemma for each part says that a step of the
part is a step of the instance the proof is about.

Every invariant and action property of a passing run is proved, and so is the refinement
of `SlabStore`. Only model-checked are the liveness properties (`WantedIsServed`,
`GarbageIsPruned`, `DeletedIsFreed`, `ReleasedIsForgotten`, `UploadEnds`, `SourceGoes`,
`DeliveryEnds`), which this prover cannot do, and what the violation runs find.

## Plan

In this order:

1. `UploadLease`: claim, renewal, loss and redelivery of the pipeline's upload
   lease; at most one execution past a checkpoint unless one was frozen; it
   discharges what `AssetStorage` takes as `Stall`.
2. `Pipeline`: violation runs for what its properties except; liveness (a run ends,
   files leave the disk) on a smaller instance.
3. The player's renewal of signed urls and the schedules.
4. The safety halves of the liveness properties as theorems: that what is to be
   done stays enabled until it is done.

## Not modelled

* The SDK's `UploadHandle`: its states are those of tus-js-client, whose internals
  decide what a pause or an abort does; a model would be one of that library.
* FFmpeg and its text output, the description of the HTTP api, signatures and
  address checks of webhooks, configuration: text, or pure functions over bytes.
* Statistics, listings, playback ids: reads of the database without a protocol.
* Pages and components of the studio and the player, the landing page, deployment.
* The timing of the upload lease (see the plan), progress and events.
* `queue/retry.ts` looks for a finished directory before it claims the asset; Pipeline has
  both steps, and `UploadHasOutput` therefore speaks of the first run only.
