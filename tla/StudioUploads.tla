--------------------------- MODULE StudioUploads ---------------------------
(***************************************************************************)
(* The uploads of one studio tab (frontend/src/lib/upload-store.ts): the   *)
(* files that wait, the one that is sent under a claim no other tab holds, *)
(* and the cards of those that ended.  Every change ends with emit, which  *)
(* starts the next waiting file when nothing is sent.  The tus client, the *)
(* server and the locks between tabs answer later, when the card may be    *)
(* cancelled, dismissed or replaced.                                       *)
(***************************************************************************)
EXTENDS Removal

CONSTANTS
    Upload,      \* the cards there may come to be
    SameFile,    \* those of one file, with the same details; the others have their own
    TooLarge     \* the uploads whose file is over the server's limit

VARIABLES
    card,      \* what the page shows of each
    task,      \* what goes on behind it
    waiting,   \* the queued uploads, in order
    held,      \* queueHeld
    online,
    overLimit, \* the uploads known to be over the server's limit
    elsewhere  \* the files other tabs claim

vars == <<card, task, waiting, held, online, overLimit, elsewhere>>

FileOf == [u \in Upload |-> IF u \in SameFile THEN SameFile ELSE {u}]
File == {FileOf[u] : u \in Upload}

Transferring == {"uploading", "paused", "finishing"}

\* A failed card tells whether the transfer or the processing failed, and one with a
\* notice that its upload finished before it could be cancelled.
Phase == Transferring \cup {"none", "queued", "processing", "ready", "failedUpload",
                            "failedProcessing", "cancelled", "dismissed"}

Cards == [phase : Phase, ids : {"none", "upload", "asset"}, canResume : BOOLEAN,
          lost : BOOLEAN, auth : BOOLEAN, poll : {"off", "on", "stopped"},
          cleanup : {"none", "pending", "done", "failed"}, notice : BOOLEAN]
Tasks == [claim : {"none", "asking", "held"}, attempt : {"none", "live", "sent"},
          pausing : BOOLEAN, reading : BOOLEAN, asked : {"none", "abort", "cancel", "retry"}]

NoCard == [phase |-> "none", ids |-> "none", canResume |-> FALSE, lost |-> FALSE,
           auth |-> FALSE, poll |-> "off", cleanup |-> "none", notice |-> FALSE]
NoTask == [claim |-> "none", attempt |-> "none", pausing |-> FALSE, reading |-> FALSE,
           asked |-> "none"]

TypeOK ==
    /\ card \in [Upload -> Cards]
    /\ task \in [Upload -> Tasks]
    /\ waiting \in Seq(Upload)
    /\ held \in BOOLEAN /\ online \in BOOLEAN /\ overLimit \subseteq TooLarge
    /\ elsewhere \subseteq File

Init ==
    /\ card = [u \in Upload |-> NoCard]
    /\ task = [u \in Upload |-> NoTask]
    /\ waiting = <<>> /\ held = FALSE /\ online = TRUE /\ overLimit = {}
    /\ elsewhere = {}

----------------------------------------------------------------------------
(***************************************************************************)
(* The store: a state is taken through its changes and put back.           *)
(***************************************************************************)
Store == [card |-> card, task |-> task, waiting |-> waiting, held |-> held]

Put(s) ==
    /\ card' = s.card /\ task' = s.task /\ waiting' = s.waiting /\ held' = s.held

Listed(c) == c.phase \notin {"none", "queued", "dismissed"}
Busy(s) == \E u \in Upload : s.card[u].phase \in Transferring
SignedOut(s) == \E u \in Upload : Listed(s.card[u]) /\ s.card[u].auth

\* begin: the failed cards of the same file give way.
Begin(s, u) ==
    LET replaced == {v \in Upload \ {u} :
                        s.card[v].phase = "failedUpload" /\ FileOf[v] = FileOf[u]}
        refused == u \in overLimit
    IN  [s EXCEPT
           !.card = [v \in Upload |->
               CASE v = u -> [NoCard EXCEPT !.phase = IF refused THEN "failedUpload"
                                                      ELSE "uploading"]
                 [] v \in replaced -> [NoCard EXCEPT !.phase = "dismissed"]
                 [] OTHER -> s.card[v]],
           !.task = [v \in Upload |->
               CASE v = u -> [NoTask EXCEPT !.claim = IF refused THEN "none" ELSE "asking"]
                 [] v \in replaced -> NoTask
                 [] OTHER -> s.task[v]]]

\* Mutant: a failure keeps the queue waiting although it is not held.
AdvancesUnlessFailed(s) ==
    /\ s.waiting # <<>> /\ ~s.held /\ online' /\ ~Busy(s) /\ ~SignedOut(s)
    /\ ~ \E u \in Upload : s.card[u].phase = "failedUpload"

CanAdvance(s) == s.waiting # <<>> /\ ~s.held /\ online' /\ ~Busy(s) /\ ~SignedOut(s)

\* emit, which ends with advance.
Emit(s) ==
    IF CanAdvance(s)
    THEN Begin([s EXCEPT !.waiting = Tail(s.waiting)], Head(s.waiting)) ELSE s

\* assetChanged emits again.
EmitAsset(s, u) == IF s.card[u].ids = "asset" THEN Emit(s) ELSE s

Show(u, c) == [Store EXCEPT !.card[u] = c]
ShowTask(u, c, t) == [Store EXCEPT !.card[u] = c, !.task[u] = t]

Quiet == UNCHANGED <<online, overLimit, elsewhere>>

\* authFailed stops the polls and gives the file back.
SignOut(c) == [c EXCEPT !.auth = TRUE, !.canResume = FALSE, !.poll = "off"]
Free(t) == [t EXCEPT !.claim = IF @ = "held" THEN "none" ELSE @]
Over(t) == [Free(t) EXCEPT !.attempt = "none"]

----------------------------------------------------------------------------
(***************************************************************************)
(* What the user does.                                                     *)
(***************************************************************************)
Enqueue(u) ==
    /\ card[u].phase = "none"
    /\ Quiet
    /\ IF ~Busy(Store) /\ waiting = <<>> /\ ~held /\ online
       THEN Put(Emit(Begin(Store, u)))
       ELSE Put(Emit([Show(u, [NoCard EXCEPT !.phase = "queued"])
                         EXCEPT !.waiting = Append(waiting, u)]))

RemoveQueued(u) ==
    /\ card[u].phase = "queued"
    /\ Quiet
    /\ LET rest == Without(waiting, {u})
       IN  Put(Emit([Show(u, [NoCard EXCEPT !.phase = "dismissed"])
                        EXCEPT !.waiting = rest, !.held = held /\ rest # <<>>]))

ContinueQueue ==
    /\ held
    /\ Quiet
    /\ Put(Emit([Store EXCEPT !.held = FALSE]))

Pause(u) ==
    /\ card[u].phase = "uploading" /\ task[u].attempt = "live" /\ ~task[u].pausing
    /\ Quiet
    /\ Put([Store EXCEPT !.task[u].pausing = TRUE])

Resume(u) ==
    /\ card[u].phase = "paused" /\ task[u].attempt # "none"
    /\ Quiet
    /\ Put(Emit(Show(u, [card[u] EXCEPT !.phase = "uploading"])))

\* Before the claim is answered nothing reached the server.
Cancel(u) ==
    /\ card[u].phase \in {"uploading", "paused"}
    /\ Quiet
    /\ \/ /\ task[u].attempt = "none" /\ task[u].claim = "asking"
          /\ Put(Emit(Show(u, [card[u] EXCEPT !.phase = "cancelled"])))
       \/ /\ task[u].attempt # "none"
          /\ Put(Emit(ShowTask(u, [card[u] EXCEPT !.phase = "cancelled", !.cleanup = "pending"],
                                  [task[u] EXCEPT !.asked = "abort"])))

RetryCleanup(u) ==
    /\ card[u].phase = "cancelled" /\ card[u].cleanup = "failed" /\ card[u].ids # "none"
    /\ Quiet
    /\ Put(Emit(ShowTask(u, [card[u] EXCEPT !.cleanup = "pending"],
                            [task[u] EXCEPT !.asked = "cancel"])))

CanResume(s, u) == s.card[u].phase = "failedUpload" /\ s.card[u].canResume

\* Mutant: a failed transfer resumes while another one runs.
ResumedAnyway(s, u) ==
    IF CanResume(s, u)
    THEN [s EXCEPT !.held = FALSE, !.task[u].claim = "asking",
                   !.card[u].phase = "uploading", !.card[u].canResume = FALSE,
                   !.card[u].lost = FALSE]
    ELSE s

\* resumeTransfer, which does nothing for a card that cannot go on.
Resumed(s, u) ==
    IF CanResume(s, u) /\ ~Busy(s)
    THEN [s EXCEPT !.held = FALSE, !.task[u].claim = "asking",
                   !.card[u].phase = "uploading", !.card[u].canResume = FALSE,
                   !.card[u].lost = FALSE]
    ELSE s

ResumeTransfer(u) ==
    /\ CanResume(Store, u)
    /\ Quiet
    /\ Put(Resumed(Store, u))

RetryProcessing(u) ==
    /\ card[u].phase = "failedProcessing" /\ card[u].ids = "asset"
    /\ Quiet
    /\ Put(Emit(ShowTask(u, [card[u] EXCEPT !.phase = "processing", !.poll = "off"],
                            [task[u] EXCEPT !.asked = "retry"])))

Refresh(u) ==
    /\ card[u].phase = "processing" /\ card[u].poll = "stopped"
    /\ Quiet
    /\ Put(Emit(Emit(Show(u, [card[u] EXCEPT !.poll = "on"]))))

\* A dismissed failure that can be resumed does not hold the queue any more.
Dismiss(u) ==
    /\ Listed(card[u])
    /\ card[u].phase \notin Transferring /\ card[u].cleanup # "pending"
    /\ Quiet
    /\ LET c == [card EXCEPT ![u] = [NoCard EXCEPT !.phase = "dismissed"]]
       IN  Put(Emit([card |-> c, waiting |-> waiting,
                     task |-> [task EXCEPT ![u] = [NoTask EXCEPT !.claim =
                                  IF task[u].claim = "asking" THEN "asking" ELSE "none"]],
                     held |-> held /\ \E v \in Upload :
                                         c[v].phase = "failedUpload" /\ c[v].canResume]))

----------------------------------------------------------------------------
(***************************************************************************)
(* What the transfer answers.                                              *)
(***************************************************************************)

\* The lock between tabs is free, another tab or card has the file, or the browser
\* refuses the request.
Claimed(u) ==
    /\ task[u].claim = "asking"
    /\ Quiet
    /\ LET taken == FileOf[u] \in elsewhere
                       \/ \E v \in Upload \ {u} : FileOf[v] = FileOf[u] /\ task[v].claim = "held"
           t == [task[u] EXCEPT !.claim = "none"]
       IN  \/ /\ card[u].phase # "uploading"
              /\ Put([Store EXCEPT !.task[u] = t])
           \/ /\ card[u].phase = "uploading" /\ taken
              /\ Put(Emit(ShowTask(u, [card[u] EXCEPT !.phase = "failedUpload"], t)))
           \/ /\ card[u].phase = "uploading" /\ ~taken
              /\ Put([Store EXCEPT !.task[u] =
                         [t EXCEPT !.claim = "held", !.attempt = "live"]])
           \/ /\ Listed(card[u])
              /\ Put(Emit(ShowTask(u, [card[u] EXCEPT !.phase = "failedUpload",
                                                      !.canResume = TRUE], t)))

\* The upload, then its asset, tell their ids while the attempt is the card's.
LearnId(u) ==
    /\ task[u].attempt # "none" /\ card[u].ids # "asset"
    /\ Quiet
    /\ Put(Emit(Show(u, [card[u] EXCEPT !.ids = IF @ = "none" THEN "upload" ELSE "asset"])))

\* Every byte is sent; a cancel that is under way looks at it when it goes on.
Succeed(u) ==
    /\ task[u].attempt = "live" /\ card[u].phase \in {"uploading", "paused", "cancelled"}
    /\ Quiet
    /\ Put(Emit(ShowTask(u, IF card[u].phase = "cancelled" THEN card[u]
                            ELSE [card[u] EXCEPT !.phase = "finishing", !.notice = FALSE],
                            [task[u] EXCEPT !.attempt = "sent"])))

Holds(s, resumable) == (resumable /\ s.waiting # <<>>) \/ s.held

\* A network failure, an answer worth another try, another one, or a 401.
Fail(u) ==
    /\ task[u].attempt = "live" /\ card[u].phase \in {"uploading", "paused"}
    /\ Quiet
    /\ \E resumable, lost, signedOut \in BOOLEAN :
          /\ lost => resumable /\ ~online
          /\ signedOut => ~resumable
          /\ LET c == [card[u] EXCEPT !.phase = "failedUpload", !.canResume = resumable,
                                      !.lost = lost]
             IN  Put(Emit([ShowTask(u, IF signedOut THEN SignOut(c) ELSE c, Over(task[u]))
                              EXCEPT !.held = Holds(Store, resumable)]))

\* The pause took effect; a success or a cancel meanwhile wins.
Paused(u) ==
    /\ task[u].pausing
    /\ Quiet
    /\ LET t == [task[u] EXCEPT !.pausing = FALSE]
       IN  IF task[u].attempt = "live" /\ card[u].phase = "uploading"
           THEN Put(Emit(ShowTask(u, [card[u] EXCEPT !.phase = "paused"],
                                     [t EXCEPT !.reading = card[u].ids # "none"])))
           ELSE Put([Store EXCEPT !.task[u] = t])

\* showCommittedBytes: only a 401 changes more than a number.
CommittedRead(u) ==
    /\ task[u].reading
    /\ Quiet
    /\ LET t == [task[u] EXCEPT !.reading = FALSE]
       IN  \/ Put([Store EXCEPT !.task[u] = t])
           \/ Put(Emit(ShowTask(u, SignOut(card[u]), Free(t))))

\* transferred goes on with the asset's id, or without it after a while.
Transferred(u) ==
    /\ card[u].phase = "finishing"
    /\ Quiet
    /\ LET t == Over(task[u])
       IN  \/ Put(Emit(ShowTask(u, [card[u] EXCEPT !.phase = "failedUpload"], t)))
           \/ LET s == ShowTask(u, [card[u] EXCEPT !.phase = "processing", !.ids = "asset",
                                                   !.poll = "on"], t)
              IN  Put(Emit(EmitAsset(Emit(s), u)))

\* A cancel goes on once abort is done: the upload had finished, the server removed
\* it, or it did not confirm that.
Aborted(u) ==
    /\ task[u].asked = "abort"
    /\ Quiet
    /\ LET t == [task[u] EXCEPT !.asked = "none"]
           failed == [card[u] EXCEPT !.cleanup = "failed"]
       IN  \/ /\ task[u].attempt = "sent"
              /\ Put(Emit(ShowTask(u, [card[u] EXCEPT !.phase = "finishing",
                                                      !.cleanup = "none", !.notice = TRUE],
                                   t)))
           \/ /\ task[u].attempt = "live"
              /\ Put(EmitAsset(Emit(ShowTask(u, [card[u] EXCEPT !.cleanup = "done"], Over(t))), u))
           \/ /\ task[u].attempt = "live"
              /\ \E c \in {failed, SignOut(failed)} : Put(Emit(ShowTask(u, c, Over(t))))

\* Only an asset whose id is known is polled.
Followed(c) ==
    [c EXCEPT !.phase = "processing", !.cleanup = "none", !.notice = TRUE,
              !.poll = IF c.ids = "asset" THEN "on" ELSE @]

\* The server removed it, has it no more, has finished it (409), or failed.
CleanupAnswered(u) ==
    /\ task[u].asked = "cancel"
    /\ Quiet
    /\ LET t == [task[u] EXCEPT !.asked = "none"]
           failed == [card[u] EXCEPT !.cleanup = "failed"]
       IN  \/ Put(EmitAsset(Emit(ShowTask(u, [card[u] EXCEPT !.cleanup = "done"], t)), u))
           \/ Put(EmitAsset(EmitAsset(Emit(ShowTask(u, Followed(card[u]), t)), u), u))
           \/ \E c \in {failed, SignOut(failed)} : Put(Emit(ShowTask(u, c, t)))

\* client.assets.retry: a new run to follow, or not. A dismissed card has no task.
RetryAnswered(u) ==
    /\ task[u].asked = "retry"
    /\ Quiet
    /\ LET t == [task[u] EXCEPT !.asked = "none"]
           failed == [card[u] EXCEPT !.phase = "failedProcessing"]
       IN  \/ Put(Emit(EmitAsset(ShowTask(u, [card[u] EXCEPT !.poll = "on"], t), u)))
           \/ \E c \in {failed, SignOut(failed)} : Put(Emit(ShowTask(u, c, t)))

\* A processing poll ends with the outcome, gives up, or is answered 401.
PollEnds(u) ==
    /\ card[u].poll = "on"
    /\ Quiet
    /\ LET c == [card[u] EXCEPT !.poll = "off"]
       IN  \/ \E p \in {"ready", "failedProcessing"} :
                 Put(EmitAsset(Emit(Show(u, [c EXCEPT !.phase = p])), u))
           \/ Put(Emit(Show(u, [c EXCEPT !.poll = "stopped"])))
           \/ Put(Emit(Show(u, SignOut(c))))

----------------------------------------------------------------------------
(***************************************************************************)
(* The browser.                                                            *)
(***************************************************************************)
GoOffline ==
    /\ online
    /\ online' = FALSE
    /\ UNCHANGED <<card, task, waiting, held, overLimit, elsewhere>>

\* onOnline: a transfer that was cut off goes on first.
Cut == {u \in Upload : card[u].phase = "failedUpload" /\ card[u].lost}

GoOnline ==
    /\ ~online
    /\ online' = TRUE
    /\ UNCHANGED <<overLimit, elsewhere>>
    /\ IF Cut # {} /\ ~Busy(Store)
       THEN \E u \in Cut : Put(Resumed(Store, u))
       ELSE Put(Emit(Store))

LoadLimit ==
    /\ overLimit' = TooLarge
    /\ UNCHANGED <<online, elsewhere>>
    /\ Put(Emit(Store))

OtherTab ==
    /\ \E f \in File :
          elsewhere' = IF f \in elsewhere THEN elsewhere \ {f}
                       ELSE IF \E u \in Upload : FileOf[u] = f /\ task[u].claim = "held"
                            THEN elsewhere ELSE elsewhere \cup {f}
    /\ UNCHANGED <<card, task, waiting, held, online, overLimit>>

Next ==
    \/ \E u \in Upload :
          \/ Enqueue(u) \/ RemoveQueued(u) \/ Pause(u) \/ Resume(u) \/ Cancel(u)
          \/ RetryCleanup(u) \/ ResumeTransfer(u) \/ RetryProcessing(u) \/ Refresh(u)
          \/ Dismiss(u)
          \/ Claimed(u) \/ LearnId(u) \/ Succeed(u) \/ Fail(u) \/ Paused(u)
          \/ CommittedRead(u) \/ Transferred(u) \/ Aborted(u) \/ CleanupAnswered(u)
          \/ RetryAnswered(u) \/ PollEnds(u)
    \/ ContinueQueue \/ GoOffline \/ GoOnline \/ LoadLimit \/ OtherTab

Spec == Init /\ [][Next]_vars

----------------------------------------------------------------------------
(***************************************************************************)
(* Properties.                                                             *)
(***************************************************************************)

\* At most one upload of a tab is transferring ("At most one of them is transferring",
\* upload-store.ts:119, 226-228), whatever failed transfers go on when the connection is
\* back or by hand. The others finish although they were cancelled: a cancel lets the
\* next file start before the server has answered it (1139-1151).
FinishesCancelled(c) == c.phase = "finishing" /\ c.notice

OneTransfer ==
    \A u, v \in Upload :
        card[u].phase \in Transferring /\ card[v].phase \in Transferring =>
            u = v \/ FinishesCancelled(card[u]) \/ FinishesCancelled(card[v])

\* A card that shows processing is polled, says that the polls stopped or that the
\* session ended, or waits for the answer to a retry. One kind is left with a bar that
\* does not move: its cancel failed, the next one is told that the upload had finished,
\* and its asset's id was never learned (retryCleanup, 1176-1186).
ProcessingIsFollowed ==
    \A u \in Upload :
        card[u].phase = "processing" =>
            \/ card[u].poll # "off" \/ card[u].auth \/ task[u].asked = "retry"
            \/ card[u].ids = "upload" /\ card[u].notice

\* advance, upload-store.ts:413: "Start the next queued file once nothing is
\* transferring."
QueueIsServed ==
    ~(waiting # <<>> /\ ~held /\ online /\ ~Busy(Store) /\ ~SignedOut(Store))

=============================================================================
