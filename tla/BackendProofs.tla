---------------------------- MODULE BackendProofs ----------------------------
(***************************************************************************)
(* Proofs about services of the backend, each for any values of its own    *)
(* constants: signing in (SignIn), share maps (ShareLinks), the drain of a *)
(* stop (Shutdown), the caches of access control (AccessCache), webhook    *)
(* deliveries (WebhookDelivery) and reconciliation runs (Reconcile).       *)
(*                                                                         *)
(* Each service is an instance here, over variables of its own. They do    *)
(* not interact; ServicesProofs puts their invariants together.            *)
(***************************************************************************)
EXTENDS Integers, Sequences, TLAPS

CONSTANTS
    Request, None,
    \* SignIn
    Session, MaxUses, MaxPasswords, MaxRemovals,
    \* ShareLinks
    Grid, MinLeft, MinAsk, DefaultAsk, Cap, GatedCap, SignedCap, Lifetimes, ShareEnd,
    \* Shutdown
    Job,
    \* AccessCache
    StateTTL, OwnerTTL, UnclaimedTTL, QueryTime, CacheEnd, MaxVersions,
    \* WebhookDelivery
    Delivery, Event, Execution, Attempts, MaxOpen, MaxRotations, MaxFaults,
    \* Reconcile
    Stored, Grace, CommitDelay, ReportEnd

VARIABLES
    \* SignIn
    password, removed, live, used, resetUsed, invite, req, by, since, late, unended,
    removals, resets, joins,
    \* ShareLinks
    shareTime, sharePc, gated, signedTo, lifetime, limit, looked, slot, kept, minting,
    minted, again,
    \* Shutdown
    phase, crashed, exit, httpDone, jobsDone, handler, conn, jobAt, counted, unheard,
    buffer, writing, last, told,
    \* AccessCache
    cacheTime, versions, claimedAt, dropping, owners, cached, asking, began, result,
    dropped, verdict,
    \* WebhookDelivery
    endpoint, secret, dispatch, resend, job, made, stalls, holder, doing, log, acks,
    unlogged, missed, faults,
    \* Reconcile
    clock, upload, pending, updated, tracked, unpinned, atIndexer, event, step, started,
    owned, db, copy, unread, report, ever, always

S == INSTANCE SignIn
K == INSTANCE ShareLinks WITH
        MaxTime <- ShareEnd, Wanted <- Lifetimes, now <- shareTime, pc <- sharePc
X == INSTANCE Shutdown WITH job <- jobAt, pending <- buffer
A == INSTANCE AccessCache WITH MaxTime <- CacheEnd, now <- cacheTime, state <- cached, pc <- asking
W == INSTANCE WebhookDelivery WITH unread <- missed
R == INSTANCE Reconcile WITH Object <- Stored, MaxTime <- ReportEnd, now <- clock,
    state <- atIndexer, pc <- step

(***************************************************************************)
(* SignIn.                                                                 *)
(*                                                                         *)
(* A transaction ends the sessions it saw, not those there are when it     *)
(* commits: Ended says that only overtaken sign-ins lie between. The row   *)
(* locks of the links are in ResetLocked and JoinLocked. SessionsEnd is    *)
(* inductive with them: it names for each password that a session outlives *)
(* the request which is about to end it, or has failed to.                 *)
(***************************************************************************)

Commits == {"resetCommit", "removeCommit"}
Resets == {"reset", "resetCommit"}

Requests ==
    [at : S!Phases, password : S!Passwords, session : Session \cup {None}, ends : SUBSET Session]
        \cup {S!Idle}

\* What a transaction will not end at its commit was overtaken.
Ended == \A r \in Request : req[r].at \in Commits => live \ late \subseteq req[r].ends

ResetLocked ==
    /\ \A q, r \in Request : req[q].at \in Resets /\ req[r].at \in Resets => q = r
    /\ \A r \in Request : req[r].at \in Resets => ~resetUsed
    /\ resets = IF resetUsed THEN 1 ELSE 0

JoinLocked ==
    /\ \A q, r \in Request : req[q].at = "join" /\ req[r].at = "join" => q = r
    /\ \A r \in Request : req[r].at = "join" => invite.uses < MaxUses
    /\ joins = invite.uses

SignInInv == S!TypeOK /\ Ended /\ S!SessionsEnd /\ ResetLocked /\ JoinLocked

----------------------------------------------------------------------------
LEMMA SignInInit == ASSUME S!SignInAssumption, S!Init PROVE SignInInv
<1>1. 0 \in S!Passwords /\ 0 \in 0 .. MaxUses /\ 0 \in 0 .. MaxRemovals
  BY DEF S!SignInAssumption, S!Passwords
<1>2. \A r \in Request : req[r] = S!Idle /\ req[r].at = "idle"
  BY DEF S!Init, S!Idle
<1>3. S!TypeOK
  BY <1>1 DEF S!Init, S!TypeOK
<1>4. Ended /\ ResetLocked /\ JoinLocked
  BY <1>2 DEF S!Init, Ended, Commits, ResetLocked, Resets, JoinLocked
<1>5. S!SessionsEnd
  BY DEF S!Init, S!SessionsEnd
<1> QED BY <1>3, <1>4, <1>5 DEF SignInInv

----------------------------------------------------------------------------
(***************************************************************************)
(* The steps in which only a request moves.                                *)
(***************************************************************************)

\* One request moves and the others stay.
Moves(r) == req' \in [Request -> Requests] /\ \A q \in Request \ {r} : req'[q] = req[q]

\* Such a step keeps the invariant if the request ends what it should, and takes
\* a link only when it has the lock.
LEMMA MoveKeeps ==
  ASSUME SignInInv, NEW r \in Request, Moves(r), req[r].at # "others",
         UNCHANGED <<password, removed, S!sessionVars, S!linkVars, S!countVars>>,
         req'[r].at \in Commits => live \subseteq req'[r].ends,
         req'[r].at \in Resets =>
             ~resetUsed /\ \A q \in Request \ {r} : req[q].at \notin Resets,
         req'[r].at = "join" =>
             invite.uses < MaxUses /\ \A q \in Request \ {r} : req[q].at # "join"
  PROVE  SignInInv'
<1> USE DEF SignInInv, S!sessionVars, S!linkVars, S!countVars, Moves
<1>1. S!TypeOK'
  BY DEF S!TypeOK, Requests
<1>2. Ended'
  BY DEF Ended
<1>3. S!SessionsEnd'
  BY DEF S!SessionsEnd, S!Outlives
<1>4. ResetLocked'
  BY DEF ResetLocked
<1>5. JoinLocked'
  BY DEF JoinLocked
<1> QED BY <1>1, <1>2, <1>3, <1>4, <1>5

LEMMA VerifyKeeps == ASSUME SignInInv, NEW r \in Request, S!Verify(r) PROVE SignInInv'
<1>1. Moves(r) /\ req'[r].at = "start" /\ req[r].at = "idle"
  BY DEF S!Verify, Moves, SignInInv, S!TypeOK, Requests, S!Idle, S!Phases
<1> QED BY <1>1, MoveKeeps DEF S!Verify, Commits, Resets

LEMMA ChangeVerifyKeeps ==
  ASSUME S!SignInAssumption, SignInInv, NEW r \in Request, S!ChangeVerify(r)
  PROVE  SignInInv'
<1>1. PICK s \in live :
         req' = [req EXCEPT ![r] = [S!Idle EXCEPT !.at = "set", !.session = s]]
  BY DEF S!ChangeVerify
<1>2. s \in Session /\ 0 \in S!Passwords
  BY DEF SignInInv, S!TypeOK, S!Passwords, S!SignInAssumption
<1>3. [S!Idle EXCEPT !.at = "set", !.session = s] \in Requests
  <2>1. [S!Idle EXCEPT !.at = "set", !.session = s]
          \in [at : {"set"}, password : {0}, session : {s}, ends : {{}}]
    BY DEF S!Idle
  <2> QED BY <1>2, <2>1 DEF Requests, S!Phases
<1>4. Moves(r) /\ req'[r].at = "set" /\ req[r].at = "idle"
  BY <1>1, <1>3 DEF S!ChangeVerify, Moves, SignInInv, S!TypeOK, Requests, S!Idle
<1> QED BY <1>4, MoveKeeps DEF S!ChangeVerify, Commits, Resets

\* A claim finds no request that holds the lock of the same row.
LEMMA ClaimMoves ==
  ASSUME S!SignInAssumption, SignInInv, NEW r \in Request, NEW phases,
         NEW at \in {"reset", "join", "remove"}, S!Claim(r, phases, at)
  PROVE  Moves(r) /\ req'[r].at = at /\ req[r].at = "idle"
<1>1. req[r] = S!Idle /\ req' = [req EXCEPT ![r].at = at]
  BY DEF S!Claim, S!To, SignInInv, S!TypeOK, S!Phases
<1>2. [S!Idle EXCEPT !.at = at] \in Requests
  BY DEF S!Idle, Requests, S!Phases, S!Passwords, S!SignInAssumption
<1>3. req' = [req EXCEPT ![r] = [S!Idle EXCEPT !.at = at]]
  BY <1>1
<1>4. req[r].at = "idle" /\ [S!Idle EXCEPT !.at = at].at = at
  BY <1>1 DEF S!Idle
<1> QED BY <1>2, <1>3, <1>4 DEF SignInInv, S!TypeOK, Moves, Requests

LEMMA ResetClaimKeeps ==
  ASSUME S!SignInAssumption, SignInInv, NEW r \in Request, S!ResetClaim(r)
  PROVE  SignInInv'
<1>1. S!Claim(r, {"reset", "resetCommit"}, "reset") /\ ~resetUsed
  BY DEF S!ResetClaim
<1>2. Moves(r) /\ req'[r].at = "reset" /\ req[r].at = "idle"
  BY <1>1, ClaimMoves
<1> QED BY <1>1, <1>2, MoveKeeps DEF S!Claim, S!Unlocked, Commits, Resets

LEMMA JoinKeeps ==
  ASSUME S!SignInAssumption, SignInInv, NEW r \in Request, S!Join(r)
  PROVE  SignInInv'
<1>1. S!Claim(r, {"join"}, "join") /\ invite.uses < MaxUses
  BY DEF S!Join
<1>2. Moves(r) /\ req'[r].at = "join" /\ req[r].at = "idle"
  BY <1>1, ClaimMoves
<1> QED BY <1>1, <1>2, MoveKeeps DEF S!Claim, S!Unlocked, Commits, Resets

LEMMA RemoveKeeps ==
  ASSUME S!SignInAssumption, SignInInv, NEW r \in Request, S!Remove(r)
  PROVE  SignInInv'
<1>1. S!Claim(r, {"remove", "removeCommit"}, "remove")
  BY DEF S!Remove
<1>2. Moves(r) /\ req'[r].at = "remove" /\ req[r].at = "idle"
  BY <1>1, ClaimMoves
<1> QED BY <1>1, <1>2, MoveKeeps DEF S!Claim, Commits, Resets

\* A statement that ends the sessions there are.
LEMMA EndMoves ==
  ASSUME SignInInv, NEW r \in Request, req[r].at \in {"reset", "remove"}, NEW at \in Commits,
         req' = [req EXCEPT ![r].at = at, ![r].ends = live]
  PROVE  Moves(r) /\ req'[r].at = at /\ req'[r].ends = live
<1>1. req[r] \in [at : S!Phases, password : S!Passwords, session : Session \cup {None},
                  ends : SUBSET Session]
  BY DEF SignInInv, S!TypeOK, S!Idle
<1>2. live \in SUBSET Session /\ at \in S!Phases
  BY DEF SignInInv, S!TypeOK, Commits, S!Phases
<1>3. req'[r] = [req[r] EXCEPT !.at = at, !.ends = live]
  BY DEF SignInInv, S!TypeOK
<1>4. req'[r] = [at |-> at, password |-> req[r].password, session |-> req[r].session,
                 ends |-> live]
  BY ZenonT(30), <1>1, <1>3
<1>5. req[r].password \in S!Passwords /\ req[r].session \in Session \cup {None}
  BY <1>1
<1>6. [at |-> at, password |-> req[r].password, session |-> req[r].session, ends |-> live]
        \in [at : S!Phases, password : S!Passwords, session : Session \cup {None},
             ends : SUBSET Session]
  BY <1>2, <1>5
<1>7. req'[r].at = at /\ req'[r].ends = live
  BY <1>4
<1>8. req'[r] \in Requests
  BY <1>4, <1>6 DEF Requests
<1> QED BY <1>7, <1>8 DEF SignInInv, S!TypeOK, Moves, Requests

LEMMA ResetEndKeeps == ASSUME SignInInv, NEW r \in Request, S!ResetEnd(r) PROVE SignInInv'
<1>1. Moves(r) /\ req'[r].at = "resetCommit" /\ req'[r].ends = live
  BY EndMoves DEF S!ResetEnd, Commits
<1>2. req[r].at = "reset"
  BY DEF S!ResetEnd
<1>3. ~resetUsed /\ \A q \in Request \ {r} : req[q].at \notin Resets
  BY <1>2 DEF SignInInv, ResetLocked, Resets
<1> QED BY <1>1, <1>2, <1>3, MoveKeeps DEF S!ResetEnd

LEMMA RemoveEndKeeps == ASSUME SignInInv, NEW r \in Request, S!RemoveEnd(r) PROVE SignInInv'
<1>1. Moves(r) /\ req'[r].at = "removeCommit" /\ req'[r].ends = live
  BY EndMoves DEF S!RemoveEnd, Commits
<1>2. req[r].at = "remove"
  BY DEF S!RemoveEnd
<1> QED BY <1>1, <1>2, MoveKeeps DEF S!RemoveEnd, Resets

----------------------------------------------------------------------------
(***************************************************************************)
(* The steps that write a row.                                             *)
(***************************************************************************)

\* What becomes of the locks when the request holds none and takes none.
LEMMA LocksStay ==
  ASSUME SignInInv, NEW r \in Request, Moves(r), UNCHANGED <<resetUsed, invite, resets, joins>>,
         req'[r].at \notin Resets \cup {"join"}
  PROVE  ResetLocked' /\ JoinLocked'
BY DEF SignInInv, ResetLocked, JoinLocked, Moves

\* A session that is not overtaken starts while no transaction is between its
\* statement and its commit, with the password that is stored.
LEMMA StartKeeps ==
  ASSUME S!SignInAssumption, SignInInv, NEW r \in Request, S!StartSession(r)
  PROVE  SignInInv'
<1> USE DEF SignInInv
<1> DEFINE s == S!NewSession
<1>1. s \in Session /\ s \notin used
  BY DEF S!StartSession, S!NewSession, S!TypeOK
<1>2. /\ live' = live \cup {s} /\ used' = used \cup {s}
      /\ by' = [by EXCEPT ![s] = req[r].password]
      /\ since' = [since EXCEPT ![s] = removals]
      /\ late' = IF req[r].password # password \/ removed \/ S!Ending
                 THEN late \cup {s} ELSE late
      /\ req' = [req EXCEPT ![r] = S!Idle] /\ req[r].at = "start"
      /\ UNCHANGED <<password, removed, unended, resetUsed, invite, removals, resets, joins>>
  BY DEF S!StartSession, S!Over, S!linkVars, S!countVars
<1> HIDE DEF s
<1>3. Moves(r) /\ req'[r].at = "idle"
  BY <1>2 DEF Moves, S!TypeOK, Requests, S!Idle
<1>4. S!TypeOK'
  <2>1. req[r].password \in S!Passwords
    BY <1>2 DEF S!TypeOK, S!Idle
  <2>2. req' \in [Request -> Requests]
    BY <1>3 DEF Moves
  <2> QED BY <1>1, <1>2, <2>1, <2>2 DEF S!TypeOK, Requests
<1>5. live' \ late' \subseteq (live \ late) \cup {s} /\ s \notin live
  BY <1>1, <1>2 DEF S!TypeOK
<1>6. s \in live' \ late' => req[r].password = password /\ ~S!Ending
  BY <1>2
<1>7. Ended'
  <2> SUFFICES ASSUME NEW q \in Request, req'[q].at \in Commits
               PROVE  live' \ late' \subseteq req'[q].ends
    BY DEF Ended
  <2>1. q # r /\ req'[q] = req[q]
    BY <1>3 DEF Moves, Commits
  <2>2. S!Ending
    BY <2>1 DEF S!Ending, Commits
  <2>3. s \notin live' \ late'
    BY <1>6, <2>2
  <2> QED BY <1>5, <2>1, <2>3 DEF Ended
<1>8. S!SessionsEnd'
  <2> SUFFICES ASSUME NEW t \in live' \ late'
               PROVE  /\ since'[t] = removals'
                      /\ \A number \in by'[t] + 1 .. password' : S!Outlives(t, number)'
    BY DEF S!SessionsEnd
  <2>1. CASE t = s
    <3>1. since'[t] = removals' /\ by'[t] = password /\ password \in Nat
      BY <1>1, <1>2, <1>6, <2>1 DEF S!TypeOK, S!Passwords, S!SignInAssumption
    <3> QED BY <1>2, <3>1
  <2>2. CASE t # s
    <3>1. t \in live \ late
      BY <1>5, <2>2
    <3>2. t \in Session /\ since'[t] = since[t] /\ by'[t] = by[t]
      BY <1>2, <2>2, <3>1 DEF S!TypeOK
    <3>3. ASSUME NEW number, S!Outlives(t, number) PROVE S!Outlives(t, number)'
      BY <1>2, <1>3, <3>3 DEF S!Outlives, Moves
    <3> QED BY <1>2, <3>1, <3>2, <3>3 DEF S!SessionsEnd
  <2> QED BY <2>1, <2>2
<1>9. ResetLocked' /\ JoinLocked'
  BY <1>2, <1>3, LocksStay DEF Resets
<1> QED BY <1>4, <1>7, <1>8, <1>9

\* Sessions that end leave the invariant to those that stay.
LEMMA SignOutKeeps == ASSUME SignInInv, S!SignOut PROVE SignInInv'
<1> USE DEF SignInInv
<1>1. /\ live' \subseteq live
      /\ UNCHANGED <<password, removed, used, by, since, late, unended, resetUsed, invite, req,
                     removals, resets, joins>>
  BY DEF S!SignOut, S!linkVars, S!countVars
<1>2. S!TypeOK'
  BY <1>1 DEF S!TypeOK
<1>3. Ended' /\ ResetLocked' /\ JoinLocked'
  BY <1>1 DEF Ended, ResetLocked, JoinLocked
<1>4. S!SessionsEnd'
  BY <1>1 DEF S!SessionsEnd, S!Outlives
<1> QED BY <1>2, <1>3, <1>4

\* From the new password on, the request has every session but its own to end.
LEMMA ChangeSetKeeps ==
  ASSUME S!SignInAssumption, SignInInv, NEW r \in Request, S!ChangeSet(r)
  PROVE  SignInInv'
<1> USE DEF SignInInv
<1> DEFINE u == req[r].session
<1>1. /\ req[r].at = "set" /\ password < MaxPasswords /\ password' = password + 1
      /\ by' = [by EXCEPT ![u] = password']
      /\ req' = [req EXCEPT ![r].at = "others", ![r].password = password']
      /\ UNCHANGED <<removed, live, used, since, late, unended, resetUsed, invite, removals,
                     resets, joins>>
  BY DEF S!ChangeSet, S!linkVars, S!countVars
<1>2. password \in Nat /\ password' \in S!Passwords
  BY <1>1 DEF S!TypeOK, S!Passwords, S!SignInAssumption
<1>3. /\ Moves(r) /\ req'[r].at = "others" /\ req'[r].session = u
      /\ req'[r].password = password'
  <2>1. req[r] \in [at : S!Phases, password : S!Passwords, session : Session \cup {None},
                    ends : SUBSET Session]
    BY <1>1 DEF S!TypeOK, S!Idle
  <2>2. req'[r] = [at |-> "others", password |-> password', session |-> u, ends |-> req[r].ends]
    BY <1>1, <2>1 DEF S!TypeOK
  <2>3. req'[r] \in Requests
    BY <1>2, <2>1, <2>2 DEF Requests, S!Phases
  <2> QED BY <1>1, <2>2, <2>3 DEF Moves, S!TypeOK, Requests
<1> HIDE DEF u
<1>4. S!TypeOK'
  <2>1. req' \in [Request -> Requests]
    BY <1>3 DEF Moves
  <2> QED BY <1>1, <1>2, <2>1 DEF S!TypeOK, Requests
<1>5. Ended'
  BY <1>1, <1>3 DEF Ended, Moves, Commits
<1>6. S!SessionsEnd'
  <2> SUFFICES ASSUME NEW s \in live \ late
               PROVE  /\ since'[s] = removals'
                      /\ \A number \in by'[s] + 1 .. password' : S!Outlives(s, number)'
    BY <1>1 DEF S!SessionsEnd
  <2>1. s \in Session /\ since'[s] = removals' /\ by[s] \in Nat
    BY <1>1 DEF S!SessionsEnd, S!TypeOK, S!Passwords, S!SignInAssumption
  <2>2. CASE s = u
    BY <1>1, <1>2, <2>1, <2>2 DEF S!TypeOK
  <2>3. CASE s # u
    <3> SUFFICES ASSUME NEW number \in by'[s] + 1 .. password' PROVE S!Outlives(s, number)'
      BY <2>1
    <3>1. by'[s] = by[s]
      BY <1>1, <2>1, <2>3 DEF S!TypeOK
    <3>2. CASE number = password'
      BY <1>3, <2>3, <3>2 DEF S!Outlives
    <3>3. CASE number # password'
      <4>1. number \in by[s] + 1 .. password
        BY <1>1, <1>2, <2>1, <3>1, <3>3
      <4>2. S!Outlives(s, number)
        BY <4>1 DEF S!SessionsEnd
      <4> QED BY <1>1, <1>3, <4>2 DEF S!Outlives, Moves
    <3> QED BY <3>2, <3>3
  <2> QED BY <2>2, <2>3
<1>7. ResetLocked' /\ JoinLocked'
  BY <1>1, <1>3, LocksStay DEF Resets
<1> QED BY <1>4, <1>5, <1>6, <1>7

\* What stays of the sessions is the request's own, which it was never about to end.
LEMMA ChangeOthersKeeps == ASSUME SignInInv, NEW r \in Request, S!ChangeOthers(r) PROVE SignInInv'
<1> USE DEF SignInInv
<1>1. /\ req[r].at = "others" /\ live' = live \cap {req[r].session}
      /\ req' = [req EXCEPT ![r] = S!Idle]
      /\ UNCHANGED <<password, removed, used, by, since, late, unended, resetUsed, invite,
                     removals, resets, joins>>
  BY DEF S!ChangeOthers, S!Over, S!linkVars, S!countVars
<1>2. Moves(r) /\ req'[r].at = "idle"
  BY <1>1 DEF Moves, S!TypeOK, Requests, S!Idle
<1>3. S!TypeOK'
  BY <1>1, <1>2 DEF S!TypeOK, Moves, Requests
<1>4. Ended'
  BY <1>1, <1>2 DEF Ended, Moves, Commits
<1>5. S!SessionsEnd'
  <2>1. \A s \in live' \ late : s \in live \ late /\ s = req[r].session
    BY <1>1
  <2> QED BY <1>1, <1>2, <2>1 DEF Moves, S!SessionsEnd, S!Outlives
<1>6. ResetLocked' /\ JoinLocked'
  BY <1>1, <1>2, LocksStay DEF Resets
<1> QED BY <1>3, <1>4, <1>5, <1>6

\* A commit leaves no session but those that were overtaken.
LEMMA ResetCommitKeeps ==
  ASSUME S!SignInAssumption, SignInInv, NEW r \in Request, S!ResetCommit(r)
  PROVE  SignInInv'
<1> USE DEF SignInInv
<1>1. /\ req[r].at = "resetCommit" /\ password < MaxPasswords /\ password' = password + 1
      /\ live' = live \ req[r].ends /\ resetUsed' = TRUE /\ resets' = resets + 1
      /\ req' = [req EXCEPT ![r] = [S!Idle EXCEPT !.at = "start", !.password = password']]
      /\ UNCHANGED <<removed, used, by, since, late, unended, invite, removals, joins>>
  BY DEF S!ResetCommit
<1>2. password' \in S!Passwords
  BY <1>1 DEF S!TypeOK, S!Passwords, S!SignInAssumption
<1>3. Moves(r) /\ req'[r].at = "start"
  BY <1>1, <1>2 DEF Moves, S!TypeOK, Requests, S!Idle, S!Phases
<1>4. S!TypeOK'
  <2>1. req' \in [Request -> Requests] /\ resets' \in Nat
    BY <1>1, <1>3 DEF Moves, S!TypeOK
  <2> QED BY <1>1, <1>2, <2>1 DEF S!TypeOK, Requests
<1>5. live' \ late' = {}
  BY <1>1 DEF Ended, Commits
<1>6. Ended' /\ S!SessionsEnd'
  BY <1>5 DEF Ended, S!SessionsEnd
<1>7. ResetLocked'
  BY <1>1, <1>3 DEF ResetLocked, Resets, Moves
<1>8. JoinLocked'
  BY <1>1, <1>3 DEF JoinLocked, Moves
<1> QED BY <1>4, <1>6, <1>7, <1>8

LEMMA RemoveCommitKeeps ==
  ASSUME S!SignInAssumption, SignInInv, NEW r \in Request, S!RemoveCommit(r)
  PROVE  SignInInv'
<1> USE DEF SignInInv
<1>1. /\ req[r].at = "removeCommit" /\ removals < MaxRemovals
      /\ removed' = TRUE /\ removals' = removals + 1 /\ live' = live \ req[r].ends
      /\ req' = [req EXCEPT ![r] = S!Idle]
      /\ UNCHANGED <<password, used, by, since, late, unended, resetUsed, invite, resets, joins>>
  BY DEF S!RemoveCommit, S!Over, S!linkVars
<1>2. Moves(r) /\ req'[r].at = "idle"
  BY <1>1 DEF Moves, S!TypeOK, Requests, S!Idle
<1>3. S!TypeOK'
  <2>1. req' \in [Request -> Requests] /\ removals' \in 0 .. MaxRemovals
    BY <1>1, <1>2 DEF Moves, S!TypeOK, S!SignInAssumption
  <2> QED BY <1>1, <2>1 DEF S!TypeOK, Requests
<1>4. live' \ late' = {}
  BY <1>1 DEF Ended, Commits
<1>5. Ended' /\ S!SessionsEnd'
  BY <1>4 DEF Ended, S!SessionsEnd
<1>6. ResetLocked' /\ JoinLocked'
  BY <1>1, <1>2, LocksStay DEF Resets
<1> QED BY <1>3, <1>5, <1>6

LEMMA JoinCommitKeeps ==
  ASSUME S!SignInAssumption, SignInInv, NEW r \in Request, S!JoinCommit(r)
  PROVE  SignInInv'
<1> USE DEF SignInInv
<1>1. /\ req[r].at = "join" /\ invite' = [invite EXCEPT !.uses = @ + 1] /\ joins' = joins + 1
      /\ req' = [req EXCEPT ![r] = S!Idle]
      /\ UNCHANGED <<password, removed, live, used, by, since, late, unended, resetUsed, removals,
                     resets>>
  BY DEF S!JoinCommit, S!Over, S!sessionVars
<1>2. Moves(r) /\ req'[r].at = "idle"
  BY <1>1 DEF Moves, S!TypeOK, Requests, S!Idle
<1>3. invite.uses \in 0 .. MaxUses /\ invite.uses < MaxUses /\ invite'.uses = invite.uses + 1
  BY <1>1 DEF S!TypeOK, JoinLocked
<1>4. S!TypeOK'
  <2>1. invite' \in [uses : 0 .. MaxUses, revoked : BOOLEAN] /\ joins' \in Nat
    BY <1>1, <1>3 DEF S!TypeOK, S!SignInAssumption
  <2>2. req' \in [Request -> Requests]
    BY <1>2 DEF Moves
  <2> QED BY <1>1, <2>1, <2>2 DEF S!TypeOK, Requests
<1>5. Ended'
  BY <1>1, <1>2 DEF Ended, Moves, Commits
<1>6. S!SessionsEnd'
  BY <1>1, <1>2 DEF S!SessionsEnd, S!Outlives, Moves
<1>7. ResetLocked'
  BY <1>1, <1>2 DEF ResetLocked, Resets, Moves
<1>8. JoinLocked'
  BY <1>1, <1>2, <1>3 DEF JoinLocked, Moves
<1> QED BY <1>4, <1>5, <1>6, <1>7, <1>8

LEMMA RevokeInviteKeeps == ASSUME SignInInv, S!RevokeInvite PROVE SignInInv'
<1> USE DEF SignInInv
<1>1. /\ invite' = [invite EXCEPT !.revoked = TRUE]
      /\ UNCHANGED <<password, removed, live, used, by, since, late, unended, resetUsed, req,
                     removals, resets, joins>>
  BY DEF S!RevokeInvite, S!sessionVars, S!countVars
<1>2. S!TypeOK'
  BY <1>1 DEF S!TypeOK
<1>3. Ended' /\ S!SessionsEnd' /\ ResetLocked'
  BY <1>1 DEF Ended, S!SessionsEnd, S!Outlives, ResetLocked
<1>4. JoinLocked'
  BY <1>1 DEF JoinLocked, S!TypeOK
<1> QED BY <1>2, <1>3, <1>4

LEMMA RestoreKeeps == ASSUME SignInInv, S!Restore PROVE SignInInv'
<1> USE DEF SignInInv
<1>1. /\ removed' = FALSE
      /\ UNCHANGED <<password, live, used, by, since, late, unended, resetUsed, invite, req,
                     removals, resets, joins>>
  BY DEF S!Restore, S!sessionVars, S!linkVars, S!countVars
<1>2. S!TypeOK'
  BY <1>1 DEF S!TypeOK
<1>3. S!SessionsEnd'
  BY <1>1 DEF S!SessionsEnd, S!Outlives
<1> QED BY <1>1, <1>2, <1>3 DEF Ended, ResetLocked, JoinLocked

\* A request that fails gives up its locks, and a password whose other sessions it was
\* about to end is among those that were left unended.
LEMMA FailKeeps == ASSUME SignInInv, NEW r \in Request, S!Fail(r) PROVE SignInInv'
<1> USE DEF SignInInv
<1>1. /\ req[r].at # "idle" /\ req' = [req EXCEPT ![r] = S!Idle]
      /\ unended' = IF req[r].at = "others" THEN unended \cup {req[r].password} ELSE unended
      /\ UNCHANGED <<password, removed, live, used, by, since, late, resetUsed, invite,
                     removals, resets, joins>>
  BY DEF S!Fail, S!Over, S!linkVars, S!countVars
<1>2. Moves(r) /\ req'[r].at = "idle"
  BY <1>1 DEF Moves, S!TypeOK, Requests, S!Idle
<1>3. S!TypeOK'
  <2>1. req[r].password \in S!Passwords
    BY <1>1 DEF S!TypeOK, S!Idle
  <2>2. req' \in [Request -> Requests] /\ unended' \subseteq S!Passwords
    BY <1>1, <1>2, <2>1 DEF Moves, S!TypeOK
  <2> QED BY <1>1, <2>2 DEF S!TypeOK, Requests
<1>4. Ended'
  BY <1>1, <1>2 DEF Ended, Moves, Commits
<1>5. S!SessionsEnd'
  <2>1. ASSUME NEW s, NEW number, S!Outlives(s, number) PROVE S!Outlives(s, number)'
    BY <1>1, <1>2, <2>1 DEF S!Outlives, Moves
  <2> QED BY <1>1, <2>1 DEF S!SessionsEnd
<1>6. ResetLocked' /\ JoinLocked'
  BY <1>1, <1>2, LocksStay DEF Resets
<1> QED BY <1>3, <1>4, <1>5, <1>6

LEMMA SignInStep == ASSUME S!SignInAssumption, SignInInv, [S!Next]_(S!vars) PROVE SignInInv'
<1>1. CASE UNCHANGED S!vars
  BY <1>1 DEF S!vars, S!sessionVars, S!linkVars, S!countVars, SignInInv, S!TypeOK, Ended,
              S!SessionsEnd, S!Outlives, ResetLocked, JoinLocked
<1>2. ASSUME NEW r \in Request, S!RequestStep(r) PROVE SignInInv'
  BY <1>2, VerifyKeeps, StartKeeps, ChangeVerifyKeeps, ChangeSetKeeps, ChangeOthersKeeps,
     ResetClaimKeeps, ResetEndKeeps, ResetCommitKeeps, JoinKeeps, JoinCommitKeeps, RemoveKeeps,
     RemoveEndKeeps, RemoveCommitKeeps, FailKeeps DEF S!RequestStep
<1> QED BY <1>1, <1>2, SignOutKeeps, RevokeInviteKeeps, RestoreKeeps DEF S!Next

\* Every reachable state satisfies the inductive invariant.
THEOREM SignInHolds == ASSUME S!SignInAssumption PROVE S!Spec => []SignInInv
<1>1. S!Init => SignInInv
  BY SignInInit
<1>2. SignInInv /\ [S!Next]_(S!vars) => SignInInv'
  BY SignInStep
<1> QED BY <1>1, <1>2, PTL DEF S!Spec

----------------------------------------------------------------------------
(***************************************************************************)
(* The theorems.                                                           *)
(***************************************************************************)

\* Every variable keeps its type, for any number of sessions and requests.
THEOREM SignInTypes == ASSUME S!SignInAssumption PROVE S!Spec => []S!TypeOK
<1>1. SignInInv => S!TypeOK
  BY DEF SignInInv
<1> QED BY SignInHolds, <1>1, PTL

\* A reset and a removal end every session there was, and a change of the password
\* every session but its own, whatever requests run at once and fail. What is left is
\* of an overtaken sign-in, or outlives a change whose second statement has yet to run
\* or never will (acceptReset, disableMember, auth.ts).
THEOREM SessionsDoEnd == ASSUME S!SignInAssumption PROVE S!Spec => []S!SessionsEnd
<1>1. SignInInv => S!SessionsEnd
  BY DEF SignInInv
<1> QED BY SignInHolds, <1>1, PTL

\* A reset link resets once and an invite lets in as many as it is for, whoever
\* uses it at the same time (claimLink).
THEOREM LinksCount == ASSUME S!SignInAssumption PROVE S!Spec => []S!LinksAreCounted
<1>1. SignInInv => S!LinksAreCounted
  BY DEF SignInInv, S!TypeOK, ResetLocked, JoinLocked, S!LinksAreCounted
<1> QED BY SignInHolds, <1>1, PTL

-----------------------------------------------------------------------------
(***************************************************************************)
(* ShareLinks: a share map ends in time and lasts as long as it may, its   *)
(* expiry lies on the grid, and no slot is minted twice while it is valid. *)
(***************************************************************************)

----------------------------------------------------------------------------
(***************************************************************************)
(* Rounding to the grid.                                                   *)
(***************************************************************************)

\* Rounding down loses less than a step, and gives a point of the grid.
LEMMA DownBounds ==
    ASSUME K!ShareAssumption, NEW t \in Nat
    PROVE  K!Down(t) \in Nat /\ K!Down(t) <= t /\ t < K!Down(t) + Grid /\ K!Down(t) % Grid = 0
<1>1. Grid \in Nat \ {0}
    BY DEF K!ShareAssumption
<1>2. \A g \in Nat \ {0} :
        /\ t \div g \in Nat
        /\ (t \div g) * g <= t /\ t < (t \div g) * g + g
    BY SMTT(20)
<1>3. \A g \in Nat \ {0}, k \in Nat : (k * g) % g = 0 /\ k * g \in Nat
    BY SMTT(20)
<1>4. QED
    BY <1>1, <1>2, <1>3 DEF K!Down

\* Rounding up adds less than a step, and gives a point of the grid.
LEMMA UpBounds ==
    ASSUME K!ShareAssumption, NEW t \in Nat
    PROVE  K!Up(t) \in Nat /\ t <= K!Up(t) /\ K!Up(t) < t + Grid /\ K!Up(t) % Grid = 0
<1>1. Grid \in Nat \ {0}
    BY DEF K!ShareAssumption
<1>2. t + Grid - 1 \in Nat
    BY <1>1
<1>3. K!Up(t) = K!Down(t + Grid - 1)
    BY DEF K!Up, K!Down
<1>4. /\ K!Down(t + Grid - 1) \in Nat /\ K!Down(t + Grid - 1) <= t + Grid - 1
      /\ t + Grid - 1 < K!Down(t + Grid - 1) + Grid /\ K!Down(t + Grid - 1) % Grid = 0
    BY <1>2, DownBounds
<1>5. QED
    BY <1>1, <1>3, <1>4

\* shareExpirySec: never past the limit; as long as was asked for, or to within a step
\* of the limit; MinLeft seconds, or to the limit; and on the grid unless the limit is
\* close.
LEMMA ExpiryBounds ==
    ASSUME K!ShareAssumption,
           NEW at \in Nat, NEW asked \in Nat, NEW bound \in Nat,
           asked >= MinLeft
    PROVE  LET e == K!ShareExpiry(at, asked, bound) IN
           /\ e \in Nat
           /\ e <= bound
           /\ e >= K!Least(at + asked, bound - Grid + 1)
           /\ e >= K!Least(at + MinLeft, bound)
           /\ bound >= at + MinLeft + Grid => e % Grid = 0
<1>1. Grid \in Nat \ {0} /\ MinLeft \in Nat
    BY DEF K!ShareAssumption
<1>2. /\ K!Up(at + asked) \in Nat /\ at + asked <= K!Up(at + asked)
      /\ K!Up(at + asked) % Grid = 0
    BY UpBounds
<1>3. /\ K!Down(bound) \in Nat /\ K!Down(bound) <= bound /\ bound < K!Down(bound) + Grid
      /\ K!Down(bound) % Grid = 0
    BY DownBounds
<1>4. CASE K!Up(at + asked) <= bound
    BY <1>1, <1>2, <1>4 DEF K!ShareExpiry, K!Least
<1>5. CASE ~(K!Up(at + asked) <= bound) /\ K!Down(bound) >= at + MinLeft
    BY <1>1, <1>3, <1>5 DEF K!ShareExpiry, K!Least
<1>6. CASE ~(K!Up(at + asked) <= bound) /\ ~(K!Down(bound) >= at + MinLeft)
    BY <1>1, <1>3, <1>6 DEF K!ShareExpiry, K!Least
<1>7. QED
    BY <1>4, <1>5, <1>6

----------------------------------------------------------------------------
(***************************************************************************)
(* The inductive invariant.                                                *)
(***************************************************************************)

\* A request that is let in may have MinLeft seconds, and no more than its signature.
Bounded ==
    \A r \in Request : sharePc[r] # "new" =>
        /\ lifetime[r] >= MinLeft
        /\ gated[r] => limit[r] <= signedTo[r]

\* The slot a request looked for is the rounding of what it may have.
Rounded ==
    \A r \in Request : K!Looked(r) =>
        slot[r] = K!ShareExpiry(looked[r], lifetime[r], limit[r])

\* A map that was minted is kept for as long as it is valid.
ValidKept == \A s \in minted : s > shareTime => s \in kept

ShareInv == K!TypeOK /\ Bounded /\ Rounded /\ ValidKept /\ K!SlotsAreMintedOnce

----------------------------------------------------------------------------
(***************************************************************************)
(* It holds in the beginning, and every step keeps it.                     *)
(***************************************************************************)
LEMMA ShareInit == ASSUME K!ShareAssumption PROVE K!Init => ShareInv
<1>1. SUFFICES ASSUME K!Init PROVE ShareInv
    OBVIOUS
<1>2. 0 \in K!Seconds /\ 0 \in 0 .. ShareEnd
    BY DEF K!Seconds, K!ShareAssumption
<1>3. K!TypeOK
    BY <1>1, <1>2 DEF K!Init, K!TypeOK, K!Zero
<1>4. Bounded /\ Rounded /\ ValidKept /\ K!SlotsAreMintedOnce
    BY <1>1 DEF K!Init, Bounded, Rounded, K!Looked, ValidKept, K!SlotsAreMintedOnce
<1>5. QED
    BY <1>3, <1>4 DEF ShareInv

\* The clock moves on, and drops the maps that end.
LEMMA TickInv == ASSUME K!ShareAssumption, ShareInv, K!Tick PROVE ShareInv'
<1>1. K!TypeOK'
  <2>1. shareTime \in 0 .. ShareEnd /\ shareTime < ShareEnd /\ shareTime' = shareTime + 1 /\ ShareEnd \in Nat
      BY DEF ShareInv, K!TypeOK, K!Tick, K!ShareAssumption
  <2>2. shareTime' \in 0 .. ShareEnd
      BY <2>1
  <2>3. kept' \subseteq kept
      BY DEF K!Tick
  <2>4. QED
      BY <2>2, <2>3 DEF ShareInv, K!TypeOK, K!Tick, K!requestVars
<1>2. Bounded' /\ Rounded' /\ K!SlotsAreMintedOnce'
    BY DEF ShareInv, K!Tick, K!requestVars, Bounded, Rounded, K!Looked, K!SlotsAreMintedOnce
<1>3. ValidKept'
  <2>1. SUFFICES ASSUME NEW s \in minted', s > shareTime' PROVE s \in kept'
      BY DEF ValidKept
  <2>2. s \in minted /\ s \in Nat /\ shareTime \in Nat /\ shareTime' = shareTime + 1
      BY <2>1 DEF ShareInv, K!TypeOK, K!Tick, K!Seconds, K!ShareAssumption
  <2>3. s > shareTime
      BY <2>1, <2>2
  <2>4. s \in kept
      BY <2>2, <2>3 DEF ShareInv, ValidKept
  <2>5. QED
      BY <2>1, <2>4 DEF K!Tick
<1>4. QED
    BY <1>1, <1>2, <1>3 DEF ShareInv

\* A request is let in: what it may have is no less than MinLeft, since neither the
\* least lifetime nor a cap is, and its limit is bounded by its signature.
LEMMA ArriveInv ==
    ASSUME K!ShareAssumption, ShareInv,
           NEW r \in Request, NEW g \in BOOLEAN,
           NEW signed \in shareTime .. shareTime + SignedCap, NEW wanted \in Lifetimes,
           K!Arrive(r, g, signed, wanted)
    PROVE  ShareInv'
<1> DEFINE asked == IF wanted = 0 THEN DefaultAsk ELSE wanted
           life == K!Least(K!Greatest(asked, MinAsk), K!TierCap(g))
           bound == IF g THEN K!Least(shareTime + K!TierCap(g), signed) ELSE shareTime + K!TierCap(g)
           ends == IF g THEN signed ELSE 0
<1>1. /\ wanted \in Int /\ asked \in Int /\ shareTime \in 0 .. ShareEnd /\ signed \in Nat
      /\ signed <= shareTime + SignedCap
      /\ {MinLeft, MinAsk, Cap, GatedCap, SignedCap, ShareEnd} \subseteq Nat
      /\ MinLeft <= MinAsk /\ MinAsk <= GatedCap /\ GatedCap <= Cap
    BY DEF K!ShareAssumption, ShareInv, K!TypeOK
<1>2. K!TierCap(g) \in Nat /\ MinLeft <= K!TierCap(g) /\ K!TierCap(g) <= Cap
    BY <1>1 DEF K!TierCap
<1>3. life \in Nat /\ life >= MinLeft /\ life <= Cap
    BY <1>1, <1>2 DEF K!Least, K!Greatest
<1>4. bound \in Nat /\ bound <= ShareEnd + Cap /\ (g => bound <= ends)
    BY <1>1, <1>2 DEF K!Least
<1>5. life \in K!Seconds /\ bound \in K!Seconds /\ ends \in K!Seconds
    BY <1>1, <1>3, <1>4 DEF K!Seconds
<1>6. /\ lifetime' = [lifetime EXCEPT ![r] = life]
      /\ limit' = [limit EXCEPT ![r] = bound]
      /\ signedTo' = [signedTo EXCEPT ![r] = ends]
      /\ gated' = [gated EXCEPT ![r] = g]
      /\ sharePc' = [sharePc EXCEPT ![r] = "bounded"]
      /\ UNCHANGED <<shareTime, looked, slot, kept, minting, minted, again>>
    BY DEF K!Arrive
<1> HIDE DEF asked, life, bound, ends
<1>7. K!TypeOK'
    BY <1>5, <1>6 DEF ShareInv, K!TypeOK
<1>8. Bounded'
    BY <1>3, <1>4, <1>6 DEF ShareInv, K!TypeOK, Bounded
<1>9. Rounded' /\ ValidKept' /\ K!SlotsAreMintedOnce'
    BY <1>6 DEF ShareInv, K!TypeOK, Rounded, K!Looked, ValidKept, K!SlotsAreMintedOnce
<1>10. QED
    BY <1>7, <1>8, <1>9 DEF ShareInv

\* A request looks for its map, which is rounded as its slot says; it has the map minted
\* only when it is neither kept, so not valid, nor being minted.
LEMMA LookInv == ASSUME K!ShareAssumption, ShareInv, NEW r \in Request, K!Look(r) PROVE ShareInv'
<1> DEFINE s == K!ShareExpiry(shareTime, lifetime[r], limit[r])
<1>1. /\ sharePc[r] = "bounded"
      /\ slot' = [slot EXCEPT ![r] = s]
      /\ looked' = [looked EXCEPT ![r] = shareTime]
      /\ sharePc' = [sharePc EXCEPT ![r] = IF s \in kept THEN "answered" ELSE "waiting"]
      /\ UNCHANGED <<shareTime, gated, signedTo, lifetime, limit, kept, minted>>
    BY DEF K!Look
<1>2. \/ UNCHANGED <<minting, again>>
      \/ /\ s \notin kept /\ s \notin minting
         /\ minting' = minting \cup {s}
         /\ again' = (again \/ s \in minting \/ (s \in minted /\ s > shareTime))
    BY DEF K!Look, K!Pending
<1>3. shareTime \in Nat /\ shareTime \in K!Seconds /\ lifetime[r] \in Nat /\ limit[r] \in K!Seconds
    BY DEF K!ShareAssumption, ShareInv, K!TypeOK, K!Seconds
<1>4. lifetime[r] >= MinLeft
    BY <1>1 DEF ShareInv, Bounded
<1>5. limit[r] \in Nat
    BY <1>3 DEF K!Seconds
<1>6. s \in Nat /\ s <= limit[r]
    BY <1>3, <1>4, <1>5, ExpiryBounds
<1>7. s \in K!Seconds
    BY <1>3, <1>6 DEF K!Seconds, K!ShareAssumption
<1> HIDE DEF s
<1>8. K!TypeOK'
  <2>1. minting' \subseteq K!Seconds
      BY <1>2, <1>7 DEF ShareInv, K!TypeOK
  <2>2. again' \in BOOLEAN
      BY <1>2 DEF ShareInv, K!TypeOK
  <2>3. /\ sharePc' \in [Request -> {"new", "bounded", "waiting", "answered", "failed"}]
        /\ slot' \in [Request -> K!Seconds] /\ looked' \in [Request -> K!Seconds]
      BY <1>1, <1>3, <1>7 DEF ShareInv, K!TypeOK
  <2>4. QED
      BY <1>1, <2>1, <2>2, <2>3 DEF ShareInv, K!TypeOK
<1>9. Bounded'
    BY <1>1 DEF ShareInv, K!TypeOK, Bounded
<1>10. Rounded'
  <2>1. SUFFICES ASSUME NEW q \in Request, K!Looked(q)'
                 PROVE  slot'[q] = K!ShareExpiry(looked'[q], lifetime'[q], limit'[q])
      BY DEF Rounded, K!ShareExpiry, K!Up, K!Down
  <2>2. CASE q = r
      BY <1>1, <2>2 DEF s, ShareInv, K!TypeOK
  <2>3. CASE q # r
    <3>1. sharePc'[q] = sharePc[q] /\ slot'[q] = slot[q] /\ looked'[q] = looked[q]
        BY <1>1, <2>3 DEF ShareInv, K!TypeOK
    <3>2. K!Looked(q)
        BY <2>1, <3>1 DEF K!Looked
    <3>3. QED
        BY <1>1, <3>1, <3>2 DEF ShareInv, Rounded
  <2>4. QED
      BY <2>2, <2>3
<1>11. ValidKept'
    BY <1>1 DEF ShareInv, ValidKept
<1>12. K!SlotsAreMintedOnce'
    BY <1>2 DEF ShareInv, ValidKept, K!SlotsAreMintedOnce
<1>13. QED
    BY <1>8, <1>9, <1>10, <1>11, <1>12 DEF ShareInv

\* A mint is over, and all who waited for it go on; the slots stay as they are.
LEMMA EndsInv ==
    ASSUME K!ShareAssumption, ShareInv, NEW s \in minting, NEW how \in {"answered", "failed"},
           K!Ends(s, how), UNCHANGED <<gated, signedTo, lifetime, limit, looked, slot>>
    PROVE  /\ sharePc' \in [Request -> {"new", "bounded", "waiting", "answered", "failed"}]
           /\ Bounded' /\ Rounded'
<1>1. sharePc' \in [Request -> {"new", "bounded", "waiting", "answered", "failed"}]
    BY DEF ShareInv, K!TypeOK, K!Ends
<1>2. \A r \in Request : sharePc'[r] # "new" => sharePc[r] # "new"
    BY DEF ShareInv, K!TypeOK, K!Ends
<1>3. \A r \in Request : K!Looked(r)' => K!Looked(r)
    BY DEF ShareInv, K!TypeOK, K!Ends, K!Looked
<1>4. Bounded'
    BY <1>2 DEF ShareInv, Bounded
<1>5. Rounded'
    BY <1>3 DEF ShareInv, Rounded, K!ShareExpiry, K!Up, K!Down
<1>6. QED
    BY <1>1, <1>4, <1>5

LEMMA MintEndsInv == ASSUME K!ShareAssumption, ShareInv, NEW s \in minting, K!MintEnds(s) PROVE ShareInv'
<1>1. /\ sharePc' \in [Request -> {"new", "bounded", "waiting", "answered", "failed"}]
      /\ Bounded' /\ Rounded'
    BY EndsInv DEF K!MintEnds
<1>2. K!TypeOK'
    BY <1>1 DEF ShareInv, K!TypeOK, K!MintEnds
<1>3. ValidKept' /\ K!SlotsAreMintedOnce'
    BY DEF ShareInv, ValidKept, K!SlotsAreMintedOnce, K!MintEnds
<1>4. QED
    BY <1>1, <1>2, <1>3 DEF ShareInv

LEMMA MintFailsInv == ASSUME K!ShareAssumption, ShareInv, NEW s \in minting, K!MintFails(s) PROVE ShareInv'
<1>1. /\ sharePc' \in [Request -> {"new", "bounded", "waiting", "answered", "failed"}]
      /\ Bounded' /\ Rounded'
    BY EndsInv DEF K!MintFails
<1>2. K!TypeOK'
    BY <1>1 DEF ShareInv, K!TypeOK, K!MintFails
<1>3. ValidKept' /\ K!SlotsAreMintedOnce'
    BY DEF ShareInv, ValidKept, K!SlotsAreMintedOnce, K!MintFails
<1>4. QED
    BY <1>1, <1>2, <1>3 DEF ShareInv

LEMMA ShareStep == ASSUME K!ShareAssumption, ShareInv, [K!Next]_(K!vars) PROVE ShareInv'
<1>1. CASE K!Tick
    BY <1>1, TickInv
<1>2. CASE \E r \in Request, wanted \in Lifetimes, g \in BOOLEAN,
              signed \in shareTime .. shareTime + SignedCap : K!Arrive(r, g, signed, wanted)
    BY <1>2, ArriveInv
<1>3. CASE \E r \in Request : K!Look(r)
    BY <1>3, LookInv
<1>4. CASE \E s \in minting : K!MintEnds(s) \/ K!MintFails(s)
    BY <1>4, MintEndsInv, MintFailsInv
<1>5. CASE UNCHANGED K!vars
    BY <1>5 DEF ShareInv, K!TypeOK, Bounded, Rounded, K!Looked, ValidKept, K!SlotsAreMintedOnce, K!vars,
                K!requestVars
<1>6. QED
    BY <1>1, <1>2, <1>3, <1>4, <1>5 DEF K!Next

----------------------------------------------------------------------------
(***************************************************************************)
(* The theorems.                                                           *)
(***************************************************************************)

\* What the invariant says of the slots is what the properties say.
LEMMA InvShares == ASSUME K!ShareAssumption, ShareInv PROVE K!SharesLast
<1>1. SUFFICES ASSUME NEW r \in Request, K!Looked(r)
               PROVE  /\ slot[r] <= limit[r]
                      /\ gated[r] => slot[r] <= signedTo[r]
                      /\ slot[r] >= K!Least(looked[r] + lifetime[r], limit[r] - Grid + 1)
                      /\ slot[r] >= K!Least(looked[r] + MinLeft, limit[r])
                      /\ limit[r] >= looked[r] + MinLeft + Grid => slot[r] % Grid = 0
    BY DEF ShareInv, K!SharesLast, K!SharesEndInTime, K!ExpiriesAreFew
<1>2. looked[r] \in Nat /\ lifetime[r] \in Nat /\ limit[r] \in Nat /\ signedTo[r] \in Nat
    BY DEF ShareInv, K!TypeOK, K!Seconds, K!ShareAssumption
<1>3. lifetime[r] >= MinLeft /\ (gated[r] => limit[r] <= signedTo[r])
    BY <1>1 DEF ShareInv, Bounded, K!Looked
<1>4. slot[r] = K!ShareExpiry(looked[r], lifetime[r], limit[r])
    BY <1>1 DEF ShareInv, Rounded
<1>5. /\ slot[r] \in Nat /\ slot[r] <= limit[r]
      /\ slot[r] >= K!Least(looked[r] + lifetime[r], limit[r] - Grid + 1)
      /\ slot[r] >= K!Least(looked[r] + MinLeft, limit[r])
      /\ limit[r] >= looked[r] + MinLeft + Grid => slot[r] % Grid = 0
    BY ZenonT(30), <1>2, <1>3, <1>4, ExpiryBounds
<1>6. QED
    BY <1>2, <1>3, <1>5

\* Every variable keeps its type: no expiry is ever past the clock and the caps.
THEOREM ShareTypes == ASSUME K!ShareAssumption PROVE K!Spec => []K!TypeOK
<1>1. K!Init => ShareInv
    BY ShareInit
<1>2. ShareInv /\ [K!Next]_(K!vars) => ShareInv'
    BY ShareStep
<1>3. ShareInv => K!TypeOK
    BY DEF ShareInv
<1>4. QED
    BY <1>1, <1>2, <1>3, PTL DEF K!Spec

\* A share map ends in time and lasts as long as it may, its expiry lies on the grid, and
\* no map is minted while it is being minted or valid.
THEOREM SharesAreRight == ASSUME K!ShareAssumption PROVE K!Spec => []K!SharesLast
<1>1. K!Init => ShareInv
    BY ShareInit
<1>2. ShareInv /\ [K!Next]_(K!vars) => ShareInv'
    BY ShareStep
<1>3. ShareInv => K!SharesLast
    BY InvShares
<1>4. QED
    BY <1>1, <1>2, <1>3, PTL DEF K!Spec

----------------------------------------------------------------------------
(***************************************************************************)
(* Shutdown.                                                               *)
(*                                                                         *)
(* A play that was counted is in the buffer, in a batch that is written,   *)
(* or told. What has drained stays drained, so that after the last flush   *)
(* only a client that had gone away can add to the buffer.                 *)
(***************************************************************************)

PlaysAreSomewhere == \A r \in counted : r \in buffer \/ r \in told \/ \E b \in writing : r \in b

Drains ==
    /\ exit = "none" <=> phase # "over"
    /\ httpDone \/ jobsDone => phase # "up"
    /\ httpDone => \A r \in Request : ~conn[r]
    /\ jobsDone => \A j \in Job : jobAt[j] # "running"
    /\ phase \in {"queues", "plays", "database"} \/ exit = "clean" => httpDone /\ jobsDone

LastFlush ==
    /\ phase \in {"plays", "database"} \/ exit = "clean" => buffer \subseteq unheard
    /\ exit = "clean" => writing = {}

ShutdownInv == X!TypeOK /\ PlaysAreSomewhere /\ Drains /\ LastFlush

LEMMA ShutdownInit == X!Init => ShutdownInv
BY DEF X!Init, ShutdownInv, X!TypeOK, X!Phases, PlaysAreSomewhere, Drains, LastFlush

\* A request comes, counts, is answered or loses its client.
LEMMA RequestDrains ==
    ASSUME ShutdownInv, NEW r \in Request,
           X!Arrive(r) \/ X!Count(r) \/ X!Answer(r) \/ X!GoAway(r)
    PROVE  ShutdownInv'
<1> USE DEF ShutdownInv, X!TypeOK, X!Phases
<1>1. X!TypeOK'
    BY DEF X!Arrive, X!Count, X!Answer, X!GoAway, X!plays, X!work
<1>2. PlaysAreSomewhere'
    BY DEF X!Arrive, X!Count, X!Answer, X!GoAway, X!plays, X!work, PlaysAreSomewhere
<1>3. Drains'
    BY DEF X!Arrive, X!Count, X!Answer, X!GoAway, X!plays, X!work, X!Running, Drains
<1>4. LastFlush'
    BY DEF X!Arrive, X!Count, X!Answer, X!GoAway, X!plays, X!work, X!Running, Drains, LastFlush
<1> QED BY <1>1, <1>2, <1>3, <1>4

LEMMA JobDrains ==
    ASSUME ShutdownInv, NEW j \in Job, X!TakeJob(j) \/ X!EndJob(j) PROVE ShutdownInv'
BY DEF ShutdownInv, X!TypeOK, X!Phases, X!TakeJob, X!EndJob, X!plays, X!Running,
       PlaysAreSomewhere, Drains, LastFlush

\* The buffer becomes a batch, a batch is written.
LEMMA PlaysDrain ==
    ASSUME ShutdownInv, X!Flush \/ X!QueuesClose \/ \E b \in writing : X!Written(b)
    PROVE  ShutdownInv'
<1> USE DEF ShutdownInv, X!TypeOK, X!Phases, X!work, X!Running
<1>1. CASE X!Flush
    BY <1>1 DEF X!Flush, X!Swap, PlaysAreSomewhere, Drains, LastFlush
<1>2. CASE X!QueuesClose
    BY <1>2 DEF X!QueuesClose, X!StopCounter, X!Swap, PlaysAreSomewhere, Drains, LastFlush
<1>3. ASSUME NEW b \in writing, X!Written(b) PROVE ShutdownInv'
    BY <1>3 DEF X!Written, PlaysAreSomewhere, Drains, LastFlush
<1> QED BY <1>1, <1>2, <1>3

LEMMA CloseDrains ==
    ASSUME ShutdownInv,
           \/ \E crash \in BOOLEAN : X!Begin(crash)
           \/ X!HttpCloses \/ X!WorkersClose \/ X!Drained \/ X!CounterStopped
           \/ X!DatabaseCloses \/ X!GiveUp
    PROVE  ShutdownInv'
<1> USE DEF ShutdownInv, X!TypeOK, X!Phases, X!work, X!plays, X!Running, PlaysAreSomewhere,
            Drains, LastFlush
<1>1. ASSUME NEW crash \in BOOLEAN, X!Begin(crash) PROVE ShutdownInv'
    BY <1>1 DEF X!Begin
<1>2. CASE X!HttpCloses
    BY <1>2 DEF X!HttpCloses
<1>3. CASE X!WorkersClose
    BY <1>3 DEF X!WorkersClose
<1>4. CASE X!Drained \/ X!CounterStopped
    BY <1>4 DEF X!Drained, X!CounterStopped
<1>5. CASE X!DatabaseCloses \/ X!GiveUp
    BY <1>5 DEF X!DatabaseCloses, X!GiveUp
<1> QED BY <1>1, <1>2, <1>3, <1>4, <1>5

LEMMA ShutdownStep == ShutdownInv /\ [X!Next]_(X!vars) => ShutdownInv'
<1>1. SUFFICES ASSUME ShutdownInv, [X!Next]_(X!vars) PROVE ShutdownInv'
    OBVIOUS
<1>2. CASE UNCHANGED X!vars
    BY <1>1, <1>2 DEF X!vars, X!plays, X!work, ShutdownInv, X!TypeOK, PlaysAreSomewhere,
                      Drains, LastFlush
<1>3. CASE X!Next
    BY <1>1, <1>3, RequestDrains, JobDrains, PlaysDrain, CloseDrains DEF X!Next
<1> QED BY <1>1, <1>2, <1>3

\* A clean exit loses no play but one whose client had gone, and what a client or a job
\* waits for is open: for any number of requests and jobs.
LEMMA ShutdownIsRight == ShutdownInv => X!PlaysAreTold /\ X!WorkFindsItOpen
BY DEF ShutdownInv, X!TypeOK, X!Phases, PlaysAreSomewhere, Drains, LastFlush, X!PlaysAreTold,
       X!WorkFindsItOpen

\* An orderly shutdown tells every play (stopServer, playCounter.stop) and closes the
\* queues and the database after those that use them.
THEOREM ShutdownLosesNothing == X!Spec => [](X!PlaysAreTold /\ X!WorkFindsItOpen)
BY ShutdownInit, ShutdownStep, ShutdownIsRight, PTL DEF X!Spec

----------------------------------------------------------------------------
(***************************************************************************)
(* AccessCache.                                                            *)
(*                                                                         *)
(* A query takes no longer than QueryTime, so that what it read was true   *)
(* no longer ago than that: of the answers on their way, of the cached     *)
(* state and of the cached owners. A request that is about to decide does  *)
(* so before time passes.                                                  *)
(***************************************************************************)
Asking == {"ask_object", "ask_asset", "got_object", "got_asset"}
Answered == {"got_object", "got_asset"}

CacheTypes ==
    /\ A!TypeOK
    /\ versions \in Seq([kind : A!Kind, from : Nat])
    /\ \A r \in Request : asking[r] \in Asking => cacheTime - began[r] <= QueryTime

\* A version that was replaced is known as long as a query takes, and as the cache keeps it.
Fresh ==
    /\ \A r \in Request :
          asking[r] \in Answered /\ result[r].version \in 1 .. A!Row - 1
              => began[r] <= A!Replaced(result[r].version)
    /\ cached # None /\ cached.version \in 1 .. A!Row - 1
          => cached.at - A!Replaced(cached.version) <= QueryTime
    /\ A!DecidesFresh

Gone == versions[A!Row].kind = "gone"

\* That the object is claimed is known only once it is; that there is no asset, only once it
\* is gone.
Seen ==
    /\ \A r \in Request : result[r].claimed => claimedAt # None
    /\ owners # None /\ owners.claimed => claimedAt # None
    /\ \A r \in Request :
          /\ asking[r] \in {"ask_asset", "got_asset"} => result[r].claimed
          /\ asking[r] \in Answered /\ result[r].claimed /\ result[r].version = 0 => Gone
    /\ cached # None /\ cached.version = 0 => Gone

\* That it is unclaimed was read by a query that had begun before the claim.
Unclaimed ==
    /\ \A r \in Request :
          asking[r] = "got_object" /\ ~result[r].claimed /\ A!Claimed => began[r] <= claimedAt
    /\ owners # None /\ ~owners.claimed =>
          /\ owners.ttl = UnclaimedTTL
          /\ A!Claimed => owners.at - claimedAt <= QueryTime

Deciding ==
    \A r \in Request : asking[r] = "decide" =>
        /\ ~result[r].claimed /\ A!Claimed => cacheTime - claimedAt <= UnclaimedTTL + QueryTime
        /\ result[r].claimed => A!KnownState \/ dropped[r]

CacheInv == CacheTypes /\ Fresh /\ Seen /\ Unclaimed /\ Deciding /\ A!ClaimIsSeen

LEMMA CacheInit == ASSUME A!CacheAssumption, A!Init PROVE CacheInv
<1>1. versions = <<[kind |-> "live", from |-> 0]>> /\ A!Row = 1 /\ versions[1].kind = "live"
      /\ versions[1].from = 0 /\ versions \in Seq([kind : A!Kind, from : Nat])
    BY DEF A!Init, A!Row, A!Kind
<1>2. CacheTypes
    <2>1. cacheTime = 0 /\ 0 \in 0 .. CacheEnd /\ 1 \in 1 .. MaxVersions /\ 0 \in 0 .. 1
        BY DEF A!CacheAssumption, A!Init
    <2>2. result \in [Request -> [claimed : BOOLEAN, version : 0 .. A!Row]]
        BY <1>1, <2>1 DEF A!Init, A!Nothing, A!Missing
    <2>3. /\ A!Row \in 1 .. MaxVersions
          /\ \A v \in 1 .. A!Row : versions[v].kind \in A!Kind /\ versions[v].from \in 0 .. cacheTime
        BY <1>1, <2>1 DEF A!Kind
    <2>4. A!TypeOK
        <3>1. /\ claimedAt = None /\ dropping = FALSE /\ owners = None /\ cached = None
              /\ asking = [r \in Request |-> "idle"] /\ began = [r \in Request |-> 0]
              /\ verdict = [r \in Request |-> None] /\ dropped = [r \in Request |-> FALSE]
            BY DEF A!Init
        <3>2. began \in [Request -> 0 .. cacheTime] /\ cacheTime \in 0 .. CacheEnd
            BY <2>1, <3>1
        <3>3. /\ asking \in [Request -> {"idle", "ask_object", "ask_asset", "got_object", "got_asset",
                                        "decide", "done"}]
              /\ verdict \in [Request -> [version : 0 .. A!Row, at : 0 .. cacheTime,
                                         dropped : BOOLEAN] \cup {None}]
              /\ dropped \in [Request -> BOOLEAN]
            BY <3>1
        <3> QED BY <2>2, <2>3, <3>1, <3>2, <3>3 DEF A!TypeOK
    <2> QED BY <1>1, <2>4 DEF A!Init, CacheTypes, Asking
<1>3. Fresh /\ A!ClaimIsSeen
    BY <1>1 DEF A!Init, Fresh, A!DecidesFresh, A!ClaimIsSeen, Answered
<1>4. Seen /\ Unclaimed /\ Deciding
    BY DEF A!Init, A!Nothing, Seen, Unclaimed, Deciding, Answered
<1> QED BY <1>2, <1>3, <1>4 DEF CacheInv

\* The types, spelled out.
LEMMA CacheTyped ==
    ASSUME A!CacheAssumption, CacheInv
    PROVE  /\ cacheTime \in Nat /\ StateTTL \in Nat /\ OwnerTTL \in Nat /\ UnclaimedTTL \in Nat
           /\ QueryTime \in Nat /\ A!Row \in Nat \ {0}
           /\ \A v \in 1 .. A!Row : versions[v].from \in Nat /\ versions[v].from <= cacheTime
           /\ claimedAt # None => claimedAt \in Nat /\ claimedAt <= cacheTime
           /\ owners # None => /\ owners.at \in Nat /\ owners.at <= cacheTime
                               /\ owners.claimed \in BOOLEAN /\ owners.ttl \in Nat
           /\ cached # None => /\ cached.at \in Nat /\ cached.at <= cacheTime
                               /\ cached.version \in 0 .. A!Row
           /\ \A r \in Request :
                 /\ began[r] \in Nat /\ began[r] <= cacheTime
                 /\ result[r].claimed \in BOOLEAN /\ result[r].version \in 0 .. A!Row
                 /\ verdict[r] # None => /\ verdict[r].at \in Nat /\ verdict[r].at <= cacheTime
                                         /\ verdict[r].version \in 0 .. A!Row
                                         /\ verdict[r].dropped \in BOOLEAN
<1>1. cacheTime \in Nat
    BY DEF A!CacheAssumption, CacheInv, CacheTypes, A!TypeOK
<1>2. A!Row \in Nat \ {0}
    BY DEF A!CacheAssumption, CacheInv, CacheTypes, A!TypeOK
<1> USE DEF A!CacheAssumption, CacheInv, CacheTypes, A!TypeOK
<1>3. \A v \in 1 .. A!Row : versions[v].from \in Nat /\ versions[v].from <= cacheTime
    BY <1>1
<1>4. claimedAt # None => claimedAt \in Nat /\ claimedAt <= cacheTime
    BY <1>1
<1>5. owners # None => /\ owners.at \in Nat /\ owners.at <= cacheTime
                       /\ owners.claimed \in BOOLEAN /\ owners.ttl \in Nat
    BY <1>1
<1>6. cached # None => /\ cached.at \in Nat /\ cached.at <= cacheTime
                       /\ cached.version \in 0 .. A!Row
    BY <1>1
<1>7. ASSUME NEW r \in Request
      PROVE  /\ began[r] \in Nat /\ began[r] <= cacheTime
             /\ result[r].claimed \in BOOLEAN /\ result[r].version \in 0 .. A!Row
             /\ verdict[r] # None => /\ verdict[r].at \in Nat /\ verdict[r].at <= cacheTime
                                     /\ verdict[r].version \in 0 .. A!Row
                                     /\ verdict[r].dropped \in BOOLEAN
    <2>1. began[r] \in 0 .. cacheTime
        OBVIOUS
    <2>2. result[r] \in [claimed : BOOLEAN, version : 0 .. A!Row]
        OBVIOUS
    <2>3. verdict[r] \in [version : 0 .. A!Row, at : 0 .. cacheTime, dropped : BOOLEAN] \cup {None}
        OBVIOUS
    <2> HIDE DEF A!CacheAssumption, CacheInv, CacheTypes, A!TypeOK
    <2> QED BY <1>1, <2>1, <2>2, <2>3
<1> HIDE DEF A!CacheAssumption, CacheInv, CacheTypes, A!TypeOK
<1>8. StateTTL \in Nat /\ OwnerTTL \in Nat /\ UnclaimedTTL \in Nat /\ QueryTime \in Nat
    BY DEF A!CacheAssumption
<1> QED BY <1>1, <1>2, <1>3, <1>4, <1>5, <1>6, <1>7, <1>8

\* A request asks.
LEMMA AskKeeps == ASSUME A!CacheAssumption, CacheInv, NEW r \in Request, A!Ask(r) PROVE CacheInv'
<1>1. A!TypeOK /\ Fresh /\ Seen /\ Unclaimed /\ Deciding /\ A!ClaimIsSeen
    BY DEF CacheInv, CacheTypes
<1>2. /\ UNCHANGED <<cacheTime, versions, claimedAt, dropping, owners, cached, verdict, dropped>>
      /\ UNCHANGED <<A!Row, A!Claimed, A!KnownOwners, A!KnownState>>
      /\ \A q \in Request \ {r} : asking'[q] = asking[q] /\ result'[q] = result[q]
                                  /\ began'[q] = began[q]
      /\ asking'[r] \in {"ask_object", "ask_asset", "decide"}
      /\ began'[r] = cacheTime
      /\ asking'[r] = "ask_asset" => A!KnownOwners /\ owners.claimed
      /\ asking'[r] = "decide" => A!KnownOwners /\ (owners.claimed => A!KnownState)
    BY <1>1 DEF A!Ask, A!Go, A!TypeOK, A!Row, A!Claimed, A!KnownOwners, A!KnownState
<1> DEFINE known == A!KnownOwners /\ owners.claimed
<1>3. result' = [result EXCEPT ![r] = [claimed |-> known, version |-> 0]]
    BY DEF A!Ask, A!Missing
<1>4. known \in BOOLEAN /\ (known => owners # None /\ owners.claimed)
    BY DEF A!KnownOwners
<1> HIDE DEF known
<1>5. result'[r].claimed = known /\ result'[r].version = 0
    BY <1>1, <1>3 DEF A!TypeOK
<1>6. CacheTypes'
    <2>1. result' \in [Request -> [claimed : BOOLEAN, version : 0 .. A!Row]]
        BY <1>1, <1>3, <1>4, CacheTyped DEF A!TypeOK
    <2>2. asking' \in [Request -> {"idle", "ask_object", "ask_asset", "got_object", "got_asset",
                                   "decide", "done"}]
        BY <1>1 DEF A!Ask, A!Go, A!TypeOK
    <2>3. began' \in [Request -> 0 .. cacheTime]
        BY <1>1, CacheTyped DEF A!Ask, A!TypeOK
    <2>4. A!TypeOK'
        BY <1>1, <1>2, <2>1, <2>2, <2>3 DEF A!TypeOK
    <2>5. \A q \in Request : asking'[q] \in Asking => cacheTime - began'[q] <= QueryTime
        BY <1>2, CacheTyped DEF CacheInv, CacheTypes, A!CacheAssumption
    <2> QED BY <1>2, <2>4, <2>5 DEF CacheTypes, CacheInv
<1>7. Fresh'
    BY <1>1, <1>2 DEF Fresh, A!DecidesFresh, A!Replaced, Answered
<1>8. Seen'
    <2>1. result'[r].claimed => claimedAt # None
        BY <1>1, <1>4, <1>5 DEF Seen
    <2>2. asking'[r] = "ask_asset" => result'[r].claimed
        BY <1>2, <1>5 DEF known
    <2>3. UNCHANGED Gone
        BY <1>2 DEF Gone
    <2> QED BY <1>1, <1>2, <2>1, <2>2, <2>3 DEF Seen, Answered
<1>9. Unclaimed' /\ A!ClaimIsSeen'
    BY <1>1, <1>2 DEF Unclaimed, A!ClaimIsSeen
<1>10. Deciding'
    <2>1. ASSUME asking'[r] = "decide", ~known, A!Claimed
          PROVE  cacheTime - claimedAt <= UnclaimedTTL + QueryTime
        <3>1. owners # None /\ ~owners.claimed /\ cacheTime - owners.at <= owners.ttl
            BY <1>2, <2>1 DEF A!KnownOwners, known
        <3>2. owners.ttl = UnclaimedTTL /\ owners.at - claimedAt <= QueryTime /\ claimedAt # None
            BY <1>1, <2>1, <3>1 DEF Unclaimed, A!Claimed
        <3> QED BY <3>1, <3>2, CacheTyped
    <2>2. asking'[r] = "decide" /\ known => A!KnownState
        BY <1>2 DEF known
    <2> QED BY <1>1, <1>2, <1>5, <2>1, <2>2 DEF Deciding
<1> QED BY <1>6, <1>7, <1>8, <1>9, <1>10 DEF CacheInv

\* A query reads the rows.
LEMMA ReadKeeps == ASSUME A!CacheAssumption, CacheInv, NEW r \in Request, A!Read(r) PROVE CacheInv'
<1>1. A!TypeOK /\ Fresh /\ Seen /\ Unclaimed /\ Deciding /\ A!ClaimIsSeen
    BY DEF CacheInv, CacheTypes
<1>2. /\ UNCHANGED <<cacheTime, versions, claimedAt, dropping, owners, cached, began, verdict,
                     dropped>>
      /\ UNCHANGED <<A!Row, A!Claimed, A!KnownState, Gone>>
      /\ \A q \in Request \ {r} : asking'[q] = asking[q] /\ result'[q] = result[q]
      /\ \/ asking[r] = "ask_object" /\ asking'[r] = "got_object"
         \/ asking[r] = "ask_asset" /\ asking'[r] = "got_asset"
    <2>1. /\ UNCHANGED <<cacheTime, versions, claimedAt, dropping, owners, cached, began, verdict,
                         dropped>>
          /\ \A q \in Request \ {r} : asking'[q] = asking[q] /\ result'[q] = result[q]
          /\ \/ asking[r] = "ask_object" /\ asking'[r] = "got_object"
             \/ asking[r] = "ask_asset" /\ asking'[r] = "got_asset"
        BY <1>1 DEF A!Read, A!Go, A!TypeOK
    <2> QED BY <2>1 DEF A!Row, A!Claimed, A!KnownState, Gone
<1> DEFINE seen == A!Claimed \/ asking[r] = "ask_asset"
           newest == IF A!Claimed THEN A!Row ELSE 0
<1>3. result' = [result EXCEPT ![r] = [claimed |-> seen, version |-> newest]]
    BY DEF A!Read, A!Missing
<1>4. seen \in BOOLEAN /\ newest \in {0, A!Row} /\ (newest = 0 => ~A!Claimed)
    BY CacheTyped DEF A!Claimed
<1>5. /\ A!Claimed => claimedAt # None
      /\ claimedAt # None /\ ~A!Claimed => Gone
      /\ seen => A!Claimed \/ asking[r] = "ask_asset"
      /\ A!Claimed \/ asking[r] = "ask_asset" => seen
    BY DEF A!Claimed, Gone
<1> HIDE DEF seen, newest
<1>6. result'[r].claimed = seen /\ result'[r].version = newest
    BY <1>1, <1>3 DEF A!TypeOK
<1>7. CacheTypes'
    <2>1. result' \in [Request -> [claimed : BOOLEAN, version : 0 .. A!Row]]
        BY <1>1, <1>3, <1>4, CacheTyped DEF A!TypeOK
    <2>2. asking' \in [Request -> {"idle", "ask_object", "ask_asset", "got_object", "got_asset",
                                   "decide", "done"}]
        BY <1>1 DEF A!Read, A!Go, A!TypeOK
    <2>3. A!TypeOK'
        BY <1>1, <1>2, <2>1, <2>2 DEF A!TypeOK
    <2> QED BY <1>2, <2>3 DEF CacheTypes, CacheInv, Asking
<1>8. Fresh'
    BY <1>1, <1>2, <1>4, <1>6, CacheTyped DEF Fresh, A!DecidesFresh, A!Replaced, Answered
<1>9. Seen'
    <2>1. result'[r].claimed => claimedAt # None
        BY <1>1, <1>5, <1>6 DEF Seen
    <2>2. /\ asking'[r] = "got_asset" => result'[r].claimed
          /\ result'[r].claimed /\ result'[r].version = 0 => Gone
        BY <1>1, <1>2, <1>4, <1>5, <1>6 DEF Seen
    <2>3. asking'[r] # "ask_asset"
        BY <1>2
    <2> QED BY <1>1, <1>2, <2>1, <2>2, <2>3 DEF Seen, Answered
<1>10. Unclaimed'
    <2>1. ~result'[r].claimed => ~A!Claimed
        BY <1>5, <1>6
    <2> QED BY <1>1, <1>2, <2>1 DEF Unclaimed
<1>11. Deciding'
    BY <1>1, <1>2 DEF Deciding
<1>12. A!ClaimIsSeen'
    BY <1>1, <1>2 DEF A!ClaimIsSeen
<1> QED BY <1>7, <1>8, <1>9, <1>10, <1>11, <1>12 DEF CacheInv

\* Its answer is cached.
LEMMA StoreKeeps == ASSUME A!CacheAssumption, CacheInv, NEW r \in Request, A!Store(r) PROVE CacheInv'
<1>1. A!TypeOK /\ Fresh /\ Seen /\ Unclaimed /\ Deciding /\ A!ClaimIsSeen
    BY DEF CacheInv, CacheTypes
<1>2. /\ UNCHANGED <<cacheTime, versions, claimedAt, dropping, began, result, verdict, dropped>>
      /\ UNCHANGED <<A!Row, A!Claimed, Gone>>
      /\ \A q \in Request \ {r} : asking'[q] = asking[q]
      /\ asking[r] \in Answered /\ asking'[r] = "decide"
    BY <1>1 DEF A!Store, A!Go, A!TypeOK, A!Row, A!Claimed, Gone, Answered
<1>3. cacheTime - began[r] <= QueryTime
    BY <1>2 DEF CacheInv, CacheTypes, Asking, Answered
<1>4. CASE result[r].claimed
    <2> DEFINE entry == [version |-> result[r].version, at |-> cacheTime]
    <2>1. cached' = entry
        BY <1>4 DEF A!Store
    <2>2. entry \in [version : 0 .. A!Row, at : 0 .. cacheTime] /\ entry # None
          /\ entry.version = result[r].version /\ entry.at = cacheTime
        BY CacheTyped DEF A!CacheAssumption
    <2> HIDE DEF entry
    <2>3. A!KnownState'
        BY <1>2, <2>1, <2>2, CacheTyped DEF A!KnownState
    <2>4. owners' = owners \/ owners' = [claimed |-> TRUE, at |-> cacheTime, ttl |-> OwnerTTL]
        BY <1>1, <1>4 DEF A!Store, A!TtlOf, A!TypeOK
    <2>5. owners' \in [claimed : BOOLEAN, at : 0 .. cacheTime, ttl : {OwnerTTL, UnclaimedTTL}]
                         \cup {None}
          /\ (owners' # owners => owners'.claimed)
        <3> DEFINE new == [claimed |-> TRUE, at |-> cacheTime, ttl |-> OwnerTTL]
        <3>1. new \in [claimed : BOOLEAN, at : 0 .. cacheTime, ttl : {OwnerTTL, UnclaimedTTL}]
              /\ new.claimed
            BY CacheTyped
        <3> HIDE DEF new
        <3>2. owners' = owners \/ owners' = new
            BY <2>4 DEF new
        <3> QED BY <1>1, <3>1, <3>2 DEF A!TypeOK
    <2>6. A!TypeOK'
        BY <1>1, <1>2, <2>1, <2>2, <2>5 DEF A!TypeOK, A!Store, A!Go
    <2>7. CacheTypes'
        BY <1>2, <2>6 DEF CacheTypes, CacheInv, Asking
    <2>8. Fresh'
        <3>1. cached'.version \in 1 .. A!Row - 1 =>
                  cached'.at - A!Replaced(cached'.version) <= QueryTime
            <4>1. ASSUME entry.version \in 1 .. A!Row - 1
                  PROVE  entry.at - A!Replaced(entry.version) <= QueryTime
                <5>1. began[r] <= A!Replaced(entry.version)
                    BY <1>1, <1>2, <2>2, <4>1 DEF Fresh
                <5>2. A!Replaced(entry.version) \in Nat
                    BY <4>1, CacheTyped DEF A!Replaced
                <5> QED BY <1>3, <2>2, <5>1, <5>2, CacheTyped
            <4> QED BY <2>1, <4>1
        <3> QED BY <1>1, <1>2, <3>1 DEF Fresh, A!DecidesFresh, A!Replaced, Answered
    <2>9. Seen'
        BY <1>1, <1>2, <1>4, <2>1, <2>2, <2>5 DEF Seen, Answered
    <2>10. Unclaimed'
        BY <1>1, <1>2, <2>5 DEF Unclaimed
    <2>11. Deciding'
        BY <1>1, <1>2, <1>4, <2>3 DEF Deciding
    <2>12. A!ClaimIsSeen'
        BY <1>1, <1>2 DEF A!ClaimIsSeen
    <2> QED BY <2>7, <2>8, <2>9, <2>10, <2>11, <2>12 DEF CacheInv
<1>5. CASE ~result[r].claimed
    <2>1. asking[r] = "got_object"
        BY <1>1, <1>2, <1>5 DEF Seen, Answered
    <2>2. cached' = cached /\ A!KnownState' = A!KnownState
        BY <1>5, <1>2 DEF A!Store, A!KnownState
    <2> DEFINE entry == [claimed |-> FALSE, at |-> cacheTime, ttl |-> UnclaimedTTL]
    <2>3. owners' = entry
        <3>1. result[r].claimed = FALSE
            BY <1>5, CacheTyped
        <3> QED BY <2>1, <3>1 DEF A!Store, A!TtlOf
    <2>4. entry \in [claimed : BOOLEAN, at : 0 .. cacheTime, ttl : {OwnerTTL, UnclaimedTTL}]
          /\ ~entry.claimed /\ entry.at = cacheTime /\ entry.ttl = UnclaimedTTL
        BY CacheTyped
    <2> HIDE DEF entry
    <2>5. A!TypeOK'
        BY <1>1, <1>2, <2>2, <2>3, <2>4 DEF A!TypeOK, A!Store, A!Go
    <2>6. CacheTypes'
        BY <1>2, <2>5 DEF CacheTypes, CacheInv, Asking
    <2>7. Fresh'
        BY <1>1, <1>2, <2>2 DEF Fresh, A!DecidesFresh, A!Replaced, Answered
    <2>8. Seen'
        BY <1>1, <1>2, <2>2, <2>3, <2>4 DEF Seen, Answered
    <2>9. A!Claimed => cacheTime - claimedAt <= QueryTime
        <3>1. A!Claimed => began[r] <= claimedAt /\ claimedAt # None
            BY <1>1, <1>5, <2>1 DEF Unclaimed, A!Claimed
        <3> QED BY <1>3, <3>1, CacheTyped
    <2>10. Unclaimed'
        BY <1>1, <1>2, <2>3, <2>4, <2>9 DEF Unclaimed
    <2>11. Deciding'
        <3>1. A!Claimed => cacheTime - claimedAt <= UnclaimedTTL + QueryTime
            <4>1. A!Claimed => claimedAt # None
                BY DEF A!Claimed
            <4> QED BY <2>9, <4>1, CacheTyped
        <3> QED BY <1>1, <1>2, <1>5, <2>2, <3>1 DEF Deciding
    <2>12. A!ClaimIsSeen'
        BY <1>1, <1>2 DEF A!ClaimIsSeen
    <2> QED BY <2>6, <2>7, <2>8, <2>10, <2>11, <2>12 DEF CacheInv
<1> QED BY <1>4, <1>5

\* A request decides.
LEMMA DecideKeeps == ASSUME A!CacheAssumption, CacheInv, NEW r \in Request, A!Decide(r) PROVE CacheInv'
<1>1. A!TypeOK /\ Fresh /\ Seen /\ Unclaimed /\ Deciding /\ A!ClaimIsSeen
    BY DEF CacheInv, CacheTypes
<1>2. /\ UNCHANGED <<cacheTime, versions, claimedAt, dropping, owners, cached>>
      /\ \A q \in Request \ {r} : asking'[q] = asking[q] /\ result'[q] = result[q]
                                  /\ began'[q] = began[q] /\ verdict'[q] = verdict[q]
                                  /\ dropped'[q] = dropped[q]
      /\ asking[r] = "decide" /\ asking'[r] = "done"
      /\ began'[r] = 0 /\ dropped'[r] = FALSE /\ result'[r] = [claimed |-> FALSE, version |-> 0]
    BY <1>1 DEF A!Decide, A!Go, A!Forget, A!Nothing, A!Missing, A!TypeOK
<1>3. UNCHANGED <<A!Row, A!Claimed, A!KnownState, Gone>>
    BY <1>2 DEF A!Row, A!Claimed, A!KnownState, Gone
<1> DEFINE chosen == IF result[r].claimed /\ A!KnownState THEN cached.version ELSE 0
           decision == [version |-> chosen, at |-> cacheTime, dropped |-> dropped[r]]
<1>4. verdict' = [verdict EXCEPT ![r] = decision]
    BY DEF A!Decide, A!Missing
<1>5. /\ chosen \in 0 .. A!Row
      /\ chosen # 0 => cached # None /\ cacheTime - cached.at <= StateTTL /\ chosen = cached.version
      /\ chosen = 0 => \/ ~result[r].claimed
                       \/ ~A!KnownState
                       \/ cached # None /\ cached.version = 0
    <2>1. A!KnownState => cached # None /\ cacheTime - cached.at <= StateTTL
        BY DEF A!KnownState
    <2> QED BY <2>1, CacheTyped
<1>6. dropped[r] \in BOOLEAN
    BY <1>1 DEF A!TypeOK
<1> HIDE DEF chosen
<1>7. decision \in [version : 0 .. A!Row, at : 0 .. cacheTime, dropped : BOOLEAN]
      /\ decision.version = chosen /\ decision.at = cacheTime /\ decision.dropped = dropped[r]
    BY <1>5, <1>6, CacheTyped
<1> HIDE DEF decision
<1>8. verdict'[r] = decision
    BY <1>1, <1>4 DEF A!TypeOK
<1>9. CacheTypes'
    <2>1. verdict' \in [Request -> [version : 0 .. A!Row, at : 0 .. cacheTime, dropped : BOOLEAN]
                                       \cup {None}]
        BY <1>1, <1>4, <1>7 DEF A!TypeOK
    <2>2. result' \in [Request -> [claimed : BOOLEAN, version : 0 .. A!Row]]
        <3>1. A!Nothing \in [claimed : BOOLEAN, version : 0 .. A!Row]
            BY CacheTyped DEF A!Nothing, A!Missing
        <3> QED BY <1>1, <3>1 DEF A!Decide, A!Forget, A!TypeOK
    <2>3. began' \in [Request -> 0 .. cacheTime] /\ dropped' \in [Request -> BOOLEAN]
        BY <1>1, CacheTyped DEF A!Decide, A!Forget, A!TypeOK
    <2>4. asking' \in [Request -> {"idle", "ask_object", "ask_asset", "got_object", "got_asset",
                                   "decide", "done"}]
        BY <1>1 DEF A!Decide, A!Go, A!TypeOK
    <2>5. A!TypeOK'
        BY <1>1, <1>2, <1>3, <2>1, <2>2, <2>3, <2>4 DEF A!TypeOK
    <2> QED BY <1>2, <2>5 DEF CacheTypes, CacheInv, Asking
<1>10. Fresh'
    <2>1. ASSUME chosen \in 1 .. A!Row - 1
          PROVE  cacheTime - A!Replaced(chosen) <= StateTTL + QueryTime
        <3>1. cached.at - A!Replaced(cached.version) <= QueryTime /\ cached # None
              /\ cacheTime - cached.at <= StateTTL /\ chosen = cached.version
            BY <1>1, <1>5, <2>1 DEF Fresh
        <3>2. A!Replaced(chosen) \in Nat
            BY <2>1, CacheTyped DEF A!Replaced
        <3> QED BY <3>1, <3>2, CacheTyped
    <2>2. A!DecidesFresh'
        BY <1>1, <1>2, <1>3, <1>7, <1>8, <2>1 DEF Fresh, A!DecidesFresh, A!Replaced
    <2> QED BY <1>1, <1>2, <1>3, <2>2 DEF Fresh, A!Replaced, Answered
<1>11. Seen'
    BY <1>1, <1>2, <1>3 DEF Seen, Answered
<1>12. Unclaimed' /\ Deciding'
    BY <1>1, <1>2, <1>3 DEF Unclaimed, Deciding
<1>13. A!ClaimIsSeen'
    <2>1. ASSUME chosen = 0, ~dropped[r], A!Claimed
          PROVE  cacheTime - claimedAt <= UnclaimedTTL + QueryTime
        <3>1. CASE ~result[r].claimed
            BY <1>1, <1>2, <2>1, <3>1 DEF Deciding
        <3>2. CASE result[r].claimed
            <4>1. A!KnownState
                BY <1>1, <1>2, <2>1, <3>2 DEF Deciding
            <4>2. cached # None /\ cached.version = 0
                BY <1>5, <2>1, <3>2, <4>1
            <4> QED BY <1>1, <2>1, <4>2 DEF Seen, Gone, A!Claimed
        <3> QED BY <3>1, <3>2
    <2> QED BY <1>1, <1>2, <1>3, <1>7, <1>8, <2>1 DEF A!ClaimIsSeen, A!Missing
<1> QED BY <1>9, <1>10, <1>11, <1>12, <1>13 DEF CacheInv

\* The answer is used.
LEMMA LeaveKeeps == ASSUME A!CacheAssumption, CacheInv, NEW r \in Request, A!Leave(r) PROVE CacheInv'
<1>1. A!TypeOK /\ Fresh /\ Seen /\ Unclaimed /\ Deciding /\ A!ClaimIsSeen
    BY DEF CacheInv, CacheTypes
<1>2. /\ UNCHANGED <<cacheTime, versions, claimedAt, dropping, owners, cached, began, result,
                     dropped>>
      /\ \A q \in Request \ {r} : asking'[q] = asking[q] /\ verdict'[q] = verdict[q]
      /\ asking'[r] = "idle" /\ verdict'[r] = None
    BY <1>1 DEF A!Leave, A!Go, A!TypeOK
<1>3. UNCHANGED <<A!Row, A!Claimed, A!KnownState, Gone>>
    BY <1>2 DEF A!Row, A!Claimed, A!KnownState, Gone
<1>4. A!TypeOK'
    BY <1>1, <1>2, <1>3 DEF A!Leave, A!Go, A!TypeOK
<1>5. CacheTypes'
    BY <1>2, <1>4 DEF CacheTypes, CacheInv, Asking
<1>6. Fresh'
    BY <1>1, <1>2, <1>3 DEF Fresh, A!DecidesFresh, A!Replaced, Answered
<1>7. Seen' /\ Unclaimed' /\ Deciding'
    BY <1>1, <1>2, <1>3 DEF Seen, Unclaimed, Deciding, Answered
<1>8. A!ClaimIsSeen'
    BY <1>1, <1>2, <1>3 DEF A!ClaimIsSeen
<1> QED BY <1>5, <1>6, <1>7, <1>8 DEF CacheInv

\* Finalize claims the object.
LEMMA ClaimKeeps == ASSUME A!CacheAssumption, CacheInv, A!Claim PROVE CacheInv'
<1>1. A!TypeOK /\ Fresh /\ Seen /\ Unclaimed /\ Deciding /\ A!ClaimIsSeen
    BY DEF CacheInv, CacheTypes
<1>2. /\ UNCHANGED <<cacheTime, versions, dropping, owners, cached, asking, began, result, verdict,
                     dropped>>
      /\ claimedAt' = cacheTime /\ claimedAt = None
    BY DEF A!Claim
<1>3. UNCHANGED <<A!Row, A!KnownState, Gone>> /\ cacheTime # None
    BY <1>2, CacheTyped DEF A!Row, A!KnownState, Gone, A!CacheAssumption
<1>4. A!TypeOK'
    BY <1>1, <1>2, <1>3, CacheTyped DEF A!TypeOK
<1>5. CacheTypes'
    BY <1>2, <1>4 DEF CacheTypes, CacheInv, Asking
<1>6. Fresh'
    BY <1>1, <1>2, <1>3 DEF Fresh, A!DecidesFresh, A!Replaced, Answered
<1>7. Seen'
    BY <1>1, <1>2, <1>3 DEF Seen, Answered
<1>8. Unclaimed'
    BY <1>1, <1>2, CacheTyped DEF Unclaimed
<1>9. Deciding'
    BY <1>1, <1>2, <1>3, CacheTyped DEF Deciding
<1>10. A!ClaimIsSeen'
    BY <1>1, <1>2, CacheTyped DEF A!ClaimIsSeen
<1> QED BY <1>5, <1>6, <1>7, <1>8, <1>9, <1>10 DEF CacheInv

\* The asset changes, here or elsewhere.
LEMMA ChangeKeeps ==
    ASSUME A!CacheAssumption, CacheInv, A!ChangeHere \/ A!ChangeElsewhere PROVE CacheInv'
<1>1. A!TypeOK /\ Fresh /\ Seen /\ Unclaimed /\ Deciding /\ A!ClaimIsSeen
    BY DEF CacheInv, CacheTypes
<1>2. /\ UNCHANGED <<cacheTime, claimedAt, owners, cached, asking, began, result, verdict, dropped>>
      /\ dropping' \in BOOLEAN
      /\ versions[A!Row].kind \in {"live", "deleted"}
      /\ \E kind \in A!Kind : A!NewVersion(kind)
    BY <1>1 DEF A!ChangeHere, A!ChangeElsewhere, A!Change, A!Kind, A!TypeOK
<1>3. PICK kind \in A!Kind : A!NewVersion(kind)
    BY <1>2
<1> DEFINE row == [kind |-> kind, from |-> cacheTime]
<1>4. versions' = Append(versions, row) /\ A!Row < MaxVersions
    BY <1>3 DEF A!NewVersion
<1>5. row \in [kind : A!Kind, from : Nat] /\ row.from = cacheTime /\ row.kind = kind
    BY CacheTyped
<1>6. versions \in Seq([kind : A!Kind, from : Nat]) /\ A!Row = Len(versions)
    BY DEF CacheInv, CacheTypes, A!Row
<1> HIDE DEF row
<1>7. /\ versions' \in Seq([kind : A!Kind, from : Nat])
      /\ A!Row' = A!Row + 1
      /\ \A v \in 1 .. A!Row : versions'[v] = versions[v]
      /\ versions'[A!Row + 1] = row
    BY <1>4, <1>5, <1>6 DEF A!Row
<1>8. /\ \A v \in 1 .. A!Row - 1 : versions'[v + 1].from = A!Replaced(v)
      /\ versions'[A!Row + 1].from = cacheTime
      /\ \A v \in 1 .. A!Row' - 1 : v \in 1 .. A!Row - 1 \/ v = A!Row
    <2>1. A!Row \in Nat
        BY CacheTyped
    <2>2. ASSUME NEW v \in 1 .. A!Row - 1 PROVE versions'[v + 1].from = A!Replaced(v)
        <3>1. v + 1 \in 1 .. A!Row
            BY <2>1
        <3>2. versions'[v + 1] = versions[v + 1]
            BY <1>7, <3>1
        <3> QED BY <3>2 DEF A!Replaced
    <2>3. \A v \in 1 .. A!Row' - 1 : v \in 1 .. A!Row - 1 \/ v = A!Row
        BY <1>7, <2>1
    <2> QED BY <1>5, <1>7, <2>2, <2>3
<1>9. A!Claimed' => A!Claimed
    BY <1>2 DEF A!Claimed
<1>10. ~Gone
    BY <1>2 DEF Gone
<1>11. UNCHANGED A!KnownState
    BY <1>2 DEF A!KnownState
<1>12. CacheTypes'
    <2>1. A!Row' \in 1 .. MaxVersions
        BY <1>4, <1>7, CacheTyped DEF A!CacheAssumption
    <2>2. \A v \in 1 .. A!Row' : versions'[v].kind \in A!Kind /\ versions'[v].from \in 0 .. cacheTime
        <3>1. \A v \in 1 .. A!Row : versions[v].kind \in A!Kind /\ versions[v].from \in 0 .. cacheTime
            BY <1>1 DEF A!TypeOK
        <3> QED BY <1>3, <1>5, <1>7, <3>1, CacheTyped
    <2>3. cached \in [version : 0 .. A!Row', at : 0 .. cacheTime] \cup {None}
        BY <1>1, <1>7, CacheTyped DEF A!TypeOK
    <2>4. result \in [Request -> [claimed : BOOLEAN, version : 0 .. A!Row']]
        <3>1. 0 .. A!Row \subseteq 0 .. A!Row'
            BY <1>7, CacheTyped
        <3>2. [claimed : BOOLEAN, version : 0 .. A!Row] \subseteq [claimed : BOOLEAN, version : 0 .. A!Row']
            BY <3>1
        <3> QED BY <1>1, <3>2 DEF A!TypeOK
    <2>5. verdict \in [Request -> [version : 0 .. A!Row', at : 0 .. cacheTime, dropped : BOOLEAN]
                                      \cup {None}]
        <3>1. 0 .. A!Row \subseteq 0 .. A!Row'
            BY <1>7, CacheTyped
        <3>2. [version : 0 .. A!Row, at : 0 .. cacheTime, dropped : BOOLEAN]
                  \subseteq [version : 0 .. A!Row', at : 0 .. cacheTime, dropped : BOOLEAN]
            BY <3>1
        <3> QED BY <1>1, <3>2 DEF A!TypeOK
    <2>6. A!TypeOK'
        BY <1>1, <1>2, <2>1, <2>2, <2>3, <2>4, <2>5 DEF A!TypeOK
    <2> QED BY <1>2, <1>7, <2>6 DEF CacheTypes, CacheInv, Asking
<1>13. Fresh'
    <2>1. ASSUME NEW r \in Request, asking[r] \in Answered, result[r].version \in 1 .. A!Row' - 1
          PROVE  began[r] <= versions'[result[r].version + 1].from
        <3>1. CASE result[r].version = A!Row
            BY <1>8, <3>1, CacheTyped
        <3>2. CASE result[r].version \in 1 .. A!Row - 1
            BY <1>1, <1>8, <2>1, <3>2 DEF Fresh
        <3> QED BY <1>8, <2>1, <3>1, <3>2
    <2>2. ASSUME cached # None, cached.version \in 1 .. A!Row' - 1
          PROVE  cached.at - versions'[cached.version + 1].from <= QueryTime
        <3>1. CASE cached.version = A!Row
            BY <1>8, <2>2, <3>1, CacheTyped
        <3>2. CASE cached.version \in 1 .. A!Row - 1
            BY <1>1, <1>8, <2>2, <3>2 DEF Fresh
        <3> QED BY <1>8, <2>2, <3>1, <3>2
    <2>3. ASSUME NEW r \in Request, verdict[r] # None, verdict[r].version \in 1 .. A!Row' - 1
          PROVE  verdict[r].at - versions'[verdict[r].version + 1].from <= StateTTL + QueryTime
        <3>1. CASE verdict[r].version = A!Row
            BY <1>8, <2>3, <3>1, CacheTyped
        <3>2. CASE verdict[r].version \in 1 .. A!Row - 1
            BY <1>1, <1>8, <2>3, <3>2 DEF Fresh, A!DecidesFresh
        <3> QED BY <1>8, <2>3, <3>1, <3>2
    <2> QED BY <1>2, <2>1, <2>2, <2>3 DEF Fresh, A!DecidesFresh, A!Replaced
<1>14. Seen' /\ Unclaimed' /\ A!ClaimIsSeen'
    BY <1>1, <1>2, <1>9, <1>10 DEF Seen, Unclaimed, A!ClaimIsSeen
<1>15. Deciding'
    BY <1>1, <1>2, <1>9, <1>11 DEF Deciding
<1> QED BY <1>12, <1>13, <1>14, <1>15 DEF CacheInv

\* An entry is dropped or evicted.
LEMMA DropKeeps ==
    ASSUME A!CacheAssumption, CacheInv, A!DropState \/ A!EvictState \/ A!DropOwners PROVE CacheInv'
<1>1. A!TypeOK /\ Fresh /\ Seen /\ Unclaimed /\ Deciding /\ A!ClaimIsSeen
    BY DEF CacheInv, CacheTypes
<1>2. /\ UNCHANGED <<cacheTime, versions, claimedAt, asking, began, result, verdict>>
      /\ dropping' \in BOOLEAN
      /\ \/ cached' = None /\ owners' = owners /\ A!Drop
         \/ cached' = cached /\ owners' = None /\ dropped' = dropped
    BY <1>1 DEF A!DropState, A!EvictState, A!DropOwners, A!Drop, A!TypeOK
<1>3. UNCHANGED <<A!Row, A!Claimed, Gone>>
    BY <1>2 DEF A!Row, A!Claimed, Gone
<1>4. /\ dropped' \in [Request -> BOOLEAN]
      /\ \/ cached' = cached /\ dropped' = dropped
         \/ \A r \in Request : asking[r] = "decide" => dropped'[r]
    BY <1>1, <1>2 DEF A!Drop, A!TypeOK
<1>5. A!TypeOK'
    BY <1>1, <1>2, <1>3, <1>4 DEF A!TypeOK
<1>6. CacheTypes'
    BY <1>2, <1>5 DEF CacheTypes, CacheInv
<1>7. Fresh'
    BY <1>1, <1>2, <1>3 DEF Fresh, A!DecidesFresh, A!Replaced
<1>8. Seen' /\ Unclaimed' /\ A!ClaimIsSeen'
    BY <1>1, <1>2, <1>3 DEF Seen, Unclaimed, A!ClaimIsSeen
<1>9. Deciding'
    BY <1>1, <1>2, <1>3, <1>4 DEF Deciding, A!KnownState
<1> QED BY <1>6, <1>7, <1>8, <1>9 DEF CacheInv

LEMMA CacheTick == ASSUME A!CacheAssumption, CacheInv, A!Tick PROVE CacheInv'
<1>1. A!TypeOK /\ Fresh /\ Seen /\ Unclaimed /\ Deciding /\ A!ClaimIsSeen
    BY DEF CacheInv, CacheTypes
<1>2. /\ UNCHANGED <<versions, claimedAt, dropping, owners, cached, asking, began, result, verdict,
                     dropped>>
      /\ cacheTime' = cacheTime + 1 /\ cacheTime < CacheEnd
      /\ \A r \in Request : /\ asking[r] \in Asking => cacheTime - began[r] < QueryTime
                            /\ asking[r] # "decide"
    BY DEF A!Tick, Asking
<1>3. UNCHANGED <<A!Row, A!Claimed, Gone>>
    BY <1>2 DEF A!Row, A!Claimed, Gone
<1>4. 0 .. cacheTime \subseteq 0 .. cacheTime'
    BY <1>2, CacheTyped
<1>5. A!TypeOK'
    <2>1. cacheTime' \in 0 .. CacheEnd
        BY <1>2, CacheTyped DEF A!CacheAssumption
    <2>2. \A v \in 1 .. A!Row : versions[v].kind \in A!Kind /\ versions[v].from \in 0 .. cacheTime'
        BY <1>1, <1>4 DEF A!TypeOK
    <2>3. claimedAt \in 0 .. cacheTime' \cup {None} /\ began \in [Request -> 0 .. cacheTime']
        BY <1>1, <1>4 DEF A!TypeOK
    <2>4. owners \in [claimed : BOOLEAN, at : 0 .. cacheTime', ttl : {OwnerTTL, UnclaimedTTL}]
                         \cup {None}
        BY <1>1, <1>4 DEF A!TypeOK
    <2>5. cached \in [version : 0 .. A!Row, at : 0 .. cacheTime'] \cup {None}
        BY <1>1, <1>4 DEF A!TypeOK
    <2>6. verdict \in [Request -> [version : 0 .. A!Row, at : 0 .. cacheTime', dropped : BOOLEAN]
                                      \cup {None}]
        <3>1. [version : 0 .. A!Row, at : 0 .. cacheTime, dropped : BOOLEAN]
                  \subseteq [version : 0 .. A!Row, at : 0 .. cacheTime', dropped : BOOLEAN]
            BY <1>4
        <3> QED BY <1>1, <3>1 DEF A!TypeOK
    <2> QED BY <1>1, <1>2, <1>3, <2>1, <2>2, <2>3, <2>4, <2>5, <2>6 DEF A!TypeOK
<1>6. CacheTypes'
    <2>1. \A r \in Request : asking[r] \in Asking => cacheTime' - began[r] <= QueryTime
        BY <1>2, CacheTyped
    <2> QED BY <1>2, <1>5, <2>1 DEF CacheTypes, CacheInv
<1>7. Fresh'
    BY <1>1, <1>2, <1>3 DEF Fresh, A!DecidesFresh, A!Replaced
<1>8. Seen' /\ Unclaimed' /\ A!ClaimIsSeen'
    BY <1>1, <1>2, <1>3 DEF Seen, Unclaimed, A!ClaimIsSeen
<1>9. Deciding'
    BY <1>2 DEF Deciding
<1> QED BY <1>6, <1>7, <1>8, <1>9 DEF CacheInv

LEMMA CacheStep == ASSUME A!CacheAssumption PROVE CacheInv /\ [A!Next]_(A!vars) => CacheInv'
<1>1. SUFFICES ASSUME CacheInv, [A!Next]_(A!vars) PROVE CacheInv'
    OBVIOUS
<1>2. CASE UNCHANGED A!vars
    <2>1. UNCHANGED <<cacheTime, versions, claimedAt, dropping, owners, cached, asking, began, result,
                      dropped, verdict>>
        BY <1>2 DEF A!vars
    <2>2. CacheTypes'
        BY <1>1, <2>1 DEF CacheInv, CacheTypes, A!TypeOK, A!Row
    <2>3. Fresh' /\ Seen'
        BY <1>1, <2>1 DEF CacheInv, Fresh, Seen, Gone, A!DecidesFresh, A!Replaced, A!Row
    <2>4. Unclaimed' /\ Deciding' /\ A!ClaimIsSeen'
        BY <1>1, <2>1 DEF CacheInv, Unclaimed, Deciding, A!ClaimIsSeen, A!Claimed, A!Row,
                          A!KnownState
    <2> QED BY <2>2, <2>3, <2>4 DEF CacheInv
<1>3. CASE A!Next
    BY <1>1, <1>3, AskKeeps, ReadKeeps, StoreKeeps, DecideKeeps, LeaveKeeps, ClaimKeeps,
       ChangeKeeps, DropKeeps, CacheTick DEF A!Next
<1> QED BY <1>1, <1>2, <1>3

\* No decision is older than a ttl and a query, whichever process made the change, and a
\* finalized object is known within as much (resolveObjectAccess): for any ttls.
THEOREM CacheStaysFresh ==
    ASSUME A!CacheAssumption PROVE A!Spec => [](A!DecidesFresh /\ A!ClaimIsSeen)
<1>1. A!Init => CacheInv
    BY CacheInit
<1>2. CacheInv /\ [A!Next]_(A!vars) => CacheInv'
    BY CacheStep
<1>3. CacheInv => A!DecidesFresh /\ A!ClaimIsSeen
    BY DEF CacheInv, Fresh
<1> QED BY <1>1, <1>2, <1>3, PTL DEF A!Spec

----------------------------------------------------------------------------
(***************************************************************************)
(* WebhookDelivery.                                                        *)
(*                                                                         *)
(* While its job was never taken for stalled, a delivery has at most the   *)
(* one execution that holds the job, and what it is at tells how many      *)
(* answers and rows there are. A job whose execution is gone says that     *)
(* there was a fault, so that its stall is counted.                        *)
(***************************************************************************)
Untouched(d) ==
    job[d] = "none" =>
        made[d] = 0 /\ stalls[d] = 0 /\ log[d] = <<>> /\ acks[d] = 0 /\ missed[d] = {}

Tries(d) ==
    /\ job[d] \in {"waiting", "running"} => made[d] < Attempts
    /\ job[d] = "running" /\ doing[holder[d]].of # d => faults > 0

OneExecution(d) ==
    stalls[d] = 0 => \A e \in Execution : doing[e].of = d => holder[d] = e

Answers(d) ==
    stalls[d] = 0 =>
        /\ acks[d] <= 1
        /\ job[d] \in {"waiting", "failed"} => acks[d] = 0
        /\ job[d] = "failed" => made[d] = Attempts
        /\ \A e \in Execution : doing[e].of = d =>
              /\ doing[e].retry = made[d]
              /\ IF doing[e].at \in {"record", "settle"} /\ doing[e].ok
                 THEN acks[d] = 1 ELSE acks[d] = 0

\* The rows are those of the first n tries but the skipped ones, in their order, and the
\* last one alone was acknowledged, if there was an answer.
Tell(rows, skipped, n, answers) ==
    /\ skipped \subseteq 0 .. n - 1
    /\ {rows[i].retry : i \in 1 .. Len(rows)} = (0 .. n - 1) \ skipped
    /\ \A i, j \in 1 .. Len(rows) : i < j => rows[i].retry < rows[j].retry
    /\ \A i \in 1 .. Len(rows) : rows[i].ok <=> i = Len(rows) /\ answers > 0
    /\ answers > 0 => rows # <<>>

Rows(d) ==
    stalls[d] = 0 /\ ~unlogged[d] /\ endpoint # "deleted" =>
        /\ job[d] # "running" => Tell(log[d], missed[d], made[d], acks[d])
        /\ \A e \in Execution : doing[e].of = d =>
              IF doing[e].at = "settle" THEN Tell(log[d], missed[d], made[d] + 1, acks[d])
                                        ELSE Tell(log[d], missed[d], made[d], 0)

Told(d) == Untouched(d) /\ Tries(d) /\ OneExecution(d) /\ Answers(d) /\ Rows(d)

WebhookInv == W!TypeOK /\ \A d \in Delivery : Told(d)

LEMMA WebhookInit == ASSUME W!WebhookAssumption, W!Init PROVE WebhookInv
<1>1. \A e \in Execution : doing[e] = W!Idle /\ doing[e].of = None
    BY DEF W!Init, W!Idle
<1>2. W!TypeOK
    <2>1. 0 \in 0 .. MaxRotations /\ 0 \in 0 .. Attempts /\ 0 \in 0 .. MaxFaults
        BY DEF W!WebhookAssumption
    <2>2. /\ secret \in 0 .. MaxRotations /\ faults \in 0 .. MaxFaults
          /\ made \in [Delivery -> 0 .. Attempts] /\ stalls \in [Delivery -> 0 .. MaxFaults]
        BY <2>1 DEF W!Init
    <2>3. /\ job \in [Delivery -> {"none", "waiting", "running", "done", "failed"}]
          /\ holder \in [Delivery -> Execution \cup {None}]
          /\ \A d \in Delivery : holder[d] # None <=> job[d] = "running"
        BY DEF W!Init
    <2>5. log \in [Delivery -> Seq([retry : 0 .. Attempts - 1, ok : BOOLEAN])]
        BY DEF W!Init
    <2>4. doing = [e \in Execution |-> W!Idle]
        BY DEF W!Init
    <2> QED BY <2>2, <2>3, <2>4, <2>5 DEF W!Init, W!TypeOK
<1>3. Tell(<<>>, {}, 0, 0)
    BY DEF Tell
<1>4. \A d \in Delivery : Told(d)
    BY <1>1, <1>3 DEF W!WebhookAssumption, W!Init, Told, Untouched, Tries, OneExecution, Answers,
                      Rows
<1> QED BY <1>2, <1>4 DEF WebhookInv

\* The types, spelled out.
LEMMA WebhookTyped ==
    ASSUME W!WebhookAssumption, WebhookInv
    PROVE  /\ \A d \in Delivery :
                 /\ made[d] \in Nat /\ stalls[d] \in Nat /\ acks[d] \in Nat
                 /\ stalls[d] <= MaxFaults /\ made[d] <= Attempts
                 /\ holder[d] # None <=> job[d] = "running"
                 /\ holder[d] # None => holder[d] \in Execution
                 /\ log[d] \in Seq([retry : 0 .. Attempts - 1, ok : BOOLEAN])
           /\ \A e \in Execution :
                 /\ doing[e] = W!Idle \/
                       doing[e] \in [at : {"read", "post", "record", "settle"}, of : Delivery,
                                     retry : 0 .. Attempts - 1, key : 0 .. MaxRotations,
                                     ok : BOOLEAN]
                 /\ doing[e].at # "idle" => doing[e].of \in Delivery
                 /\ doing[e].at = "idle" => doing[e].of \notin Delivery
           /\ faults \in Nat /\ MaxFaults \in Nat /\ Attempts \in Nat \ {0} /\ faults <= MaxFaults
<1>1. \A d \in Delivery :
          /\ made[d] \in 0 .. Attempts /\ stalls[d] \in 0 .. MaxFaults /\ acks[d] \in Nat
          /\ holder[d] # None <=> job[d] = "running"
          /\ holder[d] \in Execution \cup {None}
          /\ log[d] \in Seq([retry : 0 .. Attempts - 1, ok : BOOLEAN])
    BY DEF WebhookInv, W!TypeOK
<1>2. \A e \in Execution :
          doing[e] \in [at : {"read", "post", "record", "settle"}, of : Delivery,
                        retry : 0 .. Attempts - 1, key : 0 .. MaxRotations,
                        ok : BOOLEAN] \cup {W!Idle}
    BY DEF WebhookInv, W!TypeOK
<1>3. W!Idle.at = "idle" /\ W!Idle.of = None /\ None \notin Delivery
    BY DEF W!Idle, W!WebhookAssumption
<1>4. faults \in 0 .. MaxFaults /\ MaxFaults \in Nat /\ Attempts \in Nat \ {0}
    BY DEF WebhookInv, W!TypeOK, W!WebhookAssumption
<1>5. faults \in Nat /\ faults <= MaxFaults
    BY <1>4
<1>6. \A d \in Delivery :
          made[d] \in Nat /\ stalls[d] \in Nat /\ stalls[d] <= MaxFaults /\ made[d] <= Attempts
    BY <1>1, <1>4
<1>7. \A e \in Execution :
          /\ doing[e].at # "idle" => doing[e].of \in Delivery
          /\ doing[e].at = "idle" => doing[e].of \notin Delivery
    BY <1>2, <1>3
<1> QED BY <1>1, <1>2, <1>4, <1>5, <1>6, <1>7

\* A delivery that a step does not touch, though an execution of it may go with the process
\* and its rows with the endpoint.
LEMMA OthersStay ==
    ASSUME NEW d \in Delivery, Told(d), W!WebhookAssumption, WebhookInv, faults' \in Nat,
           job'[d] = job[d], made'[d] = made[d], stalls'[d] = stalls[d], holder'[d] = holder[d],
           acks'[d] = acks[d], unlogged'[d] = unlogged[d], missed'[d] = missed[d],
           log'[d] = log[d] \/ (log'[d] = <<>> /\ endpoint' = "deleted"),
           endpoint = "deleted" => endpoint' = "deleted", faults <= faults',
           \A e \in Execution : doing'[e].of = d => doing'[e] = doing[e],
           \A e \in Execution : doing[e].of = d => doing'[e].of = d \/ faults' > 0
    PROVE  Told(d)'
<1>1. Untouched(d)' /\ OneExecution(d)'
    BY DEF Told, Untouched, OneExecution
<1>2. Tries(d)'
    BY WebhookTyped DEF Told, Tries
<1>3. Answers(d)'
    BY DEF Told, Answers
<1>4. Rows(d)'
  <2>1. CASE endpoint' = "deleted"
      BY <2>1 DEF Rows
  <2>2. CASE endpoint' # "deleted"
    <3>1. endpoint # "deleted" /\ log'[d] = log[d]
        BY <2>2
    <3> QED BY <3>1 DEF Told, Rows
  <2> QED BY <2>1, <2>2
<1> QED BY <1>1, <1>2, <1>3, <1>4 DEF Told

\* The requests, the dispatcher and the process.
LEMMA RequestsTell ==
    ASSUME W!WebhookAssumption, WebhookInv,
           \/ W!SetActive \/ W!RotateSecret \/ W!DeleteEndpoint \/ W!FindEndpoints
           \/ W!ResendRead \/ W!Restart
    PROVE  WebhookInv'
<1> USE DEF W!endpointVars, W!queueVars, W!historyVars
<1>1. /\ UNCHANGED <<job, made, stalls, holder, acks, unlogged, missed>>
      /\ log' = log \/ (log' = [d \in Delivery |-> <<>>] /\ endpoint' = "deleted")
      /\ endpoint = "deleted" => endpoint' = "deleted"
      /\ \/ doing' = doing /\ faults' = faults
         \/ doing' = [e \in Execution |-> W!Idle] /\ faults' = faults + 1 /\ faults < MaxFaults
    BY DEF W!SetActive, W!RotateSecret, W!DeleteEndpoint, W!FindEndpoints, W!ResendRead, W!Restart,
           W!Fault
<1>2. faults' \in 0 .. MaxFaults /\ faults <= faults' /\ (doing' # doing => faults' > 0)
    BY <1>1, WebhookTyped
<1>3. W!TypeOK'
    <2>1. secret' \in 0 .. MaxRotations
        BY DEF WebhookInv, W!TypeOK, W!WebhookAssumption, W!SetActive, W!RotateSecret,
               W!DeleteEndpoint, W!FindEndpoints, W!ResendRead, W!Restart, W!Fault
    <2>2. endpoint' \in {"active", "paused", "deleted"} /\ dispatch' \in {"before", "found", "over"}
          /\ resend' \in BOOLEAN
        BY DEF WebhookInv, W!TypeOK, W!SetActive, W!RotateSecret, W!DeleteEndpoint, W!FindEndpoints,
               W!ResendRead, W!Restart
    <2>3. log' \in [Delivery -> Seq([retry : 0 .. Attempts - 1, ok : BOOLEAN])]
        <3> DEFINE LogSet == Seq([retry : 0 .. Attempts - 1, ok : BOOLEAN])
        <3>1. <<>> \in LogSet
            OBVIOUS
        <3>2. log \in [Delivery -> LogSet]
            BY DEF WebhookInv, W!TypeOK
        <3> HIDE DEF LogSet
        <3>3. log' \in [Delivery -> LogSet]
            BY <1>1, <3>1, <3>2
        <3> QED BY <3>3 DEF LogSet
    <2>4. doing' \in [Execution ->
                         [at : {"read", "post", "record", "settle"}, of : Delivery,
                          retry : 0 .. Attempts - 1, key : 0 .. MaxRotations, ok : BOOLEAN]
                              \cup {W!Idle}]
        BY <1>1 DEF WebhookInv, W!TypeOK
    <2> QED BY <1>1, <1>2, <2>1, <2>2, <2>3, <2>4 DEF WebhookInv, W!TypeOK
<1>4. \A d \in Delivery : \A e \in Execution :
          /\ doing'[e].of = d => doing'[e] = doing[e]
          /\ doing[e].of = d => doing'[e].of = d \/ faults' > 0
    <2>1. W!Idle.of \notin Delivery
        BY DEF W!Idle, W!WebhookAssumption
    <2> QED BY <1>1, <1>2, <2>1
<1>5. faults' \in Nat
    BY <1>2
<1>6. ASSUME NEW d \in Delivery PROVE Told(d)'
    <2>1. Told(d)
        BY DEF WebhookInv
    <2> QED BY <1>1, <1>2, <1>4, <1>5, <2>1, OthersStay
<1> QED BY <1>3, <1>6 DEF WebhookInv

\* A delivery is queued.
LEMMA AddTells ==
    ASSUME W!WebhookAssumption, WebhookInv, W!AddBulk \/ W!ResendAdd PROVE WebhookInv'
<1> USE DEF W!endpointVars, W!queueVars, W!historyVars
<1>1. /\ UNCHANGED <<endpoint, secret, made, stalls, holder, doing, log, acks, unlogged, missed>>
      /\ faults' = faults \/ (faults < MaxFaults /\ faults' = faults + 1)
      /\ job' = job \/ \E d \in Delivery : W!Add(d)
      /\ dispatch' \in {"before", "found", "over"} /\ resend' \in BOOLEAN
    BY DEF W!AddBulk, W!ResendAdd, W!Fault, W!NoFault, W!WebhookAssumption, WebhookInv, W!TypeOK
<1>2. faults' \in 0 .. MaxFaults /\ faults <= faults' /\ faults' \in Nat
    BY <1>1, WebhookTyped
<1>3. ASSUME NEW d \in Delivery, job'[d] = job[d] PROVE Told(d)'
    <2>1. Told(d)
        BY DEF WebhookInv
    <2> QED BY <1>1, <1>2, <1>3, <2>1, OthersStay
<1>4. CASE job' = job
    <2>1. W!TypeOK'
        BY <1>1, <1>2, <1>4 DEF WebhookInv, W!TypeOK
    <2> QED BY <1>3, <1>4, <2>1 DEF WebhookInv
<1>5. ASSUME NEW d \in Delivery, W!Add(d) PROVE WebhookInv'
    <2>1. /\ job[d] = "none" /\ job'[d] = "waiting"
          /\ \A b \in Delivery \ {d} : job'[b] = job[b]
          /\ job' \in [Delivery -> {"none", "waiting", "running", "done", "failed"}]
        BY <1>5 DEF W!Add, WebhookInv, W!TypeOK
    <2>2. W!TypeOK'
        BY <1>1, <1>2, <2>1 DEF WebhookInv, W!TypeOK
    <2>3. Told(d)'
        <3>1. Told(d) /\ \A e \in Execution : doing[e].of # d
            <4>1. Told(d) /\ stalls[d] = 0 /\ holder[d] = None
                BY <2>1, WebhookTyped DEF WebhookInv, Told, Untouched
            <4>2. \A e \in Execution : e # None
                BY DEF W!WebhookAssumption
            <4> QED BY <4>1, <4>2 DEF Told, OneExecution
        <3>2. /\ made[d] = 0 /\ stalls[d] = 0 /\ log[d] = <<>> /\ acks[d] = 0 /\ Attempts > 0
              /\ missed[d] = {}
            BY <2>1, <3>1, WebhookTyped DEF Told, Untouched
        <3>3. Tell(<<>>, {}, 0, 0)
            BY DEF Tell
        <3> QED BY <1>1, <2>1, <3>1, <3>2, <3>3 DEF Told, Untouched, Tries, OneExecution, Answers,
                                                   Rows
    <2> QED BY <1>3, <2>1, <2>2, <2>3 DEF WebhookInv
<1> QED BY <1>1, <1>4, <1>5

----------------------------------------------------------------------------
\* What an execution may be at.
Doings ==
    [at : {"read", "post", "record", "settle"}, of : Delivery, retry : 0 .. Attempts - 1,
     key : 0 .. MaxRotations, ok : BOOLEAN] \cup {W!Idle}

\* A step of one execution with one delivery does not touch the others.
LEMMA WorkIsApart ==
    ASSUME W!WebhookAssumption, WebhookInv, NEW e \in Execution, NEW d \in Delivery, NEW new,
           doing' = [doing EXCEPT ![e] = new], new.of \notin Delivery \ {d},
           doing[e].of \notin Delivery \ {d},
           \A b \in Delivery \ {d} :
              /\ job'[b] = job[b] /\ made'[b] = made[b] /\ stalls'[b] = stalls[b]
              /\ holder'[b] = holder[b] /\ log'[b] = log[b] /\ acks'[b] = acks[b]
              /\ unlogged'[b] = unlogged[b] /\ missed'[b] = missed[b],
           endpoint' = endpoint, faults' = faults \/ faults' = faults + 1
    PROVE  \A b \in Delivery \ {d} : Told(b)'
<1>1. SUFFICES ASSUME NEW b \in Delivery \ {d} PROVE Told(b)'
    OBVIOUS
<1>2. Told(b) /\ b \in Delivery
    BY DEF WebhookInv
<1>3. doing \in [Execution -> Doings]
    BY DEF WebhookInv, W!TypeOK, Doings
<1>4. \A x \in Execution : doing'[x] = IF x = e THEN new ELSE doing[x]
    BY <1>3
<1>5. \A x \in Execution : doing'[x].of = b => doing'[x] = doing[x]
    BY <1>4
<1>6. \A x \in Execution : doing[x].of = b => doing'[x].of = b \/ faults' > 0
    BY <1>4
<1>7. faults' \in Nat /\ faults <= faults'
    BY WebhookTyped
<1> QED BY <1>1, <1>2, <1>5, <1>6, <1>7, OthersStay

LEMMA TakeTells ==
    ASSUME W!WebhookAssumption, WebhookInv, NEW e \in Execution, NEW d \in Delivery, W!Take(e, d)
    PROVE  WebhookInv'
<1> DEFINE new == [W!Idle EXCEPT !.at = "read", !.of = d, !.retry = made[d]]
<1>0. new \in [at : {"read"}, of : {d}, retry : {made[d]}, key : {0}, ok : {FALSE}]
    BY DEF W!Idle
<1>1. new.at = "read" /\ new.of = d /\ new.retry = made[d] /\ new.ok = FALSE
    BY <1>0
<1>2. doing' = [doing EXCEPT ![e] = new] /\ doing[e].at = "idle"
    BY DEF W!Take, W!Goes
<1>3. Told(d) /\ job[d] = "waiting" /\ made[d] < Attempts /\ made[d] \in Nat
    BY WebhookTyped DEF W!Take, WebhookInv, Told, Tries
<1>4. new \in Doings
    <2>1. made[d] \in 0 .. Attempts - 1 /\ 0 \in 0 .. MaxRotations
        BY <1>3, WebhookTyped DEF W!WebhookAssumption
    <2> QED BY <1>0, <2>1 DEF Doings
<1> HIDE DEF new
<1>5. /\ UNCHANGED <<endpoint, secret, dispatch, resend, made, stalls, log, acks, unlogged, missed,
                     faults>>
      /\ job' \in [Delivery -> {"none", "waiting", "running", "done", "failed"}]
      /\ holder' \in [Delivery -> Execution \cup {None}]
      /\ job'[d] = "running" /\ holder'[d] = e
      /\ \A b \in Delivery \ {d} : job'[b] = job[b] /\ holder'[b] = holder[b]
    BY DEF W!Take, W!endpointVars, W!historyVars, WebhookInv, W!TypeOK
<1>6. doing \in [Execution -> Doings] /\ e # None
    BY DEF WebhookInv, W!TypeOK, Doings, W!WebhookAssumption
<1>7. \A x \in Execution : doing'[x] = IF x = e THEN new ELSE doing[x]
    BY <1>2, <1>6
<1>8. W!TypeOK'
    <2>1. doing' \in [Execution -> Doings]
        BY <1>2, <1>4, <1>6
    <2>2. \A b \in Delivery : holder'[b] # None <=> job'[b] = "running"
        BY <1>5, <1>6, WebhookTyped
    <2> QED BY <1>5, <2>1, <2>2 DEF WebhookInv, W!TypeOK, Doings
<1>9. \A b \in Delivery \ {d} : Told(b)'
    <2>1. doing[e].of \notin Delivery
        BY <1>2, WebhookTyped
    <2> QED BY <1>1, <1>2, <1>5, <2>1, WorkIsApart
<1>10. Told(d)'
    <2>1. stalls[d] = 0 => \A x \in Execution : doing[x].of # d
        BY <1>3, WebhookTyped DEF Told, OneExecution, W!WebhookAssumption
    <2>2. Untouched(d)' /\ Tries(d)' /\ OneExecution(d)'
        BY <1>1, <1>3, <1>5, <1>7, <2>1 DEF Untouched, Tries, OneExecution
    <2>3. Answers(d)'
        BY <1>1, <1>3, <1>5, <1>7, <2>1 DEF Told, Answers
    <2>4. Rows(d)'
        <3>1. stalls[d] = 0 /\ ~unlogged[d] /\ endpoint # "deleted" =>
                  Tell(log[d], missed[d], made[d], 0)
            BY <1>3 DEF Told, Answers, Rows
        <3> QED BY <1>1, <1>5, <1>7, <2>1, <3>1 DEF Rows
    <2> QED BY <2>2, <2>3, <2>4 DEF Told
<1> QED BY <1>8, <1>9, <1>10 DEF WebhookInv

\* The end of a job, by one that holds its lock or does not any more.
LEMMA SettleTypes ==
    ASSUME W!WebhookAssumption, WebhookInv, NEW e \in Execution, NEW d \in Delivery,
           NEW to \in {"waiting", "done", "failed"}, NEW n \in 0 .. Attempts,
           W!SettleJob(e, d, to, n)
    PROVE  /\ job' \in [Delivery -> {"none", "waiting", "running", "done", "failed"}]
           /\ holder' \in [Delivery -> Execution \cup {None}]
           /\ made' \in [Delivery -> 0 .. Attempts]
           /\ \A b \in Delivery : holder'[b] # None <=> job'[b] = "running"
           /\ \A b \in Delivery \ {d} : job'[b] = job[b] /\ holder'[b] = holder[b] /\ made'[b] = made[b]
           /\ IF holder[d] = e THEN job'[d] = to /\ holder'[d] = None /\ made'[d] = n
                               ELSE job'[d] = job[d] /\ holder'[d] = holder[d] /\ made'[d] = made[d]
<1>1. /\ job \in [Delivery -> {"none", "waiting", "running", "done", "failed"}]
      /\ holder \in [Delivery -> Execution \cup {None}] /\ made \in [Delivery -> 0 .. Attempts]
      /\ \A b \in Delivery : holder[b] # None <=> job[b] = "running"
    BY DEF WebhookInv, W!TypeOK
<1>2. CASE holder[d] = e
    <2>1. /\ job' = [job EXCEPT ![d] = to] /\ made' = [made EXCEPT ![d] = n]
          /\ holder' = [holder EXCEPT ![d] = None]
        BY <1>2 DEF W!SettleJob
    <2> QED BY <1>1, <1>2, <2>1
<1>3. CASE holder[d] # e
    BY <1>1, <1>3 DEF W!SettleJob
<1> QED BY <1>2, <1>3

\* The end of a try that threw.
LEMMA RetryTypes ==
    ASSUME W!WebhookAssumption, WebhookInv, NEW e \in Execution, NEW d \in Delivery,
           W!SettleJob(e, d, W!Retried(d), made[d] + 1)
    PROVE  /\ job' \in [Delivery -> {"none", "waiting", "running", "done", "failed"}]
           /\ holder' \in [Delivery -> Execution \cup {None}]
           /\ made' \in [Delivery -> 0 .. Attempts]
           /\ \A b \in Delivery : holder'[b] # None <=> job'[b] = "running"
           /\ \A b \in Delivery \ {d} : job'[b] = job[b] /\ holder'[b] = holder[b] /\ made'[b] = made[b]
           /\ IF holder[d] = e
              THEN job'[d] = W!Retried(d) /\ holder'[d] = None /\ made'[d] = made[d] + 1
              ELSE job'[d] = job[d] /\ holder'[d] = holder[d] /\ made'[d] = made[d]
<1>1. CASE holder[d] = e
    <2>1. made[d] + 1 \in 0 .. Attempts
        BY <1>1, WebhookTyped DEF WebhookInv, Told, Tries, W!WebhookAssumption
    <2>2. W!Retried(d) \in {"waiting", "done", "failed"}
        BY DEF W!Retried
    <2> QED BY <2>1, <2>2, SettleTypes
<1>2. CASE holder[d] # e
    <2>1. UNCHANGED <<job, made, holder>>
        BY <1>2 DEF W!SettleJob
    <2> QED BY <1>2, <2>1, WebhookTyped DEF WebhookInv, W!TypeOK
<1> QED BY <1>1, <1>2

\* A try that has no row is skipped.
LEMMA SkipTells ==
    ASSUME NEW rows, NEW skipped, NEW n \in Nat, NEW answers, Tell(rows, skipped, n, answers)
    PROVE  Tell(rows, skipped \cup {n}, n + 1, answers)
<1> DEFINE tries == {rows[i].retry : i \in 1 .. Len(rows)}
           more == skipped \cup {n}
<1>1. tries = (0 .. n - 1) \ skipped /\ skipped \subseteq 0 .. n - 1
    BY DEF Tell
<1> HIDE DEF tries
<1>2. 0 .. n = (0 .. n - 1) \cup {n} /\ n \notin 0 .. n - 1 /\ n + 1 - 1 = n
    OBVIOUS
<1>3. tries = (0 .. n + 1 - 1) \ more /\ more \subseteq 0 .. n + 1 - 1
    BY <1>1, <1>2
<1> HIDE DEF more
<1>4. /\ \A i, j \in 1 .. Len(rows) : i < j => rows[i].retry < rows[j].retry
      /\ \A i \in 1 .. Len(rows) : rows[i].ok <=> i = Len(rows) /\ answers > 0
      /\ answers > 0 => rows # <<>>
    BY DEF Tell
<1>5. Tell(rows, more, n + 1, answers)
    BY <1>3, <1>4 DEF Tell, tries
<1> QED BY <1>5 DEF more

LEMMA ReadEndpointTells ==
    ASSUME W!WebhookAssumption, WebhookInv, NEW e \in Execution, W!ReadEndpoint(e)
    PROVE  WebhookInv'
<1>0. PICK d \in Delivery : doing[e].of = d
    BY WebhookTyped DEF W!ReadEndpoint, W!Goes
<1>1. doing[e].at = "read" /\ doing[e] \in Doings /\ doing[e].of = d
    BY <1>0, WebhookTyped DEF W!ReadEndpoint, W!Goes, Doings
<1>2. doing \in [Execution -> Doings]
    BY DEF WebhookInv, W!TypeOK, Doings
<1>3. UNCHANGED <<endpoint, secret, dispatch, resend, stalls, log, acks, unlogged>>
    BY DEF W!ReadEndpoint, W!endpointVars
<1>4. Told(d) /\ (stalls[d] = 0 => holder[d] = e /\ acks[d] = 0)
    BY <1>1 DEF WebhookInv, Told, OneExecution, Answers
<1>t. job[d] = "running" => holder[d] \in Execution
    BY WebhookTyped
<1>5. CASE endpoint = "active" /\ UNCHANGED <<job, made, holder, missed, faults>>
             /\ W!Goes(e, "read", [doing[e] EXCEPT !.at = "post", !.key = secret])
    <2> DEFINE new == [doing[e] EXCEPT !.at = "post", !.key = secret]
    <2>1. /\ new.at = "post" /\ new.of = d /\ new.retry = doing[e].retry /\ new.ok = doing[e].ok
          /\ new \in Doings
        <3>1. doing[e] \in [at : {"read", "post", "record", "settle"}, of : Delivery,
                            retry : 0 .. Attempts - 1, key : 0 .. MaxRotations, ok : BOOLEAN]
            BY <1>1 DEF Doings, W!Idle
        <3>2. secret \in 0 .. MaxRotations
            BY DEF WebhookInv, W!TypeOK
        <3> QED BY <1>1, <3>1, <3>2 DEF Doings
    <2>2. doing' = [doing EXCEPT ![e] = new]
        BY <1>5 DEF W!Goes
    <2> HIDE DEF new
    <2>3. \A x \in Execution : doing'[x] = IF x = e THEN new ELSE doing[x]
        BY <1>2, <2>2
    <2>4. W!TypeOK'
        <3>1. doing' \in [Execution -> Doings]
            BY <1>2, <2>1, <2>2
        <3> QED BY <1>3, <1>5, <3>1 DEF WebhookInv, W!TypeOK, Doings
    <2>5. \A b \in Delivery \ {d} : Told(b)'
        BY <1>1, <1>3, <1>5, <2>1, <2>2, WorkIsApart
    <2>6. Untouched(d)' /\ Tries(d)' /\ OneExecution(d)'
        BY <1>1, <1>3, <1>4, <1>t, <1>5, <2>1, <2>3 DEF Told, Untouched, Tries, OneExecution
    <2>7. Answers(d)' /\ Rows(d)'
        BY <1>1, <1>3, <1>4, <1>5, <2>1, <2>3 DEF Told, Answers, Rows
    <2> QED BY <2>4, <2>5, <2>6, <2>7 DEF WebhookInv, Told
<1>6. CASE endpoint # "active" /\ W!Goes(e, "read", W!Idle) /\ W!SettleJob(e, d, "done", made[d])
             /\ UNCHANGED <<missed, faults>>
    <2>1. doing' = [doing EXCEPT ![e] = W!Idle] /\ W!Idle.of \notin Delivery /\ W!Idle \in Doings
        BY <1>6 DEF W!Goes, W!Idle, Doings, W!WebhookAssumption
    <2>2. \A x \in Execution : doing'[x] = IF x = e THEN W!Idle ELSE doing[x]
        BY <1>2, <2>1
    <2>3. made[d] \in 0 .. Attempts
        BY <1>1 DEF WebhookInv, W!TypeOK
    <2>4. /\ job' \in [Delivery -> {"none", "waiting", "running", "done", "failed"}]
          /\ holder' \in [Delivery -> Execution \cup {None}]
          /\ made' \in [Delivery -> 0 .. Attempts]
          /\ \A b \in Delivery : holder'[b] # None <=> job'[b] = "running"
          /\ \A b \in Delivery \ {d} : job'[b] = job[b] /\ holder'[b] = holder[b]
                                       /\ made'[b] = made[b]
          /\ IF holder[d] = e THEN job'[d] = "done" /\ holder'[d] = None /\ made'[d] = made[d]
             ELSE job'[d] = job[d] /\ holder'[d] = holder[d] /\ made'[d] = made[d]
        BY <1>1, <1>6, <2>3, SettleTypes
    <2>5. W!TypeOK'
        <3>1. doing' \in [Execution -> Doings]
            BY <1>2, <2>1
        <3> QED BY <1>3, <1>6, <2>4, <3>1 DEF WebhookInv, W!TypeOK, Doings
    <2>6. \A b \in Delivery \ {d} : Told(b)'
        BY <1>1, <1>3, <1>6, <2>1, <2>4, WorkIsApart
    <2>7. stalls[d] = 0 => \A x \in Execution : doing'[x].of # d
        BY <1>1, <1>4, <2>1, <2>2 DEF Told, OneExecution
    <2>8. job[d] # "none"
        BY <1>1, <1>4, WebhookTyped DEF Told, Untouched, W!WebhookAssumption
    <2>9. Untouched(d)' /\ Tries(d)' /\ OneExecution(d)'
        BY <1>1, <1>3, <1>4, <1>6, <2>2, <2>4, <2>7, <2>8, WebhookTyped
        DEF Told, Untouched, Tries, OneExecution
    <2>10. Answers(d)'
        BY <1>1, <1>3, <1>4, <2>4, <2>7 DEF Told, Answers
    <2>11. Rows(d)'
        <3>1. stalls[d] = 0 /\ ~unlogged[d] /\ endpoint # "deleted" =>
                  Tell(log[d], missed[d], made[d], 0)
            BY <1>1, <1>4 DEF Told, Rows
        <3> QED BY <1>3, <1>4, <1>6, <2>4, <2>7, <3>1 DEF Rows
    <2> QED BY <2>5, <2>6, <2>9, <2>10, <2>11 DEF WebhookInv, Told
<1>7. CASE /\ W!Goes(e, "read", W!Idle) /\ W!SettleJob(e, d, W!Retried(d), made[d] + 1)
           /\ missed' = [missed EXCEPT ![d] = @ \cup {doing[e].retry}]
           /\ faults < MaxFaults /\ faults' = faults + 1
    <2>1. doing' = [doing EXCEPT ![e] = W!Idle] /\ W!Idle.of \notin Delivery /\ W!Idle \in Doings
        BY <1>7 DEF W!Goes, W!Idle, Doings, W!WebhookAssumption
    <2>2. \A x \in Execution : doing'[x] = IF x = e THEN W!Idle ELSE doing[x]
        BY <1>2, <2>1
    <2>3. faults' \in 0 .. MaxFaults /\ faults' > 0
        BY <1>7, WebhookTyped
    <2>4. /\ missed' \in [Delivery -> SUBSET (0 .. Attempts - 1)]
          /\ missed'[d] = missed[d] \cup {doing[e].retry}
          /\ \A b \in Delivery \ {d} : missed'[b] = missed[b]
        <3>1. doing[e].retry \in 0 .. Attempts - 1
            BY <1>1 DEF Doings, W!Idle
        <3> QED BY <1>7, <3>1 DEF WebhookInv, W!TypeOK
    <2>5. /\ job' \in [Delivery -> {"none", "waiting", "running", "done", "failed"}]
          /\ holder' \in [Delivery -> Execution \cup {None}]
          /\ made' \in [Delivery -> 0 .. Attempts]
          /\ \A b \in Delivery : holder'[b] # None <=> job'[b] = "running"
          /\ \A b \in Delivery \ {d} : job'[b] = job[b] /\ holder'[b] = holder[b]
                                       /\ made'[b] = made[b]
          /\ IF holder[d] = e THEN job'[d] = W!Retried(d) /\ holder'[d] = None
                                  /\ made'[d] = made[d] + 1
             ELSE job'[d] = job[d] /\ holder'[d] = holder[d] /\ made'[d] = made[d]
        BY <1>7, RetryTypes
    <2>6. W!TypeOK'
        <3>1. doing' \in [Execution -> Doings]
            BY <1>2, <2>1
        <3> QED BY <1>3, <2>3, <2>4, <2>5, <3>1 DEF WebhookInv, W!TypeOK, Doings
    <2>7. \A b \in Delivery \ {d} : Told(b)'
        <3>1. faults' = faults + 1
            BY <1>7
        <3> QED BY <1>1, <1>3, <2>1, <2>4, <2>5, <3>1, WorkIsApart
    <2>8. stalls[d] = 0 => \A x \in Execution : doing'[x].of # d
        BY <1>1, <1>4, <2>1, <2>2 DEF Told, OneExecution
    <2>9. job[d] # "none"
        BY <1>1, <1>4, WebhookTyped DEF Told, Untouched, W!WebhookAssumption
    <2>10. IF made[d] + 1 < Attempts THEN W!Retried(d) = "waiting" ELSE W!Retried(d) = "failed"
        BY DEF W!Retried
    <2>11. Untouched(d)' /\ Tries(d)' /\ OneExecution(d)'
        BY <1>1, <1>3, <1>4, <1>t, <2>2, <2>3, <2>5, <2>8, <2>9, <2>10, WebhookTyped
        DEF Told, Untouched, Tries, OneExecution
    <2>12. stalls[d] = 0 => made[d] < Attempts /\ doing[e].retry = made[d] /\ job'[d] # "done"
        BY <1>1, <1>4, <2>5, <2>10, WebhookTyped DEF Told, Tries, Answers, W!WebhookAssumption
    <2>13. Answers(d)'
        BY <1>1, <1>3, <1>4, <2>5, <2>8, <2>10, <2>12, WebhookTyped DEF Told, Answers
    <2>14. Rows(d)'
        <3>1. stalls[d] = 0 /\ ~unlogged[d] /\ endpoint # "deleted" =>
                  Tell(log[d], missed[d], made[d], 0)
            BY <1>1, <1>4 DEF Told, Rows
        <3>2. stalls[d] = 0 /\ ~unlogged[d] /\ endpoint # "deleted" =>
                  Tell(log[d], missed[d] \cup {made[d]}, made[d] + 1, 0)
            BY <3>1, SkipTells, WebhookTyped
        <3> QED BY <1>3, <1>4, <2>4, <2>5, <2>8, <2>12, <3>2 DEF Rows
    <2> QED BY <2>6, <2>7, <2>11, <2>13, <2>14 DEF WebhookInv, Told
<1> QED BY <1>1, <1>5, <1>6, <1>7 DEF W!ReadEndpoint, W!queueVars, W!NoFault, W!Fault

LEMMA PostTells ==
    ASSUME W!WebhookAssumption, WebhookInv, NEW e \in Execution, W!Post(e) PROVE WebhookInv'
<1>0. PICK d \in Delivery : doing[e].of = d
    BY WebhookTyped DEF W!Post, W!Goes
<1>1. doing[e].at = "post"
    BY DEF W!Post, W!Goes
<1>2. doing \in [Execution -> Doings]
    BY DEF WebhookInv, W!TypeOK, Doings
<1>3. PICK ok \in BOOLEAN :
          /\ doing' = [doing EXCEPT ![e] = [doing[e] EXCEPT !.at = "record", !.ok = ok]]
          /\ acks' = [acks EXCEPT ![d] = @ + (IF ok THEN 1 ELSE 0)]
    BY <1>0 DEF W!Post, W!Goes
<1>4. UNCHANGED <<endpoint, secret, dispatch, resend, job, made, stalls, holder, log, unlogged,
                  missed, faults>>
    BY DEF W!Post, W!endpointVars, W!queueVars
<1> DEFINE new == [doing[e] EXCEPT !.at = "record", !.ok = ok]
<1>5. /\ new.at = "record" /\ new.of = d /\ new.retry = doing[e].retry /\ new.ok = ok
      /\ new \in Doings
    <2>1. doing[e] \in [at : {"read", "post", "record", "settle"}, of : Delivery,
                        retry : 0 .. Attempts - 1, key : 0 .. MaxRotations, ok : BOOLEAN]
        BY <1>1, <1>2 DEF Doings, W!Idle
    <2> QED BY <1>0, <2>1 DEF Doings
<1>6. doing' = [doing EXCEPT ![e] = new]
    BY <1>3
<1> HIDE DEF new
<1>7. \A x \in Execution : doing'[x] = IF x = e THEN new ELSE doing[x]
    BY <1>2, <1>6
<1>8. /\ acks' \in [Delivery -> Nat] /\ acks'[d] = acks[d] + (IF ok THEN 1 ELSE 0)
      /\ \A b \in Delivery \ {d} : acks'[b] = acks[b]
    BY <1>3 DEF WebhookInv, W!TypeOK
<1>9. W!TypeOK'
    <2>1. doing' \in [Execution -> Doings]
        BY <1>2, <1>5, <1>6
    <2> QED BY <1>4, <1>8, <2>1 DEF WebhookInv, W!TypeOK, Doings
<1>10. \A b \in Delivery \ {d} : Told(b)'
    BY <1>0, <1>4, <1>5, <1>6, <1>8, WorkIsApart
<1>11. Told(d) /\ (stalls[d] = 0 => holder[d] = e /\ acks[d] = 0 /\ job[d] = "running")
    BY <1>0, <1>1, WebhookTyped DEF WebhookInv, Told, OneExecution, Answers, W!WebhookAssumption
<1>12. job[d] # "none"
    BY <1>11, WebhookTyped DEF Told, Untouched
<1>13. Untouched(d)' /\ Tries(d)' /\ OneExecution(d)'
    BY <1>0, <1>4, <1>5, <1>7, <1>11, <1>12, WebhookTyped DEF Told, Untouched, Tries, OneExecution
<1>14. Answers(d)'
    <2>1. stalls[d] = 0 => \A x \in Execution : doing[x].of = d => x = e
        BY <1>11 DEF Told, OneExecution
    <2>2. acks'[d] = IF ok THEN acks[d] + 1 ELSE acks[d]
        BY <1>8, WebhookTyped
    <2>3. stalls[d] = 0 => doing[e].retry = made[d]
        BY <1>0, <1>11 DEF Told, Answers
    <2> QED BY <1>4, <1>5, <1>7, <1>11, <2>1, <2>2, <2>3 DEF Answers
<1>15. Rows(d)'
    BY <1>0, <1>1, <1>4, <1>5, <1>7, <1>11 DEF Told, Rows, OneExecution
<1> QED BY <1>9, <1>10, <1>13, <1>14, <1>15 DEF WebhookInv, Told

\* The row of a try is appended to those of the tries before it.
LEMMA RowTells ==
    ASSUME NEW RowSet, NEW rows \in Seq(RowSet), NEW skipped, NEW n \in Nat, NEW answers, NEW row,
           Tell(rows, skipped, n, 0), row.retry = n, row.ok <=> answers > 0
    PROVE  Tell(Append(rows, row), skipped, n + 1, answers)
<1> DEFINE long == Append(rows, row)
           len == Len(rows)
<1>1. /\ len \in Nat /\ Len(long) = len + 1 /\ long # <<>> /\ long[len + 1] = row
      /\ \A i \in 1 .. len : long[i] = rows[i]
    OBVIOUS
<1>2. \A i \in 1 .. len + 1 : i \in 1 .. len \/ i = len + 1
    BY <1>1
<1> HIDE DEF long, len
<1>3. /\ skipped \subseteq 0 .. n - 1
      /\ {rows[i].retry : i \in 1 .. len} = (0 .. n - 1) \ skipped
      /\ \A i, j \in 1 .. len : i < j => rows[i].retry < rows[j].retry
      /\ \A i \in 1 .. len : ~rows[i].ok
    BY DEF Tell, len
<1>4. {long[i].retry : i \in 1 .. len + 1} = {rows[i].retry : i \in 1 .. len} \cup {n}
    BY <1>1, <1>2
<1> DEFINE retries == {long[i].retry : i \in 1 .. len + 1}
           tries == {rows[i].retry : i \in 1 .. len}
<1>a. 0 .. n = (0 .. n - 1) \cup {n} /\ n \notin 0 .. n - 1 /\ n + 1 - 1 = n
    OBVIOUS
<1>b. retries = tries \cup {n} /\ tries = (0 .. n - 1) \ skipped /\ skipped \subseteq 0 .. n - 1
    BY <1>3, <1>4
<1> HIDE DEF retries, tries
<1>5. retries = (0 .. n + 1 - 1) \ skipped /\ skipped \subseteq 0 .. n + 1 - 1
    BY <1>a, <1>b
<1>6. \A i \in 1 .. len : rows[i].retry \in 0 .. n - 1
    BY <1>3
<1>7. \A i, j \in 1 .. len + 1 : i < j => long[i].retry < long[j].retry
    <2> SUFFICES ASSUME NEW i \in 1 .. len + 1, NEW j \in 1 .. len + 1, i < j
                 PROVE  long[i].retry < long[j].retry
        OBVIOUS
    <2>1. i \in 1 .. len
        BY <1>1
    <2>2. CASE j \in 1 .. len
        BY <1>1, <1>3, <2>1, <2>2
    <2>3. CASE j = len + 1
        BY <1>1, <1>6, <2>1, <2>3
    <2> QED BY <1>2, <2>2, <2>3
<1>8. \A i \in 1 .. len + 1 : long[i].ok <=> i = len + 1 /\ answers > 0
    BY <1>1, <1>2, <1>3
<1>9. {long[i].retry : i \in 1 .. Len(long)} = (0 .. n + 1 - 1) \ skipped
    BY <1>1, <1>5 DEF retries
<1>10. \A i, j \in 1 .. Len(long) : i < j => long[i].retry < long[j].retry
    BY <1>1, <1>7
<1>11. \A i \in 1 .. Len(long) : long[i].ok <=> i = Len(long) /\ answers > 0
    BY <1>1, <1>8
<1>12. Tell(long, skipped, n + 1, answers)
    BY <1>1, <1>5, <1>9, <1>10, <1>11 DEF Tell
<1> QED BY <1>12 DEF long

LEMMA RecordTells ==
    ASSUME W!WebhookAssumption, WebhookInv, NEW e \in Execution, W!Record(e) PROVE WebhookInv'
<1>0. PICK d \in Delivery : doing[e].of = d
    BY WebhookTyped DEF W!Record, W!Goes
<1>1. doing[e].at = "record"
    BY DEF W!Record
<1>2. doing \in [Execution -> Doings]
    BY DEF WebhookInv, W!TypeOK, Doings
<1> DEFINE row == [retry |-> doing[e].retry, ok |-> doing[e].ok]
<1>3. /\ UNCHANGED <<endpoint, secret, dispatch, resend, job, made, stalls, holder, acks, missed>>
      /\ doing' = [doing EXCEPT ![e] = [doing[e] EXCEPT !.at = "settle"]]
      /\ faults' = faults \/ (faults < MaxFaults /\ faults' = faults + 1)
      /\ \/ /\ endpoint # "deleted"
            /\ log' = [log EXCEPT ![d] = Append(@, row)]
            /\ unlogged' = unlogged
         \/ /\ unlogged' = [unlogged EXCEPT ![d] = TRUE]
            /\ log' = log
    BY <1>0 DEF W!Record, W!Goes, W!NoFault, W!Fault, W!endpointVars, W!queueVars
<1> DEFINE new == [doing[e] EXCEPT !.at = "settle"]
<1>4. doing[e] \in [at : {"read", "post", "record", "settle"}, of : Delivery,
                    retry : 0 .. Attempts - 1, key : 0 .. MaxRotations, ok : BOOLEAN]
    BY <1>1, <1>2 DEF Doings, W!Idle
<1>5. /\ new.at = "settle" /\ new.of = d /\ new.retry = doing[e].retry /\ new.ok = doing[e].ok
      /\ new \in Doings
    BY <1>0, <1>4 DEF Doings
<1>6. row \in [retry : 0 .. Attempts - 1, ok : BOOLEAN] /\ row.retry = doing[e].retry
      /\ row.ok = doing[e].ok
    BY <1>4
<1>7. doing' = [doing EXCEPT ![e] = new]
    BY <1>3
<1> HIDE DEF new, row
<1>8. \A x \in Execution : doing'[x] = IF x = e THEN new ELSE doing[x]
    BY <1>2, <1>7
<1>9. /\ \A b \in Delivery \ {d} : log'[b] = log[b] /\ unlogged'[b] = unlogged[b]
      /\ unlogged' \in [Delivery -> BOOLEAN]
      /\ \/ log'[d] = Append(log[d], row) /\ unlogged'[d] = unlogged[d]
         \/ log'[d] = log[d] /\ unlogged'[d]
    <2>1. unlogged \in [Delivery -> BOOLEAN]
        BY DEF WebhookInv, W!TypeOK
    <2>2. \A b \in Delivery : log' = [log EXCEPT ![d] = Append(@, row)] =>
              log'[b] = IF b = d THEN Append(log[d], row) ELSE log[b]
        <3>1. DOMAIN log = Delivery
            BY DEF WebhookInv, W!TypeOK
        <3> QED BY <3>1
    <2> QED BY <1>3, <2>1, <2>2
<1>10. log'[d] \in Seq([retry : 0 .. Attempts - 1, ok : BOOLEAN])
    <2> DEFINE RowSet == [retry : 0 .. Attempts - 1, ok : BOOLEAN]
    <2>1. log[d] \in Seq(RowSet) /\ row \in RowSet
        BY <1>6, WebhookTyped
    <2> HIDE DEF RowSet
    <2>2. Append(log[d], row) \in Seq(RowSet)
        BY <2>1
    <2>3. log'[d] \in Seq(RowSet)
        BY <1>9, <2>1, <2>2
    <2> QED BY <2>3 DEF RowSet
<1>11. faults' \in 0 .. MaxFaults /\ faults <= faults' /\ faults' \in Nat
    BY <1>3, WebhookTyped
<1>12. W!TypeOK'
    <2>1. doing' \in [Execution -> Doings]
        BY <1>2, <1>5, <1>7
    <2>2. log' \in [Delivery -> Seq([retry : 0 .. Attempts - 1, ok : BOOLEAN])]
        <3> DEFINE LogSet == Seq([retry : 0 .. Attempts - 1, ok : BOOLEAN])
        <3>1. log \in [Delivery -> LogSet] /\ log'[d] \in LogSet
            BY <1>10 DEF WebhookInv, W!TypeOK
        <3> HIDE DEF LogSet
        <3>2. log' = log \/ log' = [log EXCEPT ![d] = log'[d]]
            BY <1>3, <3>1
        <3>3. log' \in [Delivery -> LogSet]
            BY <3>1, <3>2
        <3> QED BY <3>3 DEF LogSet
    <2> QED BY <1>3, <1>9, <1>11, <2>1, <2>2 DEF WebhookInv, W!TypeOK, Doings
<1>13. \A b \in Delivery \ {d} : Told(b)'
    <2>1. faults' = faults \/ faults' = faults + 1
        BY <1>3
    <2>2. UNCHANGED <<endpoint, job, made, stalls, holder, acks, missed>>
        BY <1>3
    <2>3. \A b \in Delivery \ {d} : log'[b] = log[b] /\ unlogged'[b] = unlogged[b]
        BY <1>9
    <2> QED BY <1>0, <1>5, <1>7, <2>1, <2>2, <2>3, WorkIsApart
<1>14. Told(d)
    BY DEF WebhookInv
<1>15. stalls[d] = 0 => /\ holder[d] = e /\ job[d] = "running" /\ doing[e].retry = made[d]
                       /\ \A x \in Execution : doing[x].of = d => x = e
    BY <1>0, <1>1, <1>14, WebhookTyped DEF Told, OneExecution, Answers, W!WebhookAssumption
<1>16. job[d] # "none"
    BY <1>14, <1>15, WebhookTyped DEF Told, Untouched
<1>17. Untouched(d)' /\ Tries(d)' /\ OneExecution(d)'
    BY <1>0, <1>3, <1>5, <1>8, <1>11, <1>14, <1>16, WebhookTyped
    DEF Told, Untouched, Tries, OneExecution
<1>18. Answers(d)'
    <2>1. stalls[d] = 0 => acks[d] = IF doing[e].ok THEN 1 ELSE 0
        BY <1>0, <1>1, <1>14 DEF Told, Answers
    <2> QED BY <1>3, <1>5, <1>8, <1>14, <1>15, <2>1 DEF Told, Answers
<1>19. Rows(d)'
    <2>1. ASSUME stalls[d] = 0, ~unlogged'[d], endpoint # "deleted"
          PROVE  Tell(log'[d], missed[d], made[d] + 1, acks[d])
        <3>1. Tell(log[d], missed[d], made[d], 0) /\ log'[d] = Append(log[d], row)
            BY <1>0, <1>1, <1>9, <1>14, <2>1 DEF Told, Rows, WebhookInv, W!TypeOK
        <3>2. log[d] \in Seq([retry : 0 .. Attempts - 1, ok : BOOLEAN]) /\ made[d] \in Nat
            BY WebhookTyped
        <3>3. row.retry = made[d] /\ (row.ok <=> acks[d] > 0)
            BY <1>0, <1>1, <1>6, <1>14, <1>15, <2>1 DEF Told, Answers
        <3> QED BY <3>1, <3>2, <3>3, RowTells
    <2>2. doing'[e] = new /\ UNCHANGED <<made, stalls, endpoint, job, missed, acks>>
        BY <1>3, <1>8
    <2>3. \A x \in Execution : doing'[x].of = d /\ stalls[d] = 0 => x = e
        BY <1>8, <1>15
    <2>4. job[d] = "running" \/ stalls[d] # 0
        BY <1>15
    <2> QED BY <1>5, <2>1, <2>2, <2>3, <2>4 DEF Rows
<1> QED BY <1>12, <1>13, <1>17, <1>18, <1>19 DEF WebhookInv, Told

LEMMA SettleTells ==
    ASSUME W!WebhookAssumption, WebhookInv, NEW e \in Execution, W!Settle(e) PROVE WebhookInv'
<1>0. PICK d \in Delivery : doing[e].of = d
    BY WebhookTyped DEF W!Settle, W!Goes
<1>1. doing[e].at = "settle"
    BY DEF W!Settle, W!Goes
<1>2. doing \in [Execution -> Doings]
    BY DEF WebhookInv, W!TypeOK, Doings
<1> DEFINE next == IF doing[e].ok THEN "done"
                   ELSE IF made[d] + 1 < Attempts THEN "waiting" ELSE "failed"
<1>3. /\ doing' = [doing EXCEPT ![e] = W!Idle]
      /\ W!SettleJob(e, d, next, made[d] + 1)
      /\ UNCHANGED <<endpoint, secret, dispatch, resend, stalls, log, acks, unlogged, missed, faults>>
    BY <1>0 DEF W!Settle, W!Retried, W!Goes, W!endpointVars, W!historyVars
<1>4. W!Idle.of \notin Delivery /\ W!Idle \in Doings
    BY DEF W!Idle, Doings, W!WebhookAssumption
<1>5. \A x \in Execution : doing'[x] = IF x = e THEN W!Idle ELSE doing[x]
    BY <1>2, <1>3
<1>6. Told(d) /\ made[d] \in Nat /\ made[d] <= Attempts /\ acks[d] \in Nat /\ Attempts \in Nat
    BY WebhookTyped DEF WebhookInv
<1>7. stalls[d] = 0 => /\ holder[d] = e /\ job[d] = "running" /\ made[d] < Attempts
                      /\ \A x \in Execution : doing[x].of = d => x = e
    BY <1>0, <1>6, WebhookTyped DEF Told, Tries, OneExecution, W!WebhookAssumption
<1>8. /\ job' \in [Delivery -> {"none", "waiting", "running", "done", "failed"}]
      /\ holder' \in [Delivery -> Execution \cup {None}]
      /\ made' \in [Delivery -> 0 .. Attempts]
      /\ \A b \in Delivery : holder'[b] # None <=> job'[b] = "running"
      /\ \A b \in Delivery \ {d} : job'[b] = job[b] /\ holder'[b] = holder[b] /\ made'[b] = made[b]
      /\ IF holder[d] = e THEN job'[d] = next /\ holder'[d] = None /\ made'[d] = made[d] + 1
         ELSE job'[d] = job[d] /\ holder'[d] = holder[d] /\ made'[d] = made[d]
    <2>1. CASE holder[d] = e
        <3>1. made[d] < Attempts
            BY <1>6, <2>1, WebhookTyped DEF Told, Tries, W!WebhookAssumption
        <3>2. made[d] + 1 \in 0 .. Attempts
            BY <1>6, <3>1
        <3>3. next \in {"waiting", "done", "failed"}
            OBVIOUS
        <3> HIDE DEF next
        <3> QED BY <1>3, <3>2, <3>3, SettleTypes
    <2>2. CASE holder[d] # e
        <3>1. UNCHANGED <<job, made, holder>>
            BY <1>3, <2>2 DEF W!SettleJob
        <3> QED BY <2>2, <3>1, WebhookTyped DEF WebhookInv, W!TypeOK
    <2> QED BY <2>1, <2>2
<1>9. W!TypeOK'
    <2>1. doing' \in [Execution -> Doings]
        BY <1>2, <1>3, <1>4
    <2> QED BY <1>3, <1>8, <2>1 DEF WebhookInv, W!TypeOK, Doings
<1>10. \A b \in Delivery \ {d} : Told(b)'
    BY <1>0, <1>3, <1>4, <1>8, WorkIsApart
<1>11. stalls[d] = 0 => \A x \in Execution : doing'[x].of # d
    BY <1>4, <1>5, <1>7
<1>12. job[d] # "none"
    BY <1>6, <1>7, WebhookTyped DEF Told, Untouched
<1>13. job'[d] # "none" /\ (job'[d] \in {"waiting", "running"} => made'[d] < Attempts)
       /\ (job'[d] = "failed" /\ stalls[d] = 0 => made'[d] = Attempts)
    <2>1. CASE holder[d] = e
        <3>1. next # "none" /\ next # "running"
              /\ (next = "waiting" => made[d] + 1 < Attempts)
              /\ (next = "failed" => made[d] + 1 >= Attempts)
            BY <1>6
        <3> HIDE DEF next
        <3> QED BY <1>6, <1>7, <1>8, <2>1, <3>1
    <2>2. CASE holder[d] # e
        BY <1>6, <1>7, <1>8, <1>12, <2>2 DEF Told, Tries
    <2> QED BY <2>1, <2>2
<1>14. Untouched(d)' /\ Tries(d)' /\ OneExecution(d)'
    <2>1. Untouched(d)' /\ OneExecution(d)'
        BY <1>3, <1>11, <1>13 DEF Untouched, OneExecution
    <2>2. Tries(d)'
        <3>1. CASE holder[d] = e
            <4>1. job'[d] # "running"
                BY <1>8, <3>1
            <4> QED BY <1>13, <4>1 DEF Tries
        <3>2. CASE holder[d] # e
            <4>1. job[d] = "running" => holder[d] \in Execution
                BY WebhookTyped
            <4> QED BY <1>3, <1>5, <1>6, <1>8, <3>2, <4>1 DEF Told, Tries
        <3> QED BY <3>1, <3>2
    <2> QED BY <2>1, <2>2
<1>15. stalls[d] = 0 => acks[d] = IF doing[e].ok THEN 1 ELSE 0
    BY <1>0, <1>1, <1>6 DEF Told, Answers
<1>16. stalls[d] = 0 => /\ (job'[d] = "done" => doing[e].ok)
                       /\ (job'[d] \in {"waiting", "failed"} => ~doing[e].ok)
                       /\ job'[d] \in {"done", "waiting", "failed"} /\ made'[d] = made[d] + 1
    BY <1>7, <1>8
<1>17. Answers(d)'
    BY <1>3, <1>11, <1>13, <1>15, <1>16 DEF Answers
<1>18. Rows(d)'
    <2>1. stalls[d] = 0 /\ ~unlogged[d] /\ endpoint # "deleted" =>
              Tell(log[d], missed[d], made[d] + 1, acks[d])
        BY <1>0, <1>1, <1>6 DEF Told, Rows
    <2>2. stalls[d] = 0 => made'[d] = made[d] + 1
        BY <1>7, <1>8
    <2>3. UNCHANGED <<stalls, log, missed, acks, unlogged, endpoint>>
        BY <1>3
    <2>5. \A x \in Execution : stalls'[d] = 0 => doing'[x].of # d
        BY <1>3, <1>11
    <2> QED BY <2>1, <2>2, <2>3, <2>5 DEF Rows
<1> QED BY <1>9, <1>10, <1>14, <1>17, <1>18 DEF WebhookInv, Told

LEMMA StallTells ==
    ASSUME W!WebhookAssumption, WebhookInv, NEW d \in Delivery, W!Stall(d) PROVE WebhookInv'
<1>1. /\ UNCHANGED <<endpoint, secret, dispatch, resend, made, doing, log, acks, unlogged, missed>>
      /\ faults' = faults \/ (faults < MaxFaults /\ faults' = faults + 1)
      /\ job[d] = "running"
    BY DEF W!Stall, W!Fault, W!NoFault, W!endpointVars, W!historyVars
<1>2. Told(d) /\ made[d] < Attempts
    BY <1>1 DEF WebhookInv, Told, Tries
<1>3. MaxFaults > 0 /\ faults' \in 0 .. MaxFaults /\ faults' \in Nat /\ faults <= faults'
    <2>1. CASE faults < MaxFaults /\ faults' = faults + 1
        BY <2>1, WebhookTyped
    <2>2. CASE doing[holder[d]].of # d /\ faults' = faults
        BY <1>1, <1>2, <2>2, WebhookTyped DEF Told, Tries
    <2> QED BY <2>1, <2>2 DEF W!Stall, W!Fault, W!NoFault
<1>4. /\ stalls' = [stalls EXCEPT ![d] = IF @ < MaxFaults THEN @ + 1 ELSE @]
      /\ job' = [job EXCEPT ![d] = IF stalls[d] = 0 THEN "waiting" ELSE "failed"]
      /\ holder' = [holder EXCEPT ![d] = None]
    BY DEF W!Stall
<1>5. /\ stalls' \in [Delivery -> 0 .. MaxFaults] /\ stalls'[d] > 0
      /\ \A b \in Delivery \ {d} : stalls'[b] = stalls[b]
    <2>1. stalls \in [Delivery -> 0 .. MaxFaults] /\ stalls[d] \in Nat
        BY WebhookTyped DEF WebhookInv, W!TypeOK
    <2>2. (IF stalls[d] < MaxFaults THEN stalls[d] + 1 ELSE stalls[d]) \in 0 .. MaxFaults
        BY <1>3, <2>1, WebhookTyped
    <2>3. (IF stalls[d] < MaxFaults THEN stalls[d] + 1 ELSE stalls[d]) > 0
        BY <1>3, <2>1, WebhookTyped
    <2> QED BY <1>4, <2>1, <2>2, <2>3
<1>6. /\ job' \in [Delivery -> {"none", "waiting", "running", "done", "failed"}]
      /\ holder' \in [Delivery -> Execution \cup {None}]
      /\ job'[d] \in {"waiting", "failed"} /\ holder'[d] = None
      /\ \A b \in Delivery \ {d} : job'[b] = job[b] /\ holder'[b] = holder[b]
    BY <1>4 DEF WebhookInv, W!TypeOK
<1>7. W!TypeOK'
    <2>1. \A b \in Delivery : holder'[b] # None <=> job'[b] = "running"
        BY <1>6, WebhookTyped
    <2> QED BY <1>1, <1>3, <1>5, <1>6, <2>1 DEF WebhookInv, W!TypeOK
<1>8. ASSUME NEW b \in Delivery \ {d} PROVE Told(b)'
    <2>1. Told(b) /\ b \in Delivery
        BY DEF WebhookInv
    <2> QED BY <1>1, <1>3, <1>5, <1>6, <2>1, OthersStay
<1>9. Told(d)'
    <2>1. stalls'[d] # 0
        BY <1>5
    <2> QED BY <1>1, <1>2, <1>6, <2>1 DEF Told, Untouched, Tries, OneExecution, Answers, Rows
<1> QED BY <1>7, <1>8, <1>9 DEF WebhookInv

LEMMA WebhookStep == ASSUME W!WebhookAssumption PROVE WebhookInv /\ [W!Next]_(W!vars) => WebhookInv'
<1>1. SUFFICES ASSUME WebhookInv, [W!Next]_(W!vars) PROVE WebhookInv'
    OBVIOUS
<1>2. CASE UNCHANGED W!vars
    <2>1. UNCHANGED <<endpoint, secret, dispatch, resend, job, made, stalls, holder, doing, log, acks,
                      unlogged, missed, faults>>
        BY <1>2 DEF W!vars, W!endpointVars, W!queueVars, W!historyVars
    <2>2. W!TypeOK'
        BY <1>1, <2>1 DEF WebhookInv, W!TypeOK
    <2>3. ASSUME NEW d \in Delivery PROVE Told(d)'
        <3>1. Told(d) /\ faults' \in Nat /\ faults <= faults'
            BY <1>1, <2>1, WebhookTyped DEF WebhookInv
        <3> QED BY <1>1, <2>1, <3>1, OthersStay
    <2> QED BY <2>2, <2>3 DEF WebhookInv
<1>3. CASE W!Next
    BY <1>1, <1>3, RequestsTell, AddTells, TakeTells, ReadEndpointTells, PostTells, RecordTells,
       SettleTells, StallTells DEF W!Next, W!ExecutionStep
<1> QED BY <1>1, <1>2, <1>3

LEMMA DeliveriesAreToldTruly ==
    ASSUME W!WebhookAssumption, WebhookInv PROVE W!RepeatNeedsAStall /\ W!LogTellsAll
<1>1. W!RepeatNeedsAStall
    BY WebhookTyped DEF WebhookInv, Told, Answers, W!RepeatNeedsAStall
<1>2. ASSUME NEW d \in Delivery, job[d] \in {"waiting", "done", "failed"}, stalls[d] = 0,
             ~unlogged[d], endpoint # "deleted"
      PROVE  /\ {log[d][i].retry : i \in DOMAIN log[d]} = (0 .. made[d] - 1) \ missed[d]
             /\ \A i, j \in DOMAIN log[d] : i < j => log[d][i].retry < log[d][j].retry
             /\ \A i \in DOMAIN log[d] : log[d][i].ok <=> i = Len(log[d]) /\ acks[d] > 0
             /\ acks[d] > 0 => log[d] # <<>>
             /\ job[d] = "failed" => made[d] = Attempts /\ acks[d] = 0
    <2>1. Tell(log[d], missed[d], made[d], acks[d])
        BY <1>2 DEF WebhookInv, Told, Rows
    <2>2. DOMAIN log[d] = 1 .. Len(log[d])
        BY WebhookTyped
    <2>3. job[d] = "failed" => made[d] = Attempts /\ acks[d] = 0
        BY <1>2 DEF WebhookInv, Told, Answers
    <2> QED BY <2>1, <2>2, <2>3 DEF Tell
<1> QED BY <1>1, <1>2 DEF W!LogTellsAll

\* A delivery that was acknowledged is repeated only after a stall, and its log is the
\* truth about its tries but those whose endpoint could not be read (deliver): for any
\* number of deliveries, executions and tries.
THEOREM DeliveriesAreTruthful ==
    ASSUME W!WebhookAssumption PROVE W!Spec => [](W!RepeatNeedsAStall /\ W!LogTellsAll)
<1>1. W!Init => WebhookInv
    BY WebhookInit
<1>2. WebhookInv /\ [W!Next]_(W!vars) => WebhookInv'
    BY WebhookStep
<1>3. WebhookInv => W!RepeatNeedsAStall /\ W!LogTellsAll
    BY DeliveriesAreToldTruly
<1> QED BY <1>1, <1>2, <1>3, PTL DEF W!Spec

----------------------------------------------------------------------------
(***************************************************************************)
(* Reconcile.                                                              *)
(*                                                                         *)
(* An event that a run takes for settled was committed before the run      *)
(* began, so that the state it tells has been the object's ever since: the *)
(* read of the copy, late as it is, is of the same state as the reads of   *)
(* the rows. And an object that no row led to when the pending rows were   *)
(* read is an orphan then, or had a row in artifacts that it lost later,   *)
(* when it becomes one.                                                    *)
(***************************************************************************)

\* An object is at the indexer once its upload is over, and tracked only then.
Stages ==
    \A o \in Stored :
        /\ atIndexer[o] # "none" <=> upload[o] = "over"
        /\ o \in tracked => upload[o] = "over"

SettledAs(o, state) == atIndexer[o] = state /\ R!Settled(event[o])
ReadAs(o, state) == copy[o].state = state /\ R!Settled(copy[o].event)

\* What the run will call drift was drift.
Found ==
    /\ step = "second" => \A o \in Stored \ owned :
          SettledAs(o, "pinned") => o \in ever.orphaned \cup tracked
    /\ step \in {"sync", "diff"} => \A o \in Stored :
          /\ o \notin owned \cup db /\ (SettledAs(o, "pinned") \/ (o \notin unread /\ ReadAs(o, "pinned")))
                => o \in ever.orphaned
          /\ o \in db /\ (SettledAs(o, "deleted") \/ (o \notin unread /\ ReadAs(o, "deleted")))
                => o \in ever.missing
          /\ o \in db => atIndexer[o] # "none" /\ (o \notin unread => copy[o].state # "none")

\* What was drift all the time will be called so.
Kept ==
    /\ step \in {"second", "sync", "diff"} => \A o \in always.orphaned : o \notin owned
    /\ step \in {"sync", "diff"} =>
          /\ \A o \in always.orphaned : o \notin db /\ (o \notin unread => ReadAs(o, "pinned"))
          /\ \A o \in always.missing : o \in db /\ (o \notin unread => ReadAs(o, "deleted"))

ReconcileInv ==
    /\ R!TypeOK /\ Stages /\ Found /\ Kept
    /\ step = "diff" => unread = {}
    /\ R!ReportIsRight

LEMMA ReconcileInit == ASSUME R!ReconcileAssumption, R!Init PROVE ReconcileInv
<1>1. R!TypeOK
    <2>1. clock = 0 /\ 0 \in 0 .. ReportEnd /\ 0 .. 0 = {0}
        BY DEF R!Init, R!ReconcileAssumption
    <2>2. copy \in [Stored -> [state : {"none", "pinned", "deleted"}, event : 0 .. clock]]
        BY <2>1 DEF R!Init, R!NoCopy
    <2>3. R!Nothing \in R!Drift
        BY DEF R!Nothing, R!Drift
    <2> QED BY <2>1, <2>2, <2>3 DEF R!Init, R!TypeOK
<1>2. Stages /\ Found /\ Kept /\ R!ReportIsRight
    BY DEF R!Init, Stages, Found, Kept, R!ReportIsRight
<1> QED BY <1>1, <1>2 DEF R!Init, ReconcileInv

\* The types, spelled out.
LEMMA ReconcileTyped ==
    ASSUME R!ReconcileAssumption, ReconcileInv
    PROVE  /\ clock \in Nat /\ started \in Nat /\ started <= clock
           /\ Grace \in Nat /\ CommitDelay \in Nat /\ CommitDelay < Grace /\ ReportEnd \in Nat
           /\ \A o \in Stored : /\ event[o] \in Nat /\ event[o] <= clock
                                /\ updated[o] \in Nat /\ updated[o] <= clock
                                /\ copy[o].event \in Nat
                                /\ copy[o].state \in {"none", "pinned", "deleted"}
                                /\ atIndexer[o] \in {"none", "pinned", "deleted"}
           /\ ever.orphaned \subseteq Stored /\ ever.missing \subseteq Stored
           /\ always.orphaned \subseteq Stored /\ always.missing \subseteq Stored
<1>1. clock \in Nat /\ Grace \in Nat /\ CommitDelay \in Nat /\ CommitDelay < Grace /\ ReportEnd \in Nat
    BY DEF R!ReconcileAssumption, ReconcileInv, R!TypeOK
<1>2. started \in 0 .. clock
    BY DEF ReconcileInv, R!TypeOK
<1>3. \A o \in Stored : event[o] \in 0 .. clock /\ updated[o] \in 0 .. clock
    BY DEF ReconcileInv, R!TypeOK
<1>4. \A o \in Stored : /\ copy[o] \in [state : {"none", "pinned", "deleted"}, event : 0 .. clock]
                        /\ atIndexer[o] \in {"none", "pinned", "deleted"}
    BY DEF ReconcileInv, R!TypeOK
<1>5. ever \in R!Drift /\ always \in R!Drift
    BY DEF ReconcileInv, R!TypeOK
<1>6. /\ ever.orphaned \subseteq Stored /\ ever.missing \subseteq Stored
      /\ always.orphaned \subseteq Stored /\ always.missing \subseteq Stored
    BY <1>5 DEF R!Drift
<1> QED BY <1>1, <1>2, <1>3, <1>4, <1>6

\* What Watch adds and takes away, while the run goes on.
LEMMA Watched ==
    ASSUME R!ReconcileAssumption, ReconcileInv, R!Watch, R!Running
    PROVE  /\ ever' \in R!Drift /\ always' \in R!Drift
           /\ ever'.orphaned = ever.orphaned \cup {o \in Stored : R!Orphaned(o)'}
           /\ ever'.missing = ever.missing \cup {o \in Stored : R!Missing(o)'}
           /\ always'.orphaned = always.orphaned \cap {o \in Stored : R!Orphaned(o)'}
           /\ always'.missing = always.missing \cap {o \in Stored : R!Missing(o)'}
<1>1. ever \in R!Drift /\ always \in R!Drift
    BY DEF ReconcileInv, R!TypeOK
<1> DEFINE O == {o \in Stored : R!Orphaned(o)'}
           M == {o \in Stored : R!Missing(o)'}
<1>2. R!Drifting' = [orphaned |-> O, missing |-> M]
    BY DEF R!Drifting
<1>3. O \subseteq Stored /\ M \subseteq Stored
    OBVIOUS
<1> HIDE DEF O, M
<1>4. /\ ever' = [k \in DOMAIN ever |-> ever[k] \cup R!Drifting'[k]]
      /\ always' = [k \in DOMAIN always |-> always[k] \cap R!Drifting'[k]]
    BY DEF R!Watch
<1>5. DOMAIN ever = {"orphaned", "missing"} /\ DOMAIN always = {"orphaned", "missing"}
    BY <1>1 DEF R!Drift
<1>6. R!Drifting'["orphaned"] = O /\ R!Drifting'["missing"] = M
    BY <1>2
<1>7. /\ ever' = [orphaned |-> ever.orphaned \cup O, missing |-> ever.missing \cup M]
      /\ always' = [orphaned |-> always.orphaned \cap O, missing |-> always.missing \cap M]
    BY <1>4, <1>5, <1>6
<1>8. /\ ever.orphaned \subseteq Stored /\ ever.missing \subseteq Stored
      /\ always.orphaned \subseteq Stored /\ always.missing \subseteq Stored
    BY <1>1 DEF R!Drift
<1> QED BY <1>3, <1>7, <1>8 DEF R!Drift, O, M

\* A step of the objects leaves the event of each alone or stamps it now, and takes
\* a row in artifacts away only with the one in pending_objects.
Moved ==
    /\ upload' \in [Stored -> {"new", "recorded", "over"}]
    /\ pending' \in [Stored -> {"none", "uploading", "release"}]
    /\ updated' \in [Stored -> 0 .. clock]
    /\ tracked' \subseteq Stored /\ unpinned' \subseteq Stored
    /\ atIndexer' \in [Stored -> {"none", "pinned", "deleted"}]
    /\ event' \in [Stored -> 0 .. clock]
    /\ \A o \in Stored :
          /\ \/ atIndexer'[o] = atIndexer[o] /\ event'[o] = event[o]
             \/ atIndexer'[o] # "none" /\ event'[o] + CommitDelay >= clock
          /\ o \in tracked \ tracked' => pending'[o] = "none"
          /\ atIndexer'[o] # "none" <=> upload'[o] = "over"
          /\ o \in tracked' => upload'[o] = "over"

LEMMA Rowed ==
    ASSUME R!ReconcileAssumption, ReconcileInv, NEW o \in Stored,
           NEW becomes \in {"none", "uploading", "release"}, R!Row(o, becomes)
    PROVE  /\ pending' \in [Stored -> {"none", "uploading", "release"}]
           /\ updated' \in [Stored -> 0 .. clock]
           /\ pending'[o] = becomes
<1>1. clock \in Nat /\ 0 \in 0 .. clock /\ clock \in 0 .. clock
    BY ReconcileTyped
<1>2. /\ pending \in [Stored -> {"none", "uploading", "release"}]
      /\ updated \in [Stored -> 0 .. clock]
    BY DEF ReconcileInv, R!TypeOK
<1> QED BY <1>1, <1>2 DEF R!Row

LEMMA Stamped ==
    ASSUME R!ReconcileAssumption, ReconcileInv, NEW o \in Stored, NEW called \in Nat,
           NEW becomes \in {"pinned", "deleted"}, R!Stamp(o, becomes, called)
    PROVE  /\ atIndexer' \in [Stored -> {"none", "pinned", "deleted"}]
           /\ event' \in [Stored -> 0 .. clock]
           /\ atIndexer'[o] = becomes /\ event'[o] + CommitDelay >= clock
           /\ \A p \in Stored \ {o} : atIndexer'[p] = atIndexer[p] /\ event'[p] = event[p]
<1>1. PICK t \in called .. clock : t + CommitDelay >= clock /\ event' = [event EXCEPT ![o] = t]
    BY DEF R!Stamp
<1>2. clock \in Nat /\ t \in 0 .. clock
    BY <1>1, ReconcileTyped
<1>3. /\ atIndexer \in [Stored -> {"none", "pinned", "deleted"}]
      /\ event \in [Stored -> 0 .. clock]
    BY DEF ReconcileInv, R!TypeOK
<1>4. atIndexer' = [atIndexer EXCEPT ![o] = becomes]
    BY DEF R!Stamp
<1> QED BY <1>1, <1>2, <1>3, <1>4

LEMMA ObjectsMove ==
    ASSUME R!ReconcileAssumption, ReconcileInv, NEW o \in Stored,
           \/ R!Record(o) \/ R!Pin(o) \/ R!Finalize(o) \/ R!Mark(o)
           \/ R!Unpin(o) \/ R!Forget(o) \/ R!Lose(o)
    PROVE  Moved
<1>1. /\ upload \in [Stored -> {"new", "recorded", "over"}]
      /\ pending \in [Stored -> {"none", "uploading", "release"}]
      /\ updated \in [Stored -> 0 .. clock]
      /\ tracked \subseteq Stored /\ unpinned \subseteq Stored
      /\ atIndexer \in [Stored -> {"none", "pinned", "deleted"}]
      /\ event \in [Stored -> 0 .. clock]
    BY DEF ReconcileInv, R!TypeOK
<1>2. \A p \in Stored : updated[p] \in Nat /\ event[p] \in Nat
    BY ReconcileTyped
<1>3. Stages
    BY DEF ReconcileInv
<1>4. CASE R!Record(o)
    <2>1. R!Row(o, "uploading")
        BY <1>4 DEF R!Record
    <2>2. pending' \in [Stored -> {"none", "uploading", "release"}] /\ updated' \in [Stored -> 0 .. clock]
        BY <2>1, Rowed
    <2> QED BY <1>1, <1>3, <1>4, <2>2 DEF R!Record, Moved, Stages
<1>5. CASE R!Pin(o)
    <2>1. R!Stamp(o, "pinned", updated[o])
        BY <1>5 DEF R!Pin
    <2>2. /\ atIndexer' \in [Stored -> {"none", "pinned", "deleted"}]
          /\ event' \in [Stored -> 0 .. clock]
          /\ atIndexer'[o] = "pinned" /\ event'[o] + CommitDelay >= clock
          /\ \A p \in Stored \ {o} : atIndexer'[p] = atIndexer[p] /\ event'[p] = event[p]
        BY <1>2, <2>1, Stamped
    <2> QED BY <1>1, <1>3, <1>5, <2>2 DEF R!Pin, Moved, Stages
<1>6. CASE R!Finalize(o)
    <2>1. R!Row(o, "none")
        BY <1>6 DEF R!Finalize
    <2>2. pending' \in [Stored -> {"none", "uploading", "release"}] /\ updated' \in [Stored -> 0 .. clock]
        BY <2>1, Rowed
    <2> QED BY <1>1, <1>3, <1>6, <2>2 DEF R!Finalize, Moved, Stages
<1>7. CASE R!Mark(o)
    <2>1. R!Row(o, "release")
        BY <1>7 DEF R!Mark
    <2>2. pending' \in [Stored -> {"none", "uploading", "release"}] /\ updated' \in [Stored -> 0 .. clock]
        BY <2>1, Rowed
    <2> QED BY <1>1, <1>3, <1>7, <2>2 DEF R!Mark, Moved, Stages
<1>8. ASSUME R!Stamp(o, "deleted", event[o]), atIndexer[o] = "pinned",
             UNCHANGED <<upload, pending, updated, tracked>>, unpinned' \subseteq Stored
      PROVE  Moved
    <2>1. /\ atIndexer' \in [Stored -> {"none", "pinned", "deleted"}]
          /\ event' \in [Stored -> 0 .. clock]
          /\ atIndexer'[o] = "deleted" /\ event'[o] + CommitDelay >= clock
          /\ \A p \in Stored \ {o} : atIndexer'[p] = atIndexer[p] /\ event'[p] = event[p]
        BY <1>2, <1>8, Stamped
    <2> QED BY <1>1, <1>3, <1>8, <2>1 DEF Moved, Stages
<1>9. CASE R!Unpin(o)
    <2>1. unpinned' \subseteq Stored /\ UNCHANGED <<upload, pending, updated, tracked>>
        BY <1>1, <1>9 DEF R!Unpin
    <2>2. CASE atIndexer[o] = "pinned"
        <3>1. R!Stamp(o, "deleted", event[o])
            BY <1>9, <2>2 DEF R!Unpin
        <3> QED BY <1>8, <2>1, <2>2, <3>1
    <2>3. CASE atIndexer[o] # "pinned"
        <3>1. UNCHANGED <<atIndexer, event>>
            BY <1>9, <2>3 DEF R!Unpin
        <3> QED BY <1>1, <1>3, <2>1, <3>1 DEF Moved, Stages
    <2> QED BY <2>2, <2>3
<1>10. CASE R!Forget(o)
    <2>1. R!Row(o, "none")
        BY <1>10 DEF R!Forget
    <2>2. /\ pending' \in [Stored -> {"none", "uploading", "release"}]
          /\ updated' \in [Stored -> 0 .. clock] /\ pending'[o] = "none"
        BY <2>1, Rowed
    <2> QED BY <1>1, <1>3, <1>10, <2>2 DEF R!Forget, Moved, Stages
<1>11. CASE R!Lose(o)
    <2>1. /\ R!Stamp(o, "deleted", event[o]) /\ atIndexer[o] = "pinned"
          /\ UNCHANGED <<upload, pending, updated, tracked>> /\ unpinned' \subseteq Stored
        BY <1>1, <1>11 DEF R!Lose
    <2> QED BY <1>8, <2>1
<1> QED BY <1>4, <1>5, <1>6, <1>7, <1>9, <1>10, <1>11

\* What an object is called when it has moved, or the clock has, it was or becomes.
LEMMA Unsettled ==
    ASSUME R!ReconcileAssumption, ReconcileInv, Moved, started' = started, NEW o \in Stored,
           NEW state, SettledAs(o, state)'
    PROVE  SettledAs(o, state)
<1>1. /\ clock \in Nat /\ started \in Nat /\ started <= clock /\ event[o] \in Nat
      /\ Grace \in Nat /\ CommitDelay \in Nat /\ CommitDelay < Grace
    BY ReconcileTyped
<1>2. event'[o] \in Nat /\ event'[o] + Grace <= started /\ atIndexer'[o] = state
    BY <1>1 DEF Moved, SettledAs, R!Settled
<1>3. ~ event'[o] + CommitDelay >= clock
    BY <1>1, <1>2
<1>4. atIndexer'[o] = atIndexer[o] /\ event'[o] = event[o]
    BY <1>3 DEF Moved
<1> QED BY <1>2, <1>4 DEF SettledAs, R!Settled

LEMMA ReconcileTypes ==
    ASSUME R!ReconcileAssumption, ReconcileInv, Moved, clock' \in Nat, clock <= clock', clock' <= ReportEnd,
           step' \in {"idle", "first", "second", "sync", "diff", "done"},
           started' \in 0 .. clock,
           owned' \subseteq Stored, db' \subseteq Stored, unread' \subseteq Stored,
           copy' \in [Stored -> [state : {"none", "pinned", "deleted"}, event : 0 .. clock]],
           report' \in R!Drift, ever' \in R!Drift, always' \in R!Drift
    PROVE  R!TypeOK' /\ Stages'
<1>1. clock \in Nat /\ ReportEnd \in Nat
    BY ReconcileTyped
<1> DEFINE Old == 0 .. clock
           New == 0 .. clock'
           Entry(Times) == [state : {"none", "pinned", "deleted"}, event : Times]
<1>2. Old \subseteq New /\ clock' \in 0 .. ReportEnd
    BY <1>1
<1>3. Entry(Old) \subseteq Entry(New)
    BY <1>2
<1>4. /\ updated' \in [Stored -> New] /\ event' \in [Stored -> New] /\ started' \in New
      /\ copy' \in [Stored -> Entry(New)]
    <2>1. /\ updated' \in [Stored -> Old] /\ event' \in [Stored -> Old] /\ started' \in Old
          /\ copy' \in [Stored -> Entry(Old)]
        BY DEF Moved
    <2> HIDE DEF Old, New, Entry
    <2> QED BY <1>2, <1>3, <2>1
<1>5. R!TypeOK'
    BY <1>2, <1>4 DEF Moved, R!TypeOK, R!Drift
<1>6. Stages'
    BY DEF Moved, Stages
<1> QED BY <1>5, <1>6

\* The objects move, or the clock does.
LEMMA ReconcileQuiet ==
    ASSUME R!ReconcileAssumption, ReconcileInv, Moved, UNCHANGED <<step, R!readVars>>,
           clock' \in Nat, clock <= clock', clock' <= ReportEnd, R!Watch
    PROVE  ReconcileInv'
<1>1. UNCHANGED <<step, started, owned, db, copy, unread, report>>
    BY DEF R!readVars
<1>2. ever' \in R!Drift /\ always' \in R!Drift
    <2>1. CASE R!Running
        BY <2>1, Watched
    <2>2. CASE ~R!Running
        BY <2>2 DEF R!Watch, ReconcileInv, R!TypeOK
    <2> QED BY <2>1, <2>2
<1>3. R!TypeOK' /\ Stages'
    BY <1>1, <1>2, ReconcileTypes DEF ReconcileInv, R!TypeOK
<1>4. CASE ~R!Running
    <2>1. UNCHANGED <<ever, always>> /\ step' \in {"idle", "done"}
        BY <1>1, <1>4 DEF R!Watch, R!Running
    <2> QED BY <1>1, <1>3, <2>1 DEF ReconcileInv, Found, Kept, R!ReportIsRight
<1>5. CASE R!Running
    <2>1. /\ ever'.orphaned = ever.orphaned \cup {o \in Stored : R!Orphaned(o)'}
          /\ ever'.missing = ever.missing \cup {o \in Stored : R!Missing(o)'}
          /\ always'.orphaned \subseteq always.orphaned
          /\ always'.missing \subseteq always.missing
        BY <1>5, Watched
    <2>2. \A o \in Stored : /\ SettledAs(o, "pinned")' => SettledAs(o, "pinned")
                            /\ SettledAs(o, "deleted")' => SettledAs(o, "deleted")
        BY <1>1, Unsettled
    <2>3. \A o \in Stored : /\ ReadAs(o, "pinned")' <=> ReadAs(o, "pinned")
                            /\ ReadAs(o, "deleted")' <=> ReadAs(o, "deleted")
        BY <1>1 DEF ReadAs, R!Settled
    <2>4. ASSUME step = "second", NEW o \in Stored \ owned, SettledAs(o, "pinned")'
          PROVE  o \in ever'.orphaned \cup tracked'
        <3>1. o \in ever.orphaned \cup tracked
            BY <2>2, <2>4 DEF ReconcileInv, Found
        <3>2. CASE o \in tracked \ tracked'
            <4>1. pending'[o] = "none"
                BY <3>2 DEF Moved
            <4>2. R!Orphaned(o)'
                BY <2>4, <3>2, <4>1 DEF R!Orphaned, SettledAs
            <4> QED BY <2>1, <4>2
        <3> QED BY <2>1, <3>1, <3>2
    <2>5. ASSUME step \in {"sync", "diff"}, NEW o \in Stored
          PROVE  /\ o \notin owned \cup db /\ (SettledAs(o, "pinned")' \/ (o \notin unread /\ ReadAs(o, "pinned")'))
                      => o \in ever'.orphaned
                 /\ o \in db /\ (SettledAs(o, "deleted")' \/ (o \notin unread /\ ReadAs(o, "deleted")'))
                      => o \in ever'.missing
                 /\ o \in db => atIndexer'[o] # "none" /\ (o \notin unread => copy[o].state # "none")
        <3>1. /\ o \notin owned \cup db /\ (SettledAs(o, "pinned") \/ (o \notin unread /\ ReadAs(o, "pinned")))
                   => o \in ever.orphaned
              /\ o \in db /\ (SettledAs(o, "deleted") \/ (o \notin unread /\ ReadAs(o, "deleted")))
                   => o \in ever.missing
              /\ o \in db => atIndexer[o] # "none" /\ (o \notin unread => copy[o].state # "none")
            BY <2>5 DEF ReconcileInv, Found
        <3>2. atIndexer[o] # "none" => atIndexer'[o] # "none"
            BY DEF Moved
        <3> QED BY <2>1, <2>2, <2>3, <3>1, <3>2
    <2>6. Found'
        BY <1>1, <2>4, <2>5 DEF Found
    <2>7. Kept'
        BY <1>1, <2>1, <2>3, ReconcileTyped DEF ReconcileInv, Kept
    <2>8. step' # "done"
        BY <1>1, <1>5 DEF R!Running
    <2> QED BY <1>1, <1>3, <2>6, <2>7, <2>8 DEF ReconcileInv, R!ReportIsRight
<1> QED BY <1>4, <1>5

LEMMA ObjectsQuiet ==
    ASSUME R!ReconcileAssumption, ReconcileInv, R!ObjectStep, R!Watch
    PROVE  ReconcileInv'
<1>1. Moved
    BY ObjectsMove DEF R!ObjectStep
<1>2. UNCHANGED <<clock, step, R!readVars>>
    BY DEF R!ObjectStep
<1>3. clock' \in Nat /\ clock <= clock' /\ clock' <= ReportEnd
    BY <1>2, ReconcileTyped DEF ReconcileInv, R!TypeOK
<1> QED BY <1>1, <1>2, <1>3, ReconcileQuiet

\* Nothing moves.
LEMMA NothingMoves ==
    ASSUME R!ReconcileAssumption, ReconcileInv, UNCHANGED R!objectVars
    PROVE  Moved
BY DEF ReconcileInv, R!TypeOK, Stages, R!objectVars, Moved

LEMMA TickQuiet ==
    ASSUME R!ReconcileAssumption, ReconcileInv, R!Tick, R!Watch
    PROVE  ReconcileInv'
<1>1. Moved
    BY NothingMoves DEF R!Tick
<1>2. UNCHANGED <<step, R!readVars>>
    BY DEF R!Tick
<1>3. clock' \in Nat /\ clock <= clock' /\ clock' <= ReportEnd
    BY ReconcileTyped DEF R!Tick, ReconcileInv, R!TypeOK
<1> QED BY <1>1, <1>2, <1>3, ReconcileQuiet

\* Facts of every step of the run that leaves the objects and the clock alone.
LEMMA RunTypes ==
    ASSUME R!ReconcileAssumption, ReconcileInv, UNCHANGED <<clock, R!objectVars>>,
           step' \in {"idle", "first", "second", "sync", "diff", "done"},
           started' \in 0 .. clock,
           owned' \subseteq Stored, db' \subseteq Stored, unread' \subseteq Stored,
           copy' \in [Stored -> [state : {"none", "pinned", "deleted"}, event : 0 .. clock]],
           report' \in R!Drift, ever' \in R!Drift, always' \in R!Drift
    PROVE  R!TypeOK' /\ Stages'
<1>1. Moved
    BY NothingMoves
<1>2. clock' \in Nat /\ clock <= clock' /\ clock' <= ReportEnd
    BY ReconcileTyped DEF ReconcileInv, R!TypeOK
<1> QED BY <1>1, <1>2, ReconcileTypes

LEMMA ReconcileBegins ==
    ASSUME R!ReconcileAssumption, ReconcileInv, R!Begin
    PROVE  ReconcileInv'
<1>1. /\ step' = "first" /\ started' = clock /\ report' = R!Nothing
      /\ UNCHANGED <<clock, R!objectVars, owned, db, copy, unread>>
      /\ ever' = R!Drifting' /\ always' = R!Drifting'
    BY DEF R!Begin
<1>2. R!Drifting' \in R!Drift /\ R!Nothing \in R!Drift
    BY DEF R!Drifting, R!Drift, R!Nothing
<1>3. clock \in 0 .. clock
    BY ReconcileTyped
<1>4. R!TypeOK' /\ Stages'
    BY <1>1, <1>2, <1>3, RunTypes DEF ReconcileInv, R!TypeOK
<1>5. Found' /\ Kept' /\ R!ReportIsRight'
    BY <1>1 DEF Found, Kept, R!ReportIsRight
<1> QED BY <1>1, <1>4, <1>5 DEF ReconcileInv

LEMMA ReconcileReads ==
    ASSUME R!ReconcileAssumption, ReconcileInv, R!ReadDatabase, R!Watch
    PROVE  ReconcileInv'
<1>1. R!Running
    BY DEF R!ReadDatabase, R!Goes, R!Running
<1>2. /\ ever' \in R!Drift /\ always' \in R!Drift
      /\ ever'.orphaned = ever.orphaned \cup {o \in Stored : R!Orphaned(o)'}
      /\ ever'.missing = ever.missing \cup {o \in Stored : R!Missing(o)'}
      /\ always'.orphaned = always.orphaned \cap {o \in Stored : R!Orphaned(o)'}
      /\ always'.missing = always.missing \cap {o \in Stored : R!Missing(o)'}
    BY <1>1, Watched
<1>3. /\ unread' = Stored /\ UNCHANGED <<clock, R!objectVars, started, copy, report>>
      /\ \/ step = "first" /\ step' = "second" /\ R!ReadPending
         \/ step = "second" /\ step' = "sync" /\ R!ReadTracked
    BY DEF R!ReadDatabase, R!Goes
<1>4. UNCHANGED <<pending, updated, tracked, atIndexer, event>>
    BY <1>3 DEF R!objectVars
<1>5. \A o \in Stored : R!Settled(event[o])' <=> R!Settled(event[o])
    BY <1>3, <1>4 DEF R!Settled
<1>6. \A o \in Stored : /\ R!Orphaned(o)' <=> R!Orphaned(o)
                        /\ R!Missing(o)' <=> R!Missing(o)
    BY <1>3, <1>4 DEF R!Orphaned, R!Missing, R!Settled
<1>7. \A o \in Stored : /\ SettledAs(o, "pinned")' <=> SettledAs(o, "pinned")
                        /\ SettledAs(o, "deleted")' <=> SettledAs(o, "deleted")
    BY <1>3, <1>4 DEF SettledAs, R!Settled
<1>8. CASE step = "first" /\ step' = "second" /\ R!ReadPending
    <2>1. /\ owned' = {o \in Stored : \/ pending[o] = "uploading"
                                      \/ pending[o] = "release" /\ ~R!Settled(updated[o])}
          /\ UNCHANGED db
        BY <1>8 DEF R!ReadPending
    <2>2. R!TypeOK' /\ Stages'
        BY <1>2, <1>3, <1>8, <2>1, RunTypes DEF ReconcileInv, R!TypeOK
    <2>3. \A o \in Stored \ owned' : SettledAs(o, "pinned") => o \in ever'.orphaned \cup tracked
        <3> SUFFICES ASSUME NEW o \in Stored \ owned', SettledAs(o, "pinned"), o \notin tracked
                     PROVE  o \in ever'.orphaned
            OBVIOUS
        <3>1. pending[o] \in {"none", "uploading", "release"}
            BY DEF ReconcileInv, R!TypeOK
        <3>2. R!Orphaned(o)
            BY <2>1, <3>1 DEF SettledAs, R!Orphaned
        <3> QED BY <1>2, <1>6, <3>2
    <2>4. Found'
        BY <1>4, <1>7, <1>8, <2>3 DEF Found
    <2>5. \A o \in always'.orphaned : o \notin owned'
        BY <1>2, <1>6, <2>1 DEF R!Orphaned
    <2> QED BY <1>8, <2>2, <2>4, <2>5 DEF ReconcileInv, Kept, R!ReportIsRight
<1>9. CASE step = "second" /\ step' = "sync" /\ R!ReadTracked
    <2>1. db' = tracked /\ UNCHANGED owned
        BY <1>9 DEF R!ReadTracked
    <2>2. R!TypeOK' /\ Stages'
        BY <1>2, <1>3, <1>9, <2>1, RunTypes DEF ReconcileInv, R!TypeOK
    <2>3. ASSUME NEW o \in Stored
          PROVE  /\ o \notin owned \cup tracked /\ SettledAs(o, "pinned") => o \in ever'.orphaned
                 /\ o \in tracked /\ SettledAs(o, "deleted") => o \in ever'.missing
                 /\ o \in tracked => atIndexer[o] # "none"
        <3>1. o \notin owned /\ SettledAs(o, "pinned") => o \in ever.orphaned \cup tracked
            BY <1>9 DEF ReconcileInv, Found
        <3>2. o \in tracked /\ SettledAs(o, "deleted") => R!Missing(o)
            BY DEF SettledAs, R!Missing
        <3>3. o \in tracked => atIndexer[o] # "none"
            BY DEF ReconcileInv, Stages
        <3> QED BY <1>2, <1>6, <3>1, <3>2, <3>3
    <2>4. Found'
        BY <1>3, <1>4, <1>7, <1>9, <2>1, <2>3 DEF Found
    <2>5. /\ \A o \in always'.orphaned : o \in Stored /\ o \notin owned /\ o \notin tracked
          /\ \A o \in always'.missing : o \in Stored /\ o \in tracked
        BY <1>2, <1>6, <1>9, ReconcileTyped DEF R!Orphaned, R!Missing, ReconcileInv, Kept
    <2>6. Kept'
        BY <1>3, <1>9, <2>1, <2>5 DEF Kept
    <2> QED BY <1>9, <2>2, <2>4, <2>6 DEF ReconcileInv, R!ReportIsRight
<1> QED BY <1>3, <1>8, <1>9

LEMMA ReconcileSyncs ==
    ASSUME R!ReconcileAssumption, ReconcileInv, R!SyncIndexer, R!Watch
    PROVE  ReconcileInv'
<1>1. R!Running /\ step = "sync"
    BY DEF R!SyncIndexer, R!Running
<1>2. /\ ever' \in R!Drift /\ always' \in R!Drift
      /\ ever'.orphaned = ever.orphaned \cup {o \in Stored : R!Orphaned(o)'}
      /\ ever'.missing = ever.missing \cup {o \in Stored : R!Missing(o)'}
      /\ always'.orphaned = always.orphaned \cap {o \in Stored : R!Orphaned(o)'}
      /\ always'.missing = always.missing \cap {o \in Stored : R!Missing(o)'}
    BY <1>1, Watched
<1>3. PICK p \in unread : /\ copy' = [copy EXCEPT ![p] = [state |-> atIndexer[p], event |-> event[p]]]
                          /\ unread' = unread \ {p}
    BY DEF R!SyncIndexer
<1>4. /\ step' = IF unread' = {} THEN "diff" ELSE "sync"
      /\ UNCHANGED <<clock, R!objectVars, started, owned, db, report>>
    BY DEF R!SyncIndexer
<1>5. UNCHANGED <<pending, updated, tracked, atIndexer, event>>
    BY <1>4 DEF R!objectVars
<1>6. p \in Stored /\ unread \subseteq Stored
    BY DEF ReconcileInv, R!TypeOK
<1>7. copy' \in [Stored -> [state : {"none", "pinned", "deleted"}, event : 0 .. clock]]
    BY <1>3, <1>6 DEF ReconcileInv, R!TypeOK
<1>8. step' \in {"sync", "diff"}
    BY <1>4
<1>9. R!TypeOK' /\ Stages'
    BY <1>2, <1>3, <1>4, <1>6, <1>7, <1>8, RunTypes DEF ReconcileInv, R!TypeOK
<1>10. /\ copy'[p].state = atIndexer[p] /\ copy'[p].event = event[p]
       /\ \A o \in Stored \ {p} : copy'[o] = copy[o]
    BY <1>3, <1>6 DEF ReconcileInv, R!TypeOK
<1>11. \A o \in Stored : /\ SettledAs(o, "pinned")' <=> SettledAs(o, "pinned")
                         /\ SettledAs(o, "deleted")' <=> SettledAs(o, "deleted")
    BY <1>4, <1>5 DEF SettledAs, R!Settled
<1>12. /\ ReadAs(p, "pinned")' <=> SettledAs(p, "pinned")
       /\ ReadAs(p, "deleted")' <=> SettledAs(p, "deleted")
    BY <1>4, <1>10 DEF SettledAs, ReadAs, R!Settled
<1>13. \A o \in Stored \ {p} : /\ ReadAs(o, "pinned")' <=> ReadAs(o, "pinned")
                               /\ ReadAs(o, "deleted")' <=> ReadAs(o, "deleted")
    BY <1>4, <1>10 DEF ReadAs, R!Settled
<1>14. ASSUME NEW o \in Stored
       PROVE  /\ o \notin owned \cup db /\ (SettledAs(o, "pinned")' \/ (o \notin unread' /\ ReadAs(o, "pinned")'))
                   => o \in ever'.orphaned
              /\ o \in db /\ (SettledAs(o, "deleted")' \/ (o \notin unread' /\ ReadAs(o, "deleted")'))
                   => o \in ever'.missing
              /\ o \in db => atIndexer[o] # "none" /\ (o \notin unread' => copy'[o].state # "none")
    <2>1. /\ o \notin owned \cup db /\ (SettledAs(o, "pinned") \/ (o \notin unread /\ ReadAs(o, "pinned")))
                => o \in ever.orphaned
          /\ o \in db /\ (SettledAs(o, "deleted") \/ (o \notin unread /\ ReadAs(o, "deleted")))
                => o \in ever.missing
          /\ o \in db => atIndexer[o] # "none" /\ (o \notin unread => copy[o].state # "none")
        BY <1>1 DEF ReconcileInv, Found
    <2>2. CASE o = p
        BY <1>2, <1>10, <1>11, <1>12, <2>1, <2>2
    <2>3. CASE o # p
        BY <1>2, <1>3, <1>10, <1>11, <1>13, <2>1, <2>3
    <2> QED BY <2>2, <2>3
<1>15. Found'
    BY <1>4, <1>5, <1>8, <1>14 DEF Found
<1>16. ASSUME NEW o \in always'.orphaned
       PROVE  o \notin owned /\ o \notin db /\ (o \notin unread' => ReadAs(o, "pinned")')
    <2>1. o \in Stored /\ o \in always.orphaned /\ R!Orphaned(o)'
        BY <1>2
    <2>2. o \notin owned /\ o \notin db /\ (o \notin unread => ReadAs(o, "pinned"))
        BY <1>1, <2>1 DEF ReconcileInv, Kept
    <2>3. SettledAs(o, "pinned")'
        BY <2>1 DEF R!Orphaned, SettledAs
    <2> QED BY <1>3, <1>11, <1>12, <1>13, <2>1, <2>2, <2>3
<1>17. ASSUME NEW o \in always'.missing
       PROVE  o \in db /\ (o \notin unread' => ReadAs(o, "deleted")')
    <2>1. o \in Stored /\ o \in always.missing /\ R!Missing(o)'
        BY <1>2
    <2>2. o \in db /\ (o \notin unread => ReadAs(o, "deleted"))
        BY <1>1, <2>1 DEF ReconcileInv, Kept
    <2>3. SettledAs(o, "deleted")'
        BY <2>1 DEF R!Missing, SettledAs
    <2> QED BY <1>3, <1>11, <1>12, <1>13, <2>1, <2>2, <2>3
<1>18. Kept'
    BY <1>4, <1>16, <1>17 DEF Kept
<1>19. step' = "diff" => unread' = {}
    BY <1>4
<1> QED BY <1>8, <1>9, <1>15, <1>18, <1>19 DEF ReconcileInv, R!ReportIsRight

LEMMA ReconcileReports ==
    ASSUME R!ReconcileAssumption, ReconcileInv, R!RecordRun, R!Watch
    PROVE  ReconcileInv'
<1>1. step = "diff" /\ step' = "done" /\ R!Running /\ report' = R!DiffInventory
    BY DEF R!RecordRun, R!Goes, R!Running
<1>2. UNCHANGED <<clock, R!objectVars, started, owned, db, copy, unread>>
    BY DEF R!RecordRun
<1>3. /\ ever' \in R!Drift /\ always' \in R!Drift
      /\ ever.orphaned \subseteq ever'.orphaned /\ ever.missing \subseteq ever'.missing
      /\ always'.orphaned \subseteq always.orphaned /\ always'.missing \subseteq always.missing
    BY <1>1, Watched
<1>4. db \subseteq Stored /\ unread = {}
    BY <1>1 DEF ReconcileInv, R!TypeOK
<1>5. R!DiffInventory \in R!Drift
    BY <1>4 DEF R!DiffInventory, R!Drift
<1>6. R!TypeOK' /\ Stages'
    BY <1>1, <1>2, <1>3, <1>5, RunTypes DEF ReconcileInv, R!TypeOK
<1>7. ASSUME NEW o \in R!DiffInventory.orphaned PROVE o \in ever'.orphaned
    <2>1. o \in Stored \ db /\ ReadAs(o, "pinned") /\ o \notin owned
        BY DEF R!DiffInventory, R!Recent, ReadAs
    <2> QED BY <1>1, <1>3, <1>4, <2>1 DEF ReconcileInv, Found
<1>8. ASSUME NEW o \in R!DiffInventory.missing PROVE o \in ever'.missing
    <2>1. /\ o \in db /\ copy[o].state # "pinned"
          /\ ~(copy[o].state = "deleted" /\ R!Recent(o))
        BY DEF R!DiffInventory
    <2>2. o \in Stored /\ copy[o].state # "none"
        BY <1>1, <1>4, <2>1 DEF ReconcileInv, Found
    <2>3. copy[o].state = "deleted"
        BY <2>1, <2>2, ReconcileTyped
    <2>4. ReadAs(o, "deleted")
        BY <2>1, <2>3 DEF R!Recent, ReadAs
    <2> QED BY <1>1, <1>3, <1>4, <2>1, <2>2, <2>4 DEF ReconcileInv, Found
<1>9. ASSUME NEW o \in always'.orphaned PROVE o \in R!DiffInventory.orphaned
    <2>1. o \in Stored /\ o \notin owned /\ o \notin db /\ ReadAs(o, "pinned")
        BY <1>1, <1>3, <1>4, ReconcileTyped DEF ReconcileInv, Kept
    <2> QED BY <2>1 DEF R!DiffInventory, R!Recent, ReadAs
<1>10. ASSUME NEW o \in always'.missing PROVE o \in R!DiffInventory.missing
    <2>1. o \in Stored /\ o \in db /\ ReadAs(o, "deleted")
        BY <1>1, <1>3, <1>4, ReconcileTyped DEF ReconcileInv, Kept
    <2> QED BY <2>1 DEF R!DiffInventory, R!Recent, ReadAs
<1>11. DOMAIN report' = {"orphaned", "missing"}
    BY <1>1 DEF R!DiffInventory
<1>12. R!ReportIsRight'
    <2>1. \A k \in {"orphaned", "missing"} : report'[k] \subseteq ever'[k] /\ always'[k] \subseteq report'[k]
        BY <1>1, <1>7, <1>8, <1>9, <1>10
    <2> QED BY <1>11, <2>1 DEF R!ReportIsRight
<1>13. Found' /\ Kept'
    BY <1>1 DEF Found, Kept
<1> QED BY <1>1, <1>6, <1>12, <1>13 DEF ReconcileInv

LEMMA ReconcileFails ==
    ASSUME R!ReconcileAssumption, ReconcileInv, R!RunFails, R!Watch
    PROVE  ReconcileInv'
<1>1. step' = "idle" /\ R!Running /\ UNCHANGED <<clock, R!objectVars, R!readVars>>
    BY DEF R!RunFails
<1>2. ever' \in R!Drift /\ always' \in R!Drift
    BY <1>1, Watched
<1>3. R!TypeOK' /\ Stages'
    BY <1>1, <1>2, RunTypes DEF ReconcileInv, R!TypeOK, R!readVars
<1> QED BY <1>1, <1>3 DEF ReconcileInv, Found, Kept, R!ReportIsRight

LEMMA ReconcileStep ==
    ASSUME R!ReconcileAssumption PROVE ReconcileInv /\ [R!Next]_(R!vars) => ReconcileInv'
<1> SUFFICES ASSUME ReconcileInv, [R!Next]_(R!vars) PROVE ReconcileInv'
    OBVIOUS
<1>1. CASE R!Begin
    BY <1>1, ReconcileBegins
<1>2. CASE R!ObjectStep /\ R!Watch
    BY <1>2, ObjectsQuiet
<1>3. CASE R!Tick /\ R!Watch
    BY <1>3, TickQuiet
<1>4. CASE R!ReadDatabase /\ R!Watch
    BY <1>4, ReconcileReads
<1>5. CASE R!SyncIndexer /\ R!Watch
    BY <1>5, ReconcileSyncs
<1>6. CASE R!RecordRun /\ R!Watch
    BY <1>6, ReconcileReports
<1>7. CASE R!RunFails /\ R!Watch
    BY <1>7, ReconcileFails
<1>8. CASE UNCHANGED R!vars
    <2>1. UNCHANGED <<clock, upload, pending, updated, tracked, unpinned, atIndexer, event, step,
                      started, owned, db, copy, unread, report, ever, always>>
        BY <1>8 DEF R!vars, R!objectVars, R!readVars
    <2> QED BY <2>1 DEF ReconcileInv, R!TypeOK, Stages, Found, Kept, SettledAs, ReadAs, R!Settled,
                        R!ReportIsRight
<1> QED BY <1>1, <1>2, <1>3, <1>4, <1>5, <1>6, <1>7, <1>8 DEF R!Next

LEMMA ReconcileIsRight == ASSUME R!ReconcileAssumption PROVE R!Spec => []ReconcileInv
<1>1. R!Init => ReconcileInv
    BY ReconcileInit
<1>2. ReconcileInv /\ [R!Next]_(R!vars) => ReconcileInv'
    BY ReconcileStep
<1> QED BY <1>1, <1>2, PTL DEF R!Spec

\* What a run reports as orphaned or missing was so at one moment of the run, and
\* what was so all the time is reported, for any objects and any grace time longer
\* than a commit takes.
THEOREM ReportsAreRight == ASSUME R!ReconcileAssumption PROVE R!Spec => []R!ReportIsRight
<1>1. ReconcileInv => R!ReportIsRight
    BY DEF ReconcileInv
<1> QED BY <1>1, ReconcileIsRight, PTL
=============================================================================
