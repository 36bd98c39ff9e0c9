--------------------------- MODULE ServicesProofs ---------------------------
(***************************************************************************)
(* The properties of MCServices, for every value of the constants it       *)
(* leaves open: the invariants of the parts, which their own proof modules *)
(* establish, hold of the part a behaviour is of.                          *)
(***************************************************************************)
EXTENDS MCServices, TLAPS

B == INSTANCE BackendProofs WITH
        Request <- User, password <- v1, removed <- v2, live <- v3, used <- v4,
        resetUsed <- v5, invite <- v6, req <- v7, by <- v8, since <- v9,
        late <- v10, unended <- v11, removals <- v12, resets <- v13, joins <- v14,
        Grid <- 3, MinLeft <- 1, MinAsk <- 1, DefaultAsk <- 2,
        Cap <- 5, GatedCap <- 4, SignedCap <- 4, Lifetimes <- {0, 1, 4}, ShareEnd <- 2,
        shareTime <- v1, sharePc <- v2, gated <- v3, signedTo <- v4, lifetime <- v5,
        limit <- v6, looked <- v7, slot <- v8, kept <- v9, minting <- v10,
        minted <- v11, again <- v12,
        Job <- {"job"}, phase <- v1, crashed <- v2, exit <- v3, httpDone <- v4,
        jobsDone <- v5, handler <- v6, conn <- v7, jobAt <- v8, counted <- v9,
        unheard <- v10, buffer <- v11, writing <- v12, last <- v13, told <- v14,
        CacheEnd <- MaxTime, cacheTime <- v1, versions <- v2, claimedAt <- v3,
        dropping <- v4, owners <- v5, cached <- v6, asking <- v7, began <- v8,
        result <- v9, dropped <- v10, verdict <- v11,
        Execution <- User, endpoint <- v1, secret <- v2, dispatch <- v3, resend <- v4,
        job <- v5, made <- v6, stalls <- v7, holder <- v8, doing <- v9, log <- v10,
        acks <- v11, unlogged <- v12, missed <- v13, faults <- v14,
        Stored <- {"object"}, Grace <- 2, CommitDelay <- 1, ReportEnd <- 4, clock <- v1,
        upload <- v2, pending <- v3, updated <- v4, tracked <- v5, unpinned <- v6,
        atIndexer <- v7, event <- v8, step <- v9, started <- v10, owned <- v11, db <- v12,
        copy <- v13, unread <- v14, report <- v15, ever <- v16, always <- v17
P == INSTANCE AssetStorageProofs WITH
        Exec <- User, Batches <- 1, Attempts <- 1, Faults <- FALSE,
        StaleRuns <- FALSE, status <- v1, artifacts <- v2, pending <- v3,
        pinned <- v4, early <- v5, run <- v6, waiting <- v7, handOff <- v8,
        handed <- v9, phase <- v10, runOf <- v11, stalled <- v12, batch <- v13,
        try <- v14, recorded <- v15, kept <- v16, call <- v17, todo <- v18,
        current <- v19, finalizing <- v20, deletion <- v21

Z == INSTANCE BrowserProofs WITH
        Attempt <- User, Resolve <- User, Object <- Provider, Fetch <- {"fetch"},
        MaxCached <- 1, MaxDisposed <- 1, generation <- v1, promise <- v2,
        sdk <- v3, conn <- v4, born <- v5, map <- v6, fetch <- v7, asked <- v8,
        cached <- v9, at <- v10, object <- v11, on <- v12, using <- v13,
        forced <- v14, handle <- v15, dropped <- v16,
        Loader <- User, Segment <- Provider, MaxFailures <- 2, session <- v1,
        warm <- v2, siaBusy <- v3, failures <- v4, paused <- v5, load <- v6,
        segment <- v7, read <- v8, answers <- v9,
        Upload <- User, SameFile <- User, TooLarge <- {}, card <- v1, task <- v2,
        waiting <- v3, held <- v4, online <- v5, overLimit <- v6, elsewhere <- v7

FP == INSTANCE ReconcileFeedProofs WITH
        Object <- {1}, Run <- User, Feed <- {"f1", "f2"}, PageSize <- 1, Fine <- 1,
        Grace <- 1, CommitDelay <- 0, MaxTime <- 1, Overlap <- TRUE, now <- v1,
        event <- v2, open <- v3, feed <- v4, copy <- v5, source <- v6, saved <- v7,
        phase <- v8, runFeed <- v9, settled <- v10, cursor <- v11, held <- v12,
        page <- v13, fetched <- v14, since <- v15
QP == INSTANCE ReconcileFeedProofs WITH
        Object <- {1, 2}, Run <- {"run"}, Feed <- {"f1"}, PageSize <- 1, Fine <- 2,
        Grace <- 1, CommitDelay <- 0, MaxTime <- 5, Overlap <- FALSE, now <- v1,
        event <- v2, open <- v3, feed <- v4, copy <- v5, source <- v6, saved <- v7,
        phase <- v8, runFeed <- v9, settled <- v10, cursor <- v11, held <- v12,
        page <- v13, fetched <- v14, since <- v15
LP == INSTANCE ReconcileFeedProofs WITH
        Object <- {1, 2}, Run <- {"run"}, Feed <- {"f1"}, PageSize <- 1, Fine <- 1,
        Grace <- 2, CommitDelay <- 1, MaxTime <- 3, Overlap <- FALSE, now <- v1,
        event <- v2, open <- v3, feed <- v4, copy <- v5, source <- v6, saved <- v7,
        phase <- v8, runFeed <- v9, settled <- v10, cursor <- v11, held <- v12,
        page <- v13, fetched <- v14, since <- v15

allVars == <<part, vars, Rest0>>

\* What AssetStorageProofs assumes of its constants is so here.
LEMMA StorageIsAssumed == P!StorageAssumption
BY PartsAssumption DEF P!StorageAssumption

----------------------------------------------------------------------------
(***************************************************************************)
(* Members, for every set of members, providers and transactions. A commit *)
(* is safe because what its transaction read is still true: this is what   *)
(* OtherWay and OtherAdmin say of a transaction that is about to write.    *)
(* They are kept because no one else holds the lock (OneHolder), and what  *)
(* takes no lock only adds members and ways: one it gives the member of a  *)
(* transaction that read it as no admin who can sign in makes that         *)
(* transaction an overtaken one, which OtherAdmin excepts.                 *)
(***************************************************************************)
Writing(t, op) == tx[t].op = op /\ tx[t].at = "write"

Absent == \A u \in User : role[u] = "none" => ways[u] = {}

OneHolder ==
    \A s, t \in Tx :
        Open(s) /\ Open(t) /\ s # t =>
            Locks(tx[s].op, tx[s].user) \cap Locks(tx[t].op, tx[t].user) = {}

Named ==
    \A t \in Tx :
        /\ tx[t].op \in {"demote", "promote", "remove", "link"} =>
               tx[t].user \in User /\ role[tx[t].user] # "none"
        /\ tx[t].op = "unlink" => tx[t].user \in User
        /\ tx[t].op = "link" => tx[t].way \in Ways

OtherWay ==
    \A t \in Tx : Writing(t, "unlink") => \E w \in ways[tx[t].user] : w # tx[t].way

OtherAdmin ==
    \A t \in Tx :
        /\ Writing(t, "demote") \/ Writing(t, "remove")
        /\ t \notin overtaken /\ SignInAdmin(tx[t].user)
        => \E v \in User \ {tx[t].user} : SignInAdmin(v)

MembersInv == TypeOK /\ Absent /\ OneHolder /\ Named /\ OtherWay /\ OtherAdmin

----------------------------------------------------------------------------
LEMMA MembersInit == Init => MembersInv
<1> SUFFICES ASSUME Init PROVE MembersInv
  OBVIOUS
<1>1. TypeOK
  BY DEF Init, TypeOK, Ways
<1>2. Absent /\ OneHolder /\ Named /\ OtherWay /\ OtherAdmin
  BY DEF Init, Absent, OneHolder, Named, OtherWay, OtherAdmin, Open, Writing, Idle
<1> QED BY <1>1, <1>2 DEF MembersInv


----------------------------------------------------------------------------
(***************************************************************************)
(* What a step of a transaction leaves of the transactions.                *)
(***************************************************************************)
\* The other transactions stay, and the one that moves keeps what it is for.
LEMMA Move ==
  ASSUME TypeOK, NEW t \in Tx, Open(t), NEW at \in {"idle", "others", "write"}, GoOn(t, at)
  PROVE  /\ tx' \in [Tx -> [op : Ops, user : User \cup {None}, way : Ways \cup {None},
                            at : {"member", "others", "write"}] \cup {Idle}]
         /\ overtaken' \subseteq Tx
         /\ \A s \in Tx \ {t} : tx'[s] = tx[s] /\ (s \in overtaken' <=> s \in overtaken)
         /\ at = "idle" => tx'[t] = Idle
         /\ at # "idle" => /\ tx'[t].op = tx[t].op /\ tx'[t].user = tx[t].user
                           /\ tx'[t].way = tx[t].way /\ tx'[t].at = at
<1>1. tx[t] \in [op : Ops, user : User \cup {None}, way : Ways \cup {None},
                 at : {"member", "others", "write"}]
  BY DEF TypeOK, Open, Idle
<1> QED BY <1>1 DEF TypeOK, GoOn

\* No step of a transaction that has its lock takes that of another, and none
\* forgets whom it is about.
LEMMA MoveKeeps ==
  ASSUME TypeOK, OneHolder, Named,
         NEW t \in Tx, Open(t), NEW at \in {"idle", "others", "write"}, GoOn(t, at),
         \A u \in User : role[u] # "none" => role'[u] # "none"
  PROVE  OneHolder' /\ Named'
<1>1. \A s \in Tx \ {t} : tx'[s] = tx[s]
  BY Move
<1>2. at = "idle" => tx'[t] = Idle
  BY Move
<1>3. at # "idle" => /\ tx'[t].op = tx[t].op /\ tx'[t].user = tx[t].user
                    /\ tx'[t].way = tx[t].way
  BY Move
<1>4. OneHolder'
  BY <1>1, <1>2, <1>3 DEF OneHolder, Open, Idle
<1>5. Named'
  BY <1>1, <1>2, <1>3 DEF Named, Idle
<1> QED BY <1>4, <1>5

\* Whoever is to change the admins is alone with that.
LEMMA OneChange ==
  ASSUME OneHolder, NEW s \in Tx, NEW t \in Tx, Open(s), Open(t),
         tx[s].op \notin {"link", "unlink"}, tx[t].op \notin {"link", "unlink"}
  PROVE  s = t
<1>1. Locks(tx[s].op, tx[s].user) = {None} /\ Locks(tx[t].op, tx[t].user) = {None}
  BY DEF Locks
<1> QED BY <1>1 DEF OneHolder

\* Whoever is to unlink a way of a member is alone with that member.
LEMMA OneUnlink ==
  ASSUME OneHolder, NEW s \in Tx, NEW t \in Tx, Open(s), Open(t),
         tx[s].op = "unlink", tx[t].op = "unlink", tx[s].user = tx[t].user
  PROVE  s = t
<1>1. Locks(tx[s].op, tx[s].user) = {tx[s].user} /\ Locks(tx[t].op, tx[t].user) = {tx[s].user}
  BY DEF Locks
<1> QED BY <1>1 DEF OneHolder

----------------------------------------------------------------------------
(***************************************************************************)
(* The steps that write no row.                                            *)
(***************************************************************************)
\* A read step keeps the invariant if what it read lets it write.
LEMMA ReadKeeps ==
  ASSUME MembersInv, NEW t \in Tx, Open(t), NEW at \in {"idle", "others", "write"}, Read(t, at),
         at = "write" /\ tx[t].op = "unlink" => \E w \in ways[tx[t].user] : w # tx[t].way,
         at = "write" /\ tx[t].op \in {"demote", "remove"} /\ SignInAdmin(tx[t].user) =>
             \E v \in User \ {tx[t].user} : SignInAdmin(v)
  PROVE  MembersInv'
<1> USE DEF MembersInv
<1>1. GoOn(t, at) /\ UNCHANGED <<role, removed, ways>>
  BY DEF Read
<1>2. TypeOK'
  BY <1>1, Move DEF TypeOK
<1>3. Absent'
  BY <1>1 DEF Absent
<1>4. OneHolder' /\ Named'
  BY <1>1, MoveKeeps
<1>5. /\ \A s \in Tx \ {t} : tx'[s] = tx[s] /\ (s \in overtaken' <=> s \in overtaken)
      /\ at = "idle" => tx'[t] = Idle
      /\ at # "idle" => /\ tx'[t].op = tx[t].op /\ tx'[t].user = tx[t].user
                        /\ tx'[t].way = tx[t].way /\ tx'[t].at = at
  BY <1>1, Move
<1>6. OtherWay'
  BY <1>1, <1>5 DEF OtherWay, Writing, Idle
<1>7. OtherAdmin'
  <2> SUFFICES ASSUME NEW s \in Tx,
                      Writing(s, "demote")' \/ Writing(s, "remove")',
                      s \notin overtaken', SignInAdmin(tx[s].user)'
               PROVE  (\E v \in User \ {tx[s].user} : SignInAdmin(v))'
    BY DEF OtherAdmin
  <2>1. \A u : SignInAdmin(u)' <=> SignInAdmin(u)
    BY <1>1 DEF SignInAdmin, CanSignIn
  <2>2. CASE s # t
    BY <2>1, <2>2, <1>1, <1>5 DEF OtherAdmin, Writing
  <2>3. CASE s = t
    <3>1. tx'[t].op = tx[t].op /\ tx'[t].user = tx[t].user /\ at = "write"
      BY <2>3, <1>5 DEF Writing, Idle
    <3>2. tx[t].op \in {"demote", "remove"}
      BY <2>3, <3>1 DEF Writing
    <3> QED BY <2>1, <2>3, <3>1, <3>2
  <2> QED BY <2>2, <2>3
<1> QED BY <1>2, <1>3, <1>4, <1>6, <1>7

LEMMA BeginKeeps ==
  ASSUME MembersInv, NEW t \in Tx, NEW op \in Ops, NEW u \in User \cup {None},
         NEW w \in Ways \cup {None}, NEW at \in {"member", "others", "write"},
         Begin(t, op, u, w, at),
         op \in {"demote", "promote", "remove", "link"} => u \in User /\ role[u] # "none",
         op = "unlink" => u \in User,
         op = "link" => w \in Ways, at = "write" => op = "link"
  PROVE  MembersInv'
<1> USE DEF MembersInv
<1>1. /\ tx' = [tx EXCEPT ![t] = [op |-> op, user |-> u, way |-> w, at |-> at]]
      /\ ~Open(t) /\ Free(op, u) /\ UNCHANGED <<role, removed, ways, overtaken>>
  BY DEF Begin
<1>2. TypeOK'
  BY <1>1 DEF TypeOK
<1>3. Absent'
  BY <1>1 DEF Absent
<1>4. /\ tx'[t] = [op |-> op, user |-> u, way |-> w, at |-> at]
      /\ \A s \in Tx \ {t} : tx'[s] = tx[s]
  BY <1>1 DEF TypeOK
<1>5. OneHolder'
  BY <1>1, <1>4 DEF OneHolder, Open, Free
<1>6. Named'
  BY <1>1, <1>4 DEF Named
<1>7. OtherWay'
  BY <1>1, <1>4 DEF OtherWay, Writing
<1>8. OtherAdmin'
  BY <1>1, <1>4 DEF OtherAdmin, Writing, SignInAdmin, CanSignIn
<1> QED BY <1>2, <1>3, <1>5, <1>6, <1>7, <1>8

----------------------------------------------------------------------------
(***************************************************************************)
(* The commits, under the lock of the transaction.                         *)
(***************************************************************************)
LEMMA CommitRoleKeeps ==
  ASSUME MembersInv, NEW t \in Tx, CommitRole(t)
  PROVE  MembersInv'
<1> USE DEF MembersInv
<1> DEFINE u == tx[t].user
           r == IF tx[t].op = "demote" THEN "member" ELSE "admin"
<1>1. /\ Open(t) /\ GoOn(t, "idle") /\ role' = [role EXCEPT ![u] = r]
      /\ UNCHANGED <<removed, ways>>
      /\ tx[t].op \in {"demote", "promote"}
  BY DEF CommitRole, Open
<1>2. u \in User /\ role[u] # "none"
  BY <1>1 DEF Named
<1>3. role' \in [User -> {"none", "admin", "member"}]
      /\ \A v \in User : role'[v] # "none" <=> role[v] # "none"
  BY <1>1, <1>2 DEF TypeOK
<1>4. TypeOK'
  BY <1>1, <1>3, Move DEF TypeOK
<1>5. Absent'
  BY <1>1, <1>3 DEF Absent
<1>6. OneHolder' /\ Named'
  BY <1>1, <1>3, MoveKeeps
<1>7. tx'[t] = Idle /\ \A s \in Tx \ {t} : tx'[s] = tx[s]
  BY <1>1, Move
<1>8. OtherWay'
  BY <1>1, <1>7 DEF OtherWay, Writing, Idle
<1>9. OtherAdmin'
  <2> SUFFICES ASSUME NEW s \in Tx, (Writing(s, "demote") \/ Writing(s, "remove"))'
               PROVE  FALSE
    BY DEF OtherAdmin
  <2>1. s # t /\ Open(s) /\ tx[s].op \in {"demote", "remove"}
    BY <1>7 DEF Writing, Open, Idle
  <2> QED BY <1>1, <2>1, OneChange
<1> QED BY <1>4, <1>5, <1>6, <1>8, <1>9

LEMMA CommitRemoveKeeps ==
  ASSUME MembersInv, NEW t \in Tx, CommitRemove(t)
  PROVE  MembersInv'
<1> USE DEF MembersInv
<1>1. /\ Open(t) /\ GoOn(t, "idle") /\ removed' = removed \cup {tx[t].user}
      /\ UNCHANGED <<role, ways>>
      /\ tx[t].op = "remove"
  BY DEF CommitRemove, At, Open
<1>2. tx[t].user \in User /\ role[tx[t].user] # "none"
  BY <1>1 DEF Named
<1>3. TypeOK'
  BY <1>1, <1>2, Move DEF TypeOK
<1>4. Absent'
  BY <1>1 DEF Absent
<1>5. OneHolder' /\ Named'
  BY <1>1, MoveKeeps
<1>6. tx'[t] = Idle /\ \A s \in Tx \ {t} : tx'[s] = tx[s]
  BY <1>1, Move
<1>7. OtherWay'
  BY <1>1, <1>6 DEF OtherWay, Writing, Idle
<1>8. OtherAdmin'
  <2> SUFFICES ASSUME NEW s \in Tx, (Writing(s, "demote") \/ Writing(s, "remove"))'
               PROVE  FALSE
    BY DEF OtherAdmin
  <2>1. s # t /\ Open(s) /\ tx[s].op \in {"demote", "remove"}
    BY <1>6 DEF Writing, Open, Idle
  <2> QED BY <1>1, <2>1, OneChange
<1> QED BY <1>3, <1>4, <1>5, <1>7, <1>8

LEMMA CommitSetupKeeps ==
  ASSUME MembersInv, NEW t \in Tx, CommitSetup(t)
  PROVE  MembersInv'
<1> USE DEF MembersInv
<1>1. /\ Open(t) /\ GoOn(t, "idle") /\ UNCHANGED removed
      /\ tx[t].op = "setup"
  BY DEF CommitSetup, At, Open
<1>2. /\ role' \in [User -> {"none", "admin", "member"}] /\ ways' \in [User -> SUBSET Ways]
      /\ \A v \in User : role[v] # "none" => role'[v] = role[v] /\ ways'[v] = ways[v]
      /\ \A v \in User : role'[v] = "none" => ways'[v] = ways[v] /\ role[v] = "none"
  BY DEF CommitSetup, NewMember, TypeOK, Ways
<1>3. TypeOK'
  BY <1>1, <1>2, Move DEF TypeOK
<1>4. Absent'
  BY <1>2 DEF Absent
<1>5. OneHolder' /\ Named'
  BY <1>1, <1>2, MoveKeeps
<1>6. tx'[t] = Idle /\ \A s \in Tx \ {t} : tx'[s] = tx[s]
  BY <1>1, Move
<1>7. OtherWay'
  <2> SUFFICES ASSUME NEW s \in Tx, Writing(s, "unlink")'
               PROVE  \E w \in ways'[tx'[s].user] : w # tx'[s].way
    BY DEF OtherWay
  <2>1. s # t /\ tx'[s] = tx[s] /\ Writing(s, "unlink")
    BY <1>6 DEF Writing, Idle
  <2>2. tx[s].user \in User /\ \E w \in ways[tx[s].user] : w # tx[s].way
    BY <2>1 DEF Named, OtherWay, Writing
  <2>3. ways'[tx[s].user] = ways[tx[s].user]
    BY <2>2, <1>2 DEF Absent
  <2> QED BY <2>1, <2>2, <2>3
<1>8. OtherAdmin'
  <2> SUFFICES ASSUME NEW s \in Tx, (Writing(s, "demote") \/ Writing(s, "remove"))'
               PROVE  FALSE
    BY DEF OtherAdmin
  <2>1. s # t /\ Open(s) /\ tx[s].op \in {"demote", "remove"}
    BY <1>6 DEF Writing, Open, Idle
  <2> QED BY <1>1, <2>1, OneChange
<1> QED BY <1>3, <1>4, <1>5, <1>7, <1>8

LEMMA CommitUnlinkKeeps ==
  ASSUME MembersInv, NEW t \in Tx, CommitUnlink(t)
  PROVE  MembersInv' /\ \A v \in User : ways[v] # {} => ways'[v] # {}
<1> USE DEF MembersInv
<1> DEFINE u == tx[t].user
<1>1. /\ Open(t) /\ GoOn(t, "idle") /\ ways' = [ways EXCEPT ![u] = @ \ {tx[t].way}]
      /\ UNCHANGED <<role, removed>>
      /\ tx[t].op = "unlink" /\ Writing(t, "unlink")
  BY DEF CommitUnlink, At, Open, Writing
<1>2. u \in User /\ \E w \in ways[u] : w # tx[t].way
  BY <1>1 DEF Named, OtherWay
<1>3. /\ \A v \in User : ways[v] # {} <=> ways'[v] # {}
      /\ \A v \in User \ {u} : ways'[v] = ways[v]
      /\ ways' \in [User -> SUBSET Ways]
  BY <1>1, <1>2 DEF TypeOK
<1>4. TypeOK'
  BY <1>1, <1>3, Move DEF TypeOK
<1>5. Absent'
  BY <1>1, <1>3 DEF Absent
<1>6. OneHolder' /\ Named'
  BY <1>1, MoveKeeps
<1>7. /\ tx'[t] = Idle
      /\ \A s \in Tx \ {t} : tx'[s] = tx[s] /\ (s \in overtaken' <=> s \in overtaken)
  BY <1>1, Move
<1>8. OtherWay'
  <2> SUFFICES ASSUME NEW s \in Tx, Writing(s, "unlink")'
               PROVE  \E w \in ways'[tx'[s].user] : w # tx'[s].way
    BY DEF OtherWay
  <2>1. s # t /\ tx'[s] = tx[s] /\ Writing(s, "unlink") /\ Open(s)
    BY <1>7 DEF Writing, Idle, Open
  <2>2. tx[s].user \in User \ {u}
    BY <1>1, <2>1, OneUnlink DEF Named, Writing
  <2> QED BY <2>1, <2>2, <1>3 DEF OtherWay
<1>9. OtherAdmin'
  <2> SUFFICES ASSUME NEW s \in Tx, (Writing(s, "demote") \/ Writing(s, "remove"))',
                      s \notin overtaken', SignInAdmin(tx[s].user)'
               PROVE  \E v \in User \ {tx'[s].user} : SignInAdmin(v)'
    BY DEF OtherAdmin
  <2>1. s # t /\ tx'[s] = tx[s] /\ s \notin overtaken /\ (Writing(s, "demote") \/ Writing(s, "remove"))
    BY <1>7 DEF Writing, Idle
  <2>2. tx[s].user \in User
    BY <2>1 DEF Named, Writing
  <2>3. \A v \in User : SignInAdmin(v)' <=> SignInAdmin(v)
    BY <1>1, <1>3 DEF SignInAdmin, CanSignIn
  <2> QED BY <2>1, <2>2, <2>3, <1>1 DEF OtherAdmin
<1> QED BY <1>3, <1>4, <1>5, <1>6, <1>8, <1>9

----------------------------------------------------------------------------
(***************************************************************************)
(* The steps that take no lock.                                            *)
(***************************************************************************)
\* A member who joins adds a way and an admin, and leaves every transaction.
LEMMA AdditionKeeps ==
  ASSUME MembersInv, UNCHANGED <<removed, tx, overtaken>>, TypeOK', Absent',
         \A v \in User : ways[v] \subseteq ways'[v],
         \A v \in User : role[v] # "none" => role'[v] = role[v],
         \A v \in User : SignInAdmin(v)' => SignInAdmin(v) \/ role[v] = "none"
  PROVE  MembersInv'
<1> USE DEF MembersInv
<1>1. OneHolder' /\ Named'
  BY DEF OneHolder, Named, Open
<1>2. OtherWay'
  BY DEF OtherWay, Writing, Named
<1>3. OtherAdmin'
  <2> SUFFICES ASSUME NEW s \in Tx, (Writing(s, "demote") \/ Writing(s, "remove"))',
                      s \notin overtaken', SignInAdmin(tx[s].user)'
               PROVE  \E v \in User \ {tx'[s].user} : SignInAdmin(v)'
    BY DEF OtherAdmin
  <2>1. tx[s].user \in User /\ role[tx[s].user] # "none" /\ tx'[s] = tx[s] /\ s \notin overtaken
        /\ (Writing(s, "demote") \/ Writing(s, "remove"))
    BY DEF Named, Writing
  <2>2. SignInAdmin(tx[s].user)
    BY <2>1
  <2>3. PICK v \in User \ {tx[s].user} : SignInAdmin(v)
    BY <2>1, <2>2 DEF OtherAdmin
  <2>4. SignInAdmin(v)'
    BY <2>3 DEF SignInAdmin, CanSignIn
  <2> QED BY <2>1, <2>3, <2>4
<1> QED BY <1>1, <1>2, <1>3

LEMMA JoinKeeps ==
  ASSUME MembersInv, NEW u \in User, Join(u)
  PROVE  MembersInv'
<1> USE DEF MembersInv
<1>1. PICK r \in {"admin", "member"}, w \in Ways :
         /\ role[u] = "none" /\ role' = [role EXCEPT ![u] = r]
         /\ ways' = [ways EXCEPT ![u] = {w}] /\ UNCHANGED <<removed, tx, overtaken>>
  BY DEF Join, NewMember
<1>2. TypeOK' /\ Absent'
  BY <1>1 DEF TypeOK, Absent
<1>3. \A v \in User : ways[v] \subseteq ways'[v]
  BY <1>1 DEF TypeOK, Absent
<1>4. \A v \in User : role[v] # "none" => role'[v] = role[v]
  BY <1>1 DEF TypeOK
<1>5. \A v \in User : SignInAdmin(v)' => SignInAdmin(v) \/ role[v] = "none"
  BY <1>1 DEF TypeOK, SignInAdmin, CanSignIn
<1> QED BY <1>1, <1>2, <1>3, <1>4, <1>5, AdditionKeeps

\* A first way in makes whoever has read the member without one an overtaken one;
\* another way changes nothing for who can sign in.
LEMMA CommitLinkKeeps ==
  ASSUME MembersInv, NEW t \in Tx, CommitLink(t)
  PROVE  /\ MembersInv'
         /\ \A v \in User : ways[v] # {} => ways'[v] # {}
         /\ \A v \in User : SignInAdmin(v) => SignInAdmin(v)'
<1> USE DEF MembersInv
<1> DEFINE u == tx[t].user
<1>1. /\ tx[t].op = "link" /\ ways' = [ways EXCEPT ![u] = @ \cup {tx[t].way}]
      /\ tx' = [tx EXCEPT ![t] = Idle] /\ UNCHANGED <<role, removed>>
      /\ overtaken' = IF ways[u] = {} THEN overtaken \cup About(u) ELSE overtaken
  BY DEF CommitLink, At
<1>2. u \in User /\ role[u] # "none" /\ tx[t].way \in Ways
  BY <1>1 DEF Named
<1>3. /\ ways' \in [User -> SUBSET Ways]
      /\ \A v \in User \ {u} : ways'[v] = ways[v]
      /\ \A v \in User : ways[v] \subseteq ways'[v]
  BY <1>1, <1>2 DEF TypeOK
<1>4. tx'[t] = Idle /\ \A s \in Tx \ {t} : tx'[s] = tx[s]
  BY <1>1 DEF TypeOK
<1>5. TypeOK'
  BY <1>1, <1>3 DEF TypeOK, About
<1>6. Absent'
  BY <1>1, <1>2, <1>3 DEF Absent
<1>7. OneHolder' /\ Named'
  BY <1>1, <1>4 DEF OneHolder, Named, Open, Idle
<1>8. OtherWay'
  BY <1>3, <1>4 DEF OtherWay, Named, Writing, Idle
<1>9. \A v \in User : SignInAdmin(v) => SignInAdmin(v)'
  BY <1>1, <1>3 DEF SignInAdmin, CanSignIn
<1>10. OtherAdmin'
  <2> SUFFICES ASSUME NEW s \in Tx, (Writing(s, "demote") \/ Writing(s, "remove"))',
                      s \notin overtaken', SignInAdmin(tx[s].user)'
               PROVE  \E v \in User \ {tx'[s].user} : SignInAdmin(v)'
    BY DEF OtherAdmin
  <2>1. tx'[s] = tx[s] /\ s \notin overtaken /\ (Writing(s, "demote") \/ Writing(s, "remove"))
    BY <1>1, <1>4 DEF Writing, Idle
  <2>2. tx[s].user \in User
    BY <2>1 DEF Named, Writing
  <2>3. tx[s].user = u => ways[u] # {}
    BY <1>1, <2>1 DEF About, Writing
  <2>4. SignInAdmin(tx[s].user)
    <3>1. role[tx[s].user] = "admin" /\ tx[s].user \notin removed /\ ways'[tx[s].user] # {}
      BY <1>1, <2>1 DEF SignInAdmin, CanSignIn
    <3>2. ways[tx[s].user] # {}
      BY <1>3, <2>2, <2>3, <3>1
    <3> QED BY <3>1, <3>2 DEF SignInAdmin, CanSignIn
  <2> QED BY <1>9, <2>1, <2>4 DEF OtherAdmin
<1> QED BY <1>3, <1>5, <1>6, <1>7, <1>8, <1>9, <1>10

\* So does the restore of one who was read as removed. Otherwise it only adds one who
\* can sign in.
LEMMA RestoreKeeps ==
  ASSUME MembersInv, NEW u \in User, Restore(u)
  PROVE  MembersInv'
<1> USE DEF MembersInv
<1>1. /\ removed' = removed \ {u} /\ UNCHANGED <<role, ways, tx>>
      /\ overtaken' = overtaken \cup About(u)
  BY DEF Restore
<1>2. TypeOK' /\ Absent' /\ OneHolder' /\ Named' /\ OtherWay'
  BY <1>1 DEF TypeOK, Absent, OneHolder, Named, OtherWay, Open, Writing, About
<1>3. OtherAdmin'
  <2> SUFFICES ASSUME NEW s \in Tx, (Writing(s, "demote") \/ Writing(s, "remove"))',
                      s \notin overtaken', SignInAdmin(tx[s].user)'
               PROVE  \E v \in User \ {tx'[s].user} : SignInAdmin(v)'
    BY DEF OtherAdmin
  <2>1. tx'[s] = tx[s] /\ s \notin overtaken /\ (Writing(s, "demote") \/ Writing(s, "remove"))
    BY <1>1 DEF Writing
  <2>2. tx[s].user # u
    BY <1>1, <2>1 DEF Writing, About
  <2>3. SignInAdmin(tx[s].user)
    BY <1>1, <2>1, <2>2 DEF SignInAdmin, CanSignIn
  <2>4. \A v \in User : SignInAdmin(v) => SignInAdmin(v)'
    BY <1>1 DEF SignInAdmin, CanSignIn
  <2> QED BY <2>1, <2>3, <2>4 DEF OtherAdmin
<1> QED BY <1>2, <1>3

----------------------------------------------------------------------------
(***************************************************************************)
(* All steps.                                                              *)
(***************************************************************************)
LEMMA ChangeKeeps ==
  ASSUME MembersInv, NEW t \in Tx, Change(t)
  PROVE  MembersInv'
<1>1. CASE BeginChange(t)
  <2>1. PICK u \in User, op \in {"demote", "promote", "remove"} :
           role[u] # "none" /\ Begin(t, op, u, None, "member")
    BY <1>1 DEF BeginChange
  <2> QED BY <2>1, BeginKeeps DEF Ops
<1>2. CASE ReadMember(t)
  <2> DEFINE u == tx[t].user
             at == IF \/ tx[t].op = "promote" /\ role[u] = "admin"
                      \/ tx[t].op = "demote" /\ role[u] = "member"
                   THEN "idle"
                   ELSE IF tx[t].op # "promote" /\ SignInAdmin(u) THEN "others" ELSE "write"
  <2>1. tx[t].op \in {"demote", "promote", "remove"} /\ Open(t) /\ Read(t, at)
    BY <1>2 DEF ReadMember, Open
  <2>2. at \in {"idle", "others", "write"}
    OBVIOUS
  <2>3. at = "write" => ~(tx[t].op \in {"demote", "remove"} /\ SignInAdmin(u))
    OBVIOUS
  <2>4. at = "write" /\ tx[t].op = "unlink" => \E w \in ways[u] : w # tx[t].way
    BY <2>1
  <2> HIDE DEF at
  <2> QED BY <2>1, <2>2, <2>3, <2>4, ReadKeeps
<1>3. CASE ReadOthers(t)
  <2> DEFINE at == IF \E v \in User \ {tx[t].user} : SignInAdmin(v) THEN "write" ELSE "idle"
  <2>1. tx[t].op \in {"demote", "remove"} /\ Open(t) /\ Read(t, at)
    BY <1>3 DEF ReadOthers, Open
  <2>2. at \in {"idle", "others", "write"}
    OBVIOUS
  <2>3. at = "write" => \E v \in User \ {tx[t].user} : SignInAdmin(v)
    OBVIOUS
  <2> HIDE DEF at
  <2> QED BY <2>1, <2>2, <2>3, ReadKeeps
<1> QED BY <1>1, <1>2, <1>3, CommitRoleKeeps, CommitRemoveKeeps DEF Change

LEMMA SetupKeeps ==
  ASSUME MembersInv, NEW t \in Tx, Setup(t)
  PROVE  MembersInv'
<1>1. CASE BeginSetup(t)
  BY <1>1, BeginKeeps DEF BeginSetup, Ops
<1>2. CASE ReadAdmins(t)
  <2> DEFINE at == IF \E v \in User : SignInAdmin(v) THEN "idle" ELSE "write"
  <2>1. tx[t].op = "setup" /\ Open(t) /\ Read(t, at)
    BY <1>2 DEF ReadAdmins, At, Open
  <2>2. at \in {"idle", "others", "write"}
    OBVIOUS
  <2> HIDE DEF at
  <2> QED BY <2>1, <2>2, ReadKeeps
<1> QED BY <1>1, <1>2, CommitSetupKeeps DEF Setup

LEMMA LinkKeeps ==
  ASSUME MembersInv, NEW t \in Tx, Link(t)
  PROVE  MembersInv'
<1>1. CASE BeginLink(t)
  <2>1. PICK u \in User, w \in Ways : role[u] # "none" /\ Begin(t, "link", u, w, "write")
    BY <1>1 DEF BeginLink
  <2> QED BY <2>1, BeginKeeps DEF Ops
<1> QED BY <1>1, CommitLinkKeeps DEF Link

LEMMA RollbackKeeps ==
  ASSUME MembersInv, NEW t \in Tx, Rollback(t)
  PROVE  MembersInv'
BY ReadKeeps DEF Rollback

LEMMA UnlinkKeeps ==
  ASSUME MembersInv, NEW t \in Tx, Unlink(t)
  PROVE  MembersInv'
<1>1. CASE BeginUnlink(t)
  <2>1. PICK u \in User, w \in Provider : Begin(t, "unlink", u, w, "others")
    BY <1>1 DEF BeginUnlink
  <2> QED BY <2>1, BeginKeeps DEF Ops, Ways
<1>2. CASE ReadWays(t)
  <2> DEFINE at == IF tx[t].way \in ways[tx[t].user] /\ ways[tx[t].user] # {tx[t].way}
                   THEN "write" ELSE "idle"
  <2>1. tx[t].op = "unlink" /\ Open(t) /\ Read(t, at)
    BY <1>2 DEF ReadWays, At, Open
  <2>2. at \in {"idle", "others", "write"}
    OBVIOUS
  <2>3. at = "write" => \E w \in ways[tx[t].user] : w # tx[t].way
    BY <2>1 DEF MembersInv, TypeOK, Named
  <2> HIDE DEF at
  <2> QED BY <2>1, <2>2, <2>3, ReadKeeps
<1> QED BY <1>1, <1>2, CommitUnlinkKeeps DEF Unlink

LEMMA MembersStep == MembersInv /\ [Next]_vars => MembersInv'
<1> SUFFICES ASSUME MembersInv, [Next]_vars PROVE MembersInv'
  OBVIOUS
<1>1. CASE UNCHANGED vars
  BY <1>1 DEF vars, MembersInv, TypeOK, Absent, OneHolder, Named, OtherWay, OtherAdmin, Open,
              Writing, SignInAdmin, CanSignIn
<1>2. CASE Next
  BY <1>2, ChangeKeeps, SetupKeeps, UnlinkKeeps, RestoreKeeps, JoinKeeps, LinkKeeps,
     RollbackKeeps DEF Next
<1> QED BY <1>1, <1>2

\* Every reachable state satisfies the inductive invariant.
LEMMA MembersHold == Spec => []MembersInv
BY MembersInit, MembersStep, PTL DEF Spec

\* Every variable keeps its type, however many members and transactions there
\* are.
THEOREM MembersTypes == Spec => []TypeOK
<1>1. MembersInv => TypeOK
  BY DEF MembersInv
<1> QED BY MembersHold, <1>1, PTL

\* The steps that only add keep whoever can sign in.
LEMMA AdditionStays ==
  ASSUME MembersInv, NEW u \in User, Restore(u) \/ Join(u)
  PROVE  /\ \A v \in User : ways[v] # {} => ways'[v] # {}
         /\ \A v \in User : SignInAdmin(v) => SignInAdmin(v)'
<1> USE DEF MembersInv
<1>1. CASE Restore(u)
  BY <1>1 DEF Restore, SignInAdmin, CanSignIn
<1>2. CASE Join(u)
  BY <1>2 DEF Join, NewMember, SignInAdmin, CanSignIn, TypeOK, Absent
<1> QED BY <1>1, <1>2

LEMMA LinkStays ==
  ASSUME MembersInv, NEW t \in Tx, Link(t) \/ Rollback(t)
  PROVE  /\ \A v \in User : ways[v] # {} => ways'[v] # {}
         /\ \A v \in User : SignInAdmin(v) => SignInAdmin(v)'
<1>1. CASE BeginLink(t) \/ Rollback(t)
  <2>1. UNCHANGED <<role, removed, ways>>
    BY <1>1 DEF BeginLink, Begin, Rollback, Read
  <2> QED BY <2>1 DEF SignInAdmin, CanSignIn
<1> QED BY <1>1, CommitLinkKeeps DEF Link

\* No step takes the last way away (unlinkIdentity).
LEMMA WaysStep ==
    MembersInv /\ [Next]_vars => [\A u \in User : ways[u] # {} => ways'[u] # {}]_vars
<1> SUFFICES ASSUME MembersInv, Next, NEW u \in User, ways[u] # {}
             PROVE  ways'[u] # {}
  OBVIOUS
<1>1. CASE \E t \in Tx : Change(t)
  BY <1>1 DEF Change, BeginChange, Begin, ReadMember, ReadOthers, Read, CommitRole,
              CommitRemove
<1>2. CASE \E t \in Tx : Setup(t)
  BY <1>2 DEF Setup, BeginSetup, Begin, ReadAdmins, Read, CommitSetup, NewMember, MembersInv,
              TypeOK
<1>3. CASE \E t \in Tx : Unlink(t)
  BY <1>3, CommitUnlinkKeeps DEF Unlink, BeginUnlink, Begin, ReadWays, Read
<1>4. CASE \E v \in User : Restore(v) \/ Join(v)
  BY <1>4, AdditionStays
<1>5. CASE \E t \in Tx : Link(t) \/ Rollback(t)
  BY <1>5, LinkStays
<1> QED BY <1>1, <1>2, <1>3, <1>4, <1>5 DEF Next

\* A member who has a way to sign in keeps one, though any number of requests take
\* others away at once (unlinkIdentity).
THEOREM WaysStay == Spec => WayInStays
BY MembersHold, WaysStep, PTL DEF Spec, WayInStays

\* No step takes the last admin who can sign in but the end of an overtaken transaction.
LEMMA AdminsStep ==
    MembersInv /\ [Next]_vars =>
        [(\E u \in User : SignInAdmin(u)) /\ ~ (\E t \in Tx : EndsOvertaken(t)) =>
             \E u \in User : SignInAdmin(u)']_vars
<1> SUFFICES ASSUME MembersInv, Next, ~ (\E t \in Tx : EndsOvertaken(t)), NEW u \in User,
                    SignInAdmin(u)
             PROVE  \E v \in User : SignInAdmin(v)'
  OBVIOUS
<1>1. ASSUME NEW t \in Tx, Change(t)
      PROVE  \E v \in User : SignInAdmin(v)'
  <2>1. CASE BeginChange(t) \/ ReadMember(t) \/ ReadOthers(t)
    <3>1. UNCHANGED <<role, removed, ways>>
      BY <2>1 DEF BeginChange, Begin, ReadMember, ReadOthers, Read
    <3> QED BY <3>1 DEF SignInAdmin, CanSignIn
  <2>2. CASE CommitRole(t) /\ tx[t].op = "promote"
    BY <2>2 DEF CommitRole, SignInAdmin, CanSignIn, MembersInv, TypeOK
  <2>3. CASE (CommitRole(t) /\ tx[t].op = "demote") \/ CommitRemove(t)
    <3>0. t \notin overtaken
      BY <2>3, Move DEF CommitRole, CommitRemove, At, Open, MembersInv, EndsOvertaken
    <3>1. PICK v \in User \ {tx[t].user} : SignInAdmin(v)
      BY <2>3, <3>0 DEF CommitRole, CommitRemove, At, MembersInv, OtherAdmin, Writing
    <3>2. SignInAdmin(v)'
      BY <2>3, <3>1 DEF CommitRole, CommitRemove, SignInAdmin, CanSignIn, MembersInv, TypeOK
    <3> QED BY <3>1, <3>2
  <2> QED BY <1>1, <2>1, <2>2, <2>3 DEF Change, CommitRole
<1>2. ASSUME NEW t \in Tx, Setup(t)
      PROVE  SignInAdmin(u)'
  BY <1>2 DEF Setup, BeginSetup, Begin, ReadAdmins, Read, CommitSetup, NewMember,
              SignInAdmin, CanSignIn, MembersInv, TypeOK
<1>3. ASSUME NEW t \in Tx, Unlink(t)
      PROVE  SignInAdmin(u)'
  <2>1. UNCHANGED <<role, removed>> /\ ways'[u] # {}
    BY <1>3, CommitUnlinkKeeps
       DEF Unlink, BeginUnlink, Begin, ReadWays, Read, CommitUnlink, SignInAdmin, CanSignIn
  <2> QED BY <2>1 DEF SignInAdmin, CanSignIn
<1>4. ASSUME NEW v \in User, Restore(v) \/ Join(v)
      PROVE  SignInAdmin(u)'
  BY <1>4, AdditionStays
<1>5. ASSUME NEW t \in Tx, Link(t) \/ Rollback(t)
      PROVE  SignInAdmin(u)'
  BY <1>5, LinkStays
<1> QED BY <1>1, <1>2, <1>3, <1>4, <1>5 DEF Next

\* Once an admin can sign in one always can, for any number of members and of
\* requests that demote, remove, link, unlink and set up at once (lockAdmins), but for
\* what the end of a transaction does that a restore or a first password has overtaken.
THEOREM AdminsStay == Spec => AdminStays
BY MembersHold, AdminsStep, PTL DEF Spec, AdminStays

----------------------------------------------------------------------------
(***************************************************************************)
(* Members, of this part.                                                  *)
(***************************************************************************)
MembersPart == part = "members" => MembersInv

LEMMA MembersPartInit == AllInit => MembersPart
BY MembersInit DEF AllInit, MembersPart

LEMMA MembersPartStep == ASSUME MembersPart, [AllNext]_allVars PROVE MembersPart'
<1>1. UNCHANGED allVars => UNCHANGED vars
    BY DEF allVars
<1> QED BY <1>1, MembersStep DEF AllNext, MembersPart, allVars

----------------------------------------------------------------------------
(***************************************************************************)
(* SignIn.                                                                 *)
(***************************************************************************)
SignInPart == part = "signIn" => B!SignInInv

LEMMA SignInInit == AllInit => SignInPart
<1>1. S!Init => B!S!Init
    BY DEF
     S!Init, S!Idle, B!S!Init, B!S!Idle
<1> QED
    BY <1>1, PartsAssumption, B!SignInInit DEF AllInit, SignInPart, S!SignInAssumption, B!S!SignInAssumption

LEMMA SignInStep == ASSUME SignInPart, [AllNext]_allVars PROVE SignInPart'
<1>1. S!Next => B!S!Next
    BY DEF
     S!Next, S!SignOut, S!linkVars, S!countVars, S!RevokeInvite, S!Unlocked, S!sessionVars,
     S!Restore, S!RequestStep, S!Verify, S!Idle, S!StartSession, S!NewSession, S!Ending,
     S!Over, S!ChangeVerify, S!ChangeSet, S!To, S!ChangeOthers, S!ResetClaim, S!Claim,
     S!ResetEnd, S!ResetCommit, S!Join, S!JoinCommit, S!Remove, S!RemoveEnd,
     S!RemoveCommit, S!Fail, B!S!Fail, B!S!Next, B!S!SignOut, B!S!linkVars, B!S!countVars, B!S!RevokeInvite,
     B!S!Unlocked, B!S!sessionVars, B!S!Restore, B!S!RequestStep, B!S!Verify, B!S!Idle,
     B!S!StartSession, B!S!NewSession, B!S!Ending, B!S!Over, B!S!ChangeVerify,
     B!S!ChangeSet, B!S!To, B!S!ChangeOthers, B!S!ResetClaim, B!S!Claim, B!S!ResetEnd,
     B!S!ResetCommit, B!S!Join, B!S!JoinCommit, B!S!Remove, B!S!RemoveEnd, B!S!RemoveCommit
<1>2. UNCHANGED allVars => UNCHANGED B!S!vars
    BY DEF
     allVars, Rest0, Rest7, Rest9, Rest11, Rest12, Rest14, Rest15, Rest16, Rest17,
     B!S!vars, B!S!sessionVars, B!S!linkVars, B!S!countVars
<1> QED
    BY <1>1, <1>2, PartsAssumption, B!SignInStep DEF AllNext, SignInPart, S!SignInAssumption, B!S!SignInAssumption, allVars

----------------------------------------------------------------------------
(***************************************************************************)
(* Share.                                                                  *)
(***************************************************************************)
SharePart == part = "share" => B!ShareInv

LEMMA ShareInit == AllInit => SharePart
<1>1. K!Init => B!K!Init
    BY DEF
     K!Init, K!Zero, B!K!Init, B!K!Zero
<1> QED
    BY <1>1, PartsAssumption, B!ShareInit DEF AllInit, SharePart, K!ShareAssumption, B!K!ShareAssumption

LEMMA ShareStep == ASSUME SharePart, [AllNext]_allVars PROVE SharePart'
<1>1. K!Next => B!K!Next
    BY DEF
     K!Next, K!Tick, K!requestVars, K!Arrive, K!Least, K!Greatest, K!TierCap, K!Look,
     K!ShareExpiry, K!Up, K!Down, K!Pending, K!MintEnds, K!Ends, K!MintFails, B!K!Next,
     B!K!Tick, B!K!requestVars, B!K!Arrive, B!K!Least, B!K!Greatest, B!K!TierCap, B!K!Look,
     B!K!ShareExpiry, B!K!Up, B!K!Down, B!K!Pending, B!K!MintEnds, B!K!Ends, B!K!MintFails
<1>2. UNCHANGED allVars => UNCHANGED B!K!vars
    BY DEF
     allVars, Rest0, Rest7, Rest9, Rest11, Rest12, Rest14, Rest15, Rest16, Rest17,
     B!K!vars, B!K!requestVars
<1> QED
    BY <1>1, <1>2, PartsAssumption, B!ShareStep DEF AllNext, SharePart, K!ShareAssumption, B!K!ShareAssumption, allVars

----------------------------------------------------------------------------
(***************************************************************************)
(* Storage.                                                                *)
(***************************************************************************)
StoragePart == part = "storage" => (P!TypeInv /\ P!StorageInv /\ P!AccountInv)

LEMMA StorageInit == AllInit => StoragePart
<1>1. D!Init => P!Init
    BY DEF
     D!Init, D!Object, D!Runs, D!Actor, P!Init, P!Object, P!Runs, P!Actor
<1> QED
    BY <1>1, PartsAssumption, P!InitTypes, P!StorageInit, P!AccountInit DEF AllInit, StoragePart, P!TypeInv

LEMMA StorageStep == ASSUME StoragePart, [AllNext]_allVars PROVE StoragePart'
<1>1. D!Next => P!Next
    BY DEF
     D!Next, D!UploadStep, D!Runs, D!StartUpload, D!dbVars, D!siaVars, D!releaseVars,
     D!UploadProgress, D!Checkpoint, D!queueVars, D!Stop, D!GiveBack, D!Begin, D!Continue,
     D!Record, D!Uploaded, D!Pin, D!LastBatch, D!UploadFails, D!FailBatch, D!PinFails,
     D!TryAgain, D!EndStopped, D!End, D!EndFailed, D!Requeue, D!HandOff, D!AddFinalize,
     D!HandOffFails, D!CrashUpload, D!Running, D!Drop, D!Stall, D!RunStep, D!SkipUpload,
     D!execVars, D!GiveUp, D!Quiet, D!FailAsset, D!Finalize, D!MakeReady, D!RowsAfter,
     D!Object, D!LeaveAsset, D!AlreadyReady, D!GiveUpFinalize, D!RetryAsset, D!EndFinalize,
     D!CrashFinalize, D!SoftDelete, D!CollectObjects, D!Loop, D!EndDeletion,
     D!CrashDeletion, D!MarkAbandoned, D!MarkRows, D!Abandoned, D!CrashSweep, D!Actor,
     D!ReleaseStep, D!Mark, D!List, D!Releasable, D!ReleaseFails, D!Forget, D!ForgetFails,
     D!Unpin, D!AboutToPin, D!UnpinFails, P!Next, P!UploadStep, P!Runs, P!StartUpload,
     P!dbVars, P!siaVars, P!releaseVars, P!UploadProgress, P!Checkpoint, P!queueVars,
     P!Stop, P!GiveBack, P!Begin, P!Continue, P!Record, P!Uploaded, P!Pin, P!LastBatch,
     P!UploadFails, P!FailBatch, P!PinFails, P!TryAgain, P!EndStopped, P!End, P!EndFailed,
     P!Requeue, P!HandOff, P!AddFinalize, P!HandOffFails, P!CrashUpload, P!Running, P!Drop,
     P!Stall, P!RunStep, P!SkipUpload, P!execVars, P!GiveUp, P!Quiet, P!FailAsset,
     P!Finalize, P!MakeReady, P!RowsAfter, P!Object, P!LeaveAsset, P!AlreadyReady,
     P!GiveUpFinalize, P!RetryAsset, P!EndFinalize, P!CrashFinalize, P!SoftDelete,
     P!CollectObjects, P!Loop, P!EndDeletion, P!CrashDeletion, P!MarkAbandoned, P!MarkRows,
     P!Abandoned, P!CrashSweep, P!Actor, P!ReleaseStep, P!Mark, P!List, P!Releasable,
     P!ReleaseFails, P!Forget, P!ForgetFails, P!Unpin, P!AboutToPin, P!UnpinFails
<1>2. UNCHANGED allVars => UNCHANGED P!vars
    BY DEF
     allVars, Rest0, Rest7, Rest9, Rest11, Rest12, Rest14, Rest15, Rest16, Rest17,
     P!vars, P!dbVars, P!siaVars, P!queueVars, P!execVars, P!releaseVars
<1> QED
    BY <1>1, <1>2, PartsAssumption, P!TypeStep, P!StorageStep, P!AccountStep DEF AllNext, StoragePart, P!TypeInv, allVars

----------------------------------------------------------------------------
(***************************************************************************)
(* Loader.                                                                 *)
(***************************************************************************)
LoaderPart == part = "loader" => Z!LoaderInv

LEMMA LoaderInit == AllInit => LoaderPart
<1>1. H!Init => Z!H!Init
    BY DEF
     H!Init, Z!H!Init
<1> QED
    BY <1>1, PartsAssumption, Z!LoaderInit DEF AllInit, LoaderPart, H!LoaderAssumption, Z!H!LoaderAssumption

LEMMA LoaderStep == ASSUME LoaderPart, [AllNext]_allVars PROVE LoaderPart'
<1>1. H!Next => Z!H!Next
    BY DEF
     H!Next, H!Prepared, H!Waiting, H!PrepareFails, H!PauseEnds, H!WarmUpEnds,
     H!NoteFailure, H!Load, H!StartWarmUp, H!SiaReady, H!Ends, H!GatewayAnswers, H!Answer,
     H!CutOff, H!FallBack, H!Resolves, H!StreamEnds, H!ReadFails, H!Abort, H!Loading,
     H!Cancel, H!Destroy, Z!H!Next, Z!H!Prepared, Z!H!Waiting, Z!H!PrepareFails,
     Z!H!PauseEnds, Z!H!WarmUpEnds, Z!H!NoteFailure, Z!H!Load, Z!H!StartWarmUp,
     Z!H!SiaReady, Z!H!Ends, Z!H!GatewayAnswers, Z!H!Answer, Z!H!CutOff, Z!H!FallBack,
     Z!H!Resolves, Z!H!StreamEnds, Z!H!ReadFails, Z!H!Abort, Z!H!Loading, Z!H!Cancel,
     Z!H!Destroy
<1>2. UNCHANGED allVars => UNCHANGED Z!H!vars
    BY DEF
     allVars, Rest0, Rest7, Rest9, Rest11, Rest12, Rest14, Rest15, Rest16, Rest17,
     Z!H!vars
<1> QED
    BY <1>1, <1>2, PartsAssumption, Z!LoaderStep DEF AllNext, LoaderPart, H!LoaderAssumption, Z!H!LoaderAssumption, allVars

----------------------------------------------------------------------------
(***************************************************************************)
(* Viewer.                                                                 *)
(***************************************************************************)
ViewerPart == part = "viewer" => Z!SessionInv

LEMMA ViewerInit == AllInit => ViewerPart
<1>1. N!Init => Z!N!Init
    BY DEF
     N!Init, Z!N!Init
<1> QED
    BY <1>1, PartsAssumption, Z!SessionInit DEF AllInit, ViewerPart, N!SessionAssumption, Z!N!SessionAssumption

LEMMA ViewerStep == ASSUME ViewerPart, [AllNext]_allVars PROVE ViewerPart'
<1>1. N!Next => Z!N!Next
    BY DEF
     N!Next, N!ConnectOnly, N!Connect, N!connVars, N!mapVars, N!resolveVars, N!Connected,
     N!ConnectFails, N!Reuse, N!Entries, N!Without, N!Start, N!FreeWhenResolved, N!HasSdk,
     N!LoadShareMap, N!Usable, N!Goes, N!Ask, N!Fails, N!Share, N!AskAgain, N!Refused,
     N!CallEnds, N!Resolved, N!LoadMapOnly, N!Fetched, N!MapAges, N!Dispose, Z!N!Next,
     Z!N!ConnectOnly, Z!N!Connect, Z!N!connVars, Z!N!mapVars, Z!N!resolveVars,
     Z!N!Connected, Z!N!ConnectFails, Z!N!Reuse, Z!N!Entries, Z!N!Without, Z!N!Start,
     Z!N!FreeWhenResolved, Z!N!HasSdk, Z!N!LoadShareMap, Z!N!Usable, Z!N!Goes, Z!N!Ask,
     Z!N!Fails, Z!N!Share, Z!N!AskAgain, Z!N!Refused, Z!N!CallEnds, Z!N!Resolved,
     Z!N!LoadMapOnly, Z!N!Fetched, Z!N!MapAges, Z!N!Dispose
<1>2. UNCHANGED allVars => UNCHANGED Z!N!vars
    BY DEF
     allVars, Rest0, Rest7, Rest9, Rest11, Rest12, Rest14, Rest15, Rest16, Rest17,
     Z!N!vars, Z!N!connVars, Z!N!mapVars, Z!N!resolveVars
<1> QED
    BY <1>1, <1>2, PartsAssumption, Z!SessionStep DEF AllNext, ViewerPart, N!SessionAssumption, Z!N!SessionAssumption, allVars

----------------------------------------------------------------------------
(***************************************************************************)
(* Shutdown.                                                               *)
(***************************************************************************)
ShutdownPart == part = "shutdown" => B!ShutdownInv

LEMMA ShutdownInit == AllInit => ShutdownPart
<1>1. X!Init => B!X!Init
    BY DEF
     X!Init, B!X!Init
<1> QED
    BY <1>1, PartsAssumption, B!ShutdownInit DEF AllInit, ShutdownPart, B!ShutdownInv

LEMMA ShutdownStep == ASSUME ShutdownPart, [AllNext]_allVars PROVE ShutdownPart'
<1>1. X!Next => B!X!Next
    BY DEF
     X!Next, X!Arrive, X!Running, X!plays, X!Count, X!work, X!Answer, X!GoAway, X!TakeJob,
     X!EndJob, X!Flush, X!Swap, X!Written, X!Begin, X!HttpCloses, X!WorkersClose,
     X!Drained, X!QueuesClose, X!StopCounter, X!CounterStopped, X!DatabaseCloses, X!GiveUp,
     B!X!Next, B!X!Arrive, B!X!Running, B!X!plays, B!X!Count, B!X!work, B!X!Answer,
     B!X!GoAway, B!X!TakeJob, B!X!EndJob, B!X!Flush, B!X!Swap, B!X!Written, B!X!Begin,
     B!X!HttpCloses, B!X!WorkersClose, B!X!Drained, B!X!QueuesClose, B!X!StopCounter,
     B!X!CounterStopped, B!X!DatabaseCloses, B!X!GiveUp
<1>2. UNCHANGED allVars => UNCHANGED B!X!vars
    BY DEF
     allVars, Rest0, Rest7, Rest9, Rest11, Rest12, Rest14, Rest15, Rest16, Rest17,
     B!X!vars, B!X!work, B!X!plays
<1> QED
    BY <1>1, <1>2, PartsAssumption, B!ShutdownStep DEF AllNext, ShutdownPart, B!ShutdownInv, allVars

----------------------------------------------------------------------------
(***************************************************************************)
(* Cache.                                                                  *)
(***************************************************************************)
CachePart == part = "cache" => B!CacheInv

LEMMA CacheInit == AllInit => CachePart
<1>1. A!Init => B!A!Init
    BY DEF
     A!Init, A!Nothing, A!Missing, B!A!Init, B!A!Nothing, B!A!Missing
<1> QED
    BY <1>1, PartsAssumption, B!CacheInit DEF AllInit, CachePart, A!CacheAssumption, B!A!CacheAssumption

LEMMA CacheStep == ASSUME CachePart, [AllNext]_allVars PROVE CachePart'
<1>1. A!Next => B!A!Next
    BY DEF
     A!Next, A!Ask, A!Go, A!KnownOwners, A!KnownState, A!Missing, A!Read, A!Claimed, A!Row,
     A!Store, A!TtlOf, A!Decide, A!Forget, A!Nothing, A!Leave, A!Claim, A!ChangeHere,
     A!Change, A!NewVersion, A!DropState, A!Drop, A!DropOwners, A!ChangeElsewhere,
     A!EvictState, A!Tick, B!A!Next, B!A!Ask, B!A!Go, B!A!KnownOwners, B!A!KnownState,
     B!A!Missing, B!A!Read, B!A!Claimed, B!A!Row, B!A!Store, B!A!TtlOf, B!A!Decide,
     B!A!Forget, B!A!Nothing, B!A!Leave, B!A!Claim, B!A!ChangeHere, B!A!Change,
     B!A!NewVersion, B!A!DropState, B!A!Drop, B!A!DropOwners, B!A!ChangeElsewhere,
     B!A!EvictState, B!A!Tick
<1>2. UNCHANGED allVars => UNCHANGED B!A!vars
    BY DEF
     allVars, Rest0, Rest7, Rest9, Rest11, Rest12, Rest14, Rest15, Rest16, Rest17,
     B!A!vars
<1> QED
    BY <1>1, <1>2, PartsAssumption, B!CacheStep DEF AllNext, CachePart, A!CacheAssumption, B!A!CacheAssumption, allVars

\* Both instances count alike.
LEMMA WebhookCounts == \A T : W!Cardinality(T) = B!W!Cardinality(T)
BY DEF W!Cardinality, B!W!Cardinality

----------------------------------------------------------------------------
(***************************************************************************)
(* Webhook.                                                                *)
(***************************************************************************)
WebhookPart == part = "webhook" => B!WebhookInv

LEMMA WebhookInit == AllInit => WebhookPart
<1>1. W!Init => B!W!Init
    BY DEF
     W!Init, W!Idle, B!W!Init, B!W!Idle
<1> QED
    BY <1>1, PartsAssumption, B!WebhookInit DEF AllInit, WebhookPart, W!WebhookAssumption, B!W!WebhookAssumption

LEMMA WebhookStep == ASSUME WebhookPart, [AllNext]_allVars PROVE WebhookPart'
<1>1. W!Next => B!W!Next
    BY WebhookCounts DEF
     W!Next, W!SetActive, W!queueVars, W!historyVars, W!RotateSecret, W!DeleteEndpoint,
     W!FindEndpoints, W!endpointVars, W!AddBulk, W!Add, W!NoFault, W!Fault, W!ResendRead,
     W!ResendAdd, W!ExecutionStep, W!ReadEndpoint, W!Goes, W!Idle, W!SettleJob, W!Post,
     W!Record, W!Settle, W!Take, W!Stall, W!Restart, W!Retried, B!W!Retried, B!W!Next, B!W!SetActive,
     B!W!queueVars, B!W!historyVars, B!W!RotateSecret, B!W!DeleteEndpoint,
     B!W!FindEndpoints, B!W!endpointVars, B!W!AddBulk, B!W!Add, B!W!NoFault, B!W!Fault,
     B!W!ResendRead, B!W!ResendAdd, B!W!ExecutionStep, B!W!ReadEndpoint, B!W!Goes,
     B!W!Idle, B!W!SettleJob, B!W!Post, B!W!Record, B!W!Settle, B!W!Take, B!W!Stall,
     B!W!Restart
<1>2. UNCHANGED allVars => UNCHANGED B!W!vars
    BY DEF
     allVars, Rest0, Rest7, Rest9, Rest11, Rest12, Rest14, Rest15, Rest16, Rest17,
     B!W!vars, B!W!endpointVars, B!W!queueVars, B!W!historyVars
<1> QED
    BY <1>1, <1>2, PartsAssumption, B!WebhookStep DEF AllNext, WebhookPart, W!WebhookAssumption, B!W!WebhookAssumption, allVars

----------------------------------------------------------------------------
(***************************************************************************)
(* Reconcile.                                                              *)
(***************************************************************************)
ReconcilePart == part = "reconcile" => B!ReconcileInv

LEMMA ReconcileInit == AllInit => ReconcilePart
<1>1. R!Init => B!R!Init
    BY DEF
     R!Init, R!NoCopy, R!Nothing, B!R!Init, B!R!NoCopy, B!R!Nothing
<1> QED
    BY <1>1, PartsAssumption, B!ReconcileInit DEF AllInit, ReconcilePart, R!ReconcileAssumption, B!R!ReconcileAssumption

LEMMA ReconcileStep == ASSUME ReconcilePart, [AllNext]_allVars PROVE ReconcilePart'
<1>1. R!Next => B!R!Next
    BY DEF
     R!Next, R!Begin, R!Running, R!Nothing, R!objectVars, R!Drifting, R!Orphaned,
     R!Settled, R!Missing, R!ObjectStep, R!Record, R!Row, R!Pin, R!Stamp, R!Finalize,
     R!Mark, R!Unpin, R!Forget, R!Lose, R!readVars, R!Tick, R!ReadDatabase, R!Goes,
     R!ReadPending, R!ReadTracked, R!SyncIndexer, R!RecordRun, R!DiffInventory, R!Recent,
     R!RunFails, R!Watch, B!R!Next, B!R!Begin, B!R!Running, B!R!Nothing, B!R!objectVars,
     B!R!Drifting, B!R!Orphaned, B!R!Settled, B!R!Missing, B!R!ObjectStep, B!R!Record,
     B!R!Row, B!R!Pin, B!R!Stamp, B!R!Finalize, B!R!Mark, B!R!Unpin, B!R!Forget, B!R!Lose,
     B!R!readVars, B!R!Tick, B!R!ReadDatabase, B!R!Goes, B!R!ReadPending, B!R!ReadTracked,
     B!R!SyncIndexer, B!R!RecordRun, B!R!DiffInventory, B!R!Recent, B!R!RunFails, B!R!Watch
<1>2. UNCHANGED allVars => UNCHANGED B!R!vars
    BY DEF
     allVars, Rest0, Rest7, Rest9, Rest11, Rest12, Rest14, Rest15, Rest16, Rest17,
     B!R!vars, B!R!objectVars, B!R!readVars
<1> QED
    BY <1>1, <1>2, PartsAssumption, B!ReconcileStep DEF AllNext, ReconcilePart, R!ReconcileAssumption, B!R!ReconcileAssumption, allVars

----------------------------------------------------------------------------
(***************************************************************************)
(* Studio.                                                                 *)
(***************************************************************************)
StudioPart == part = "studio" => Z!StudioInv /\ Z!U!QueueIsServed

LEMMA StudioInit == AllInit => StudioPart
<1>1. C!Init => Z!U!Init
    BY DEF
     C!Init, C!NoCard, C!NoTask, Z!U!Init, Z!U!NoCard, Z!U!NoTask
<1> QED
    BY <1>1, Z!StudioInit DEF AllInit, StudioPart

\* Both instances compute alike.
LEMMA StudioOps ==
    /\ \A s, u : C!Begin(s, u) = Z!U!Begin(s, u)
    /\ \A s : C!Emit(s) = Z!U!Emit(s)
    /\ \A s, u : C!EmitAsset(s, u) = Z!U!EmitAsset(s, u)
    /\ \A s, u : C!Resumed(s, u) = Z!U!Resumed(s, u)
    /\ \A s, gone : C!Without(s, gone) = Z!U!Without(s, gone)
    /\ \A c : C!SignOut(c) = Z!U!SignOut(c)
    /\ \A t : C!Over(t) = Z!U!Over(t)
    /\ \A s, resumable : C!Holds(s, resumable) = Z!U!Holds(s, resumable)
    /\ \A u, c, t : C!ShowTask(u, c, t) = Z!U!ShowTask(u, c, t)
<1>1. \A s, u : C!Begin(s, u) = Z!U!Begin(s, u)
    BY DEF
     C!Begin, C!FileOf, C!NoCard, C!NoTask, Z!U!Begin, Z!U!FileOf, Z!U!NoCard, Z!U!NoTask
<1>2. \A s : C!Emit(s) = Z!U!Emit(s)
    BY <1>1 DEF
     C!Emit, C!CanAdvance, C!Busy, C!Transferring, C!SignedOut, C!Listed, Z!U!Emit,
     Z!U!CanAdvance, Z!U!Busy, Z!U!Transferring, Z!U!SignedOut, Z!U!Listed
<1>3. \A s, u : C!EmitAsset(s, u) = Z!U!EmitAsset(s, u)
    BY <1>2 DEF
     C!EmitAsset, Z!U!EmitAsset
<1>4. \A s, u : C!Resumed(s, u) = Z!U!Resumed(s, u)
    BY DEF
     C!Resumed, C!CanResume, C!Busy, C!Transferring, Z!U!Resumed, Z!U!CanResume, Z!U!Busy,
     Z!U!Transferring
<1>5. \A s, gone : C!Without(s, gone) = Z!U!Without(s, gone)
    BY DEF
     C!Without, Z!U!Without
<1>6. \A c : C!SignOut(c) = Z!U!SignOut(c)
    BY DEF
     C!SignOut, Z!U!SignOut
<1>7. \A t : C!Over(t) = Z!U!Over(t)
    BY DEF
     C!Over, C!Free, Z!U!Over, Z!U!Free
<1>8. \A s, resumable : C!Holds(s, resumable) = Z!U!Holds(s, resumable)
    BY DEF
     C!Holds, Z!U!Holds
<1>9. \A u, c, t : C!ShowTask(u, c, t) = Z!U!ShowTask(u, c, t)
    BY DEF
     C!ShowTask, C!Store, Z!U!ShowTask, Z!U!Store
<1> QED BY <1>1, <1>2, <1>3, <1>4, <1>5, <1>6, <1>7, <1>8, <1>9

LEMMA StudioActions == C!Next => Z!U!Next
<1>1. \A u : C!Enqueue(u) => Z!U!Enqueue(u)
    BY StudioOps DEF
     C!Enqueue, C!Quiet, C!Busy, C!Transferring, C!Store, C!Put, C!Show, C!NoCard,
     Z!U!Enqueue, Z!U!Quiet, Z!U!Busy, Z!U!Transferring, Z!U!Store, Z!U!Put, Z!U!Show,
     Z!U!NoCard
<1>2. \A u : C!RemoveQueued(u) => Z!U!RemoveQueued(u)
    BY StudioOps DEF
     C!RemoveQueued, C!Quiet, C!Put, C!Show, C!Store, C!NoCard, Z!U!RemoveQueued,
     Z!U!Quiet, Z!U!Put, Z!U!Show, Z!U!Store, Z!U!NoCard
<1>3. \A u : C!Pause(u) => Z!U!Pause(u)
    BY StudioOps DEF
     C!Pause, C!Quiet, C!Put, C!Store, Z!U!Pause, Z!U!Quiet, Z!U!Put, Z!U!Store
<1>4. \A u : C!Resume(u) => Z!U!Resume(u)
    BY StudioOps DEF
     C!Resume, C!Quiet, C!Put, C!Show, C!Store, Z!U!Resume, Z!U!Quiet, Z!U!Put, Z!U!Show,
     Z!U!Store
<1>5. \A u : C!Cancel(u) => Z!U!Cancel(u)
    BY StudioOps DEF
     C!Cancel, C!Quiet, C!Put, C!Show, C!Store, Z!U!Cancel, Z!U!Quiet, Z!U!Put, Z!U!Show,
     Z!U!Store
<1>6. \A u : C!RetryCleanup(u) => Z!U!RetryCleanup(u)
    BY StudioOps DEF
     C!RetryCleanup, C!Quiet, C!Put, Z!U!RetryCleanup, Z!U!Quiet, Z!U!Put
<1>7. \A u : C!ResumeTransfer(u) => Z!U!ResumeTransfer(u)
    BY StudioOps DEF
     C!ResumeTransfer, C!CanResume, C!Store, C!Quiet, C!Put, Z!U!ResumeTransfer,
     Z!U!CanResume, Z!U!Store, Z!U!Quiet, Z!U!Put
<1>8. \A u : C!RetryProcessing(u) => Z!U!RetryProcessing(u)
    BY StudioOps DEF
     C!RetryProcessing, C!Quiet, C!Put, Z!U!RetryProcessing, Z!U!Quiet, Z!U!Put
<1>9. \A u : C!Refresh(u) => Z!U!Refresh(u)
    BY StudioOps DEF
     C!Refresh, C!Quiet, C!Put, C!Show, C!Store, Z!U!Refresh, Z!U!Quiet, Z!U!Put, Z!U!Show,
     Z!U!Store
<1>10. \A u : C!Dismiss(u) => Z!U!Dismiss(u)
    BY StudioOps DEF
     C!Dismiss, C!Listed, C!Transferring, C!Quiet, C!NoCard, C!Put, C!NoTask, Z!U!Dismiss,
     Z!U!Listed, Z!U!Transferring, Z!U!Quiet, Z!U!NoCard, Z!U!Put, Z!U!NoTask
<1>11. \A u : C!Claimed(u) => Z!U!Claimed(u)
    BY StudioOps DEF
     C!Claimed, C!Quiet, C!FileOf, C!Put, C!Store, C!Listed, Z!U!Claimed, Z!U!Quiet,
     Z!U!FileOf, Z!U!Put, Z!U!Store, Z!U!Listed
<1>12. \A u : C!LearnId(u) => Z!U!LearnId(u)
    BY StudioOps DEF
     C!LearnId, C!Quiet, C!Put, C!Show, C!Store, Z!U!LearnId, Z!U!Quiet, Z!U!Put, Z!U!Show,
     Z!U!Store
<1>13. \A u : C!Succeed(u) => Z!U!Succeed(u)
    BY StudioOps DEF
     C!Succeed, C!Quiet, C!Put, Z!U!Succeed, Z!U!Quiet, Z!U!Put
<1>14. \A u : C!Fail(u) => Z!U!Fail(u)
    <2> SUFFICES ASSUME NEW u, C!Fail(u) PROVE Z!U!Fail(u)
        OBVIOUS
    <2>1. ASSUME NEW resumable, NEW lost, NEW signedOut,
                 LET c == [v1[u] EXCEPT !.phase = "failedUpload", !.canResume = resumable,
                                       !.lost = lost]
                 IN  C!Put(C!Emit(
                        [C!ShowTask(u, IF signedOut THEN C!SignOut(c) ELSE c, C!Over(v2[u]))
                            EXCEPT !.held = C!Holds(C!Store, resumable)]))
          PROVE  LET c == [v1[u] EXCEPT !.phase = "failedUpload", !.canResume = resumable,
                                       !.lost = lost]
                 IN  Z!U!Put(Z!U!Emit(
                        [Z!U!ShowTask(u, IF signedOut THEN Z!U!SignOut(c) ELSE c, Z!U!Over(v2[u]))
                            EXCEPT !.held = Z!U!Holds(Z!U!Store, resumable)]))
        BY <2>1, StudioOps DEF C!Put, C!Store, Z!U!Put, Z!U!Store
    <2>2. PICK resumable, lost, signedOut \in BOOLEAN :
              /\ lost => resumable /\ ~v5
              /\ signedOut => ~resumable
              /\ LET c == [v1[u] EXCEPT !.phase = "failedUpload", !.canResume = resumable,
                                       !.lost = lost]
                 IN  C!Put(C!Emit(
                        [C!ShowTask(u, IF signedOut THEN C!SignOut(c) ELSE c, C!Over(v2[u]))
                            EXCEPT !.held = C!Holds(C!Store, resumable)]))
        BY DEF C!Fail
    <2>3. LET c == [v1[u] EXCEPT !.phase = "failedUpload", !.canResume = resumable,
                                       !.lost = lost]
                 IN  Z!U!Put(Z!U!Emit(
                        [Z!U!ShowTask(u, IF signedOut THEN Z!U!SignOut(c) ELSE c, Z!U!Over(v2[u]))
                            EXCEPT !.held = Z!U!Holds(Z!U!Store, resumable)]))
        BY <2>1, <2>2
    <2>4. /\ v2[u].attempt = "live" /\ v1[u].phase \in {"uploading", "paused"}
          /\ Z!U!Quiet
        BY DEF C!Fail, C!Quiet, Z!U!Quiet
    <2> QED BY <2>2, <2>3, <2>4 DEF Z!U!Fail
<1>15. \A u : C!Paused(u) => Z!U!Paused(u)
    BY StudioOps DEF
     C!Paused, C!Quiet, C!Put, C!Store, Z!U!Paused, Z!U!Quiet, Z!U!Put, Z!U!Store
<1>16. \A u : C!CommittedRead(u) => Z!U!CommittedRead(u)
    BY StudioOps DEF
     C!CommittedRead, C!Quiet, C!Put, C!Store, C!Free, Z!U!CommittedRead, Z!U!Quiet,
     Z!U!Put, Z!U!Store, Z!U!Free
<1>17. \A u : C!Transferred(u) => Z!U!Transferred(u)
    BY StudioOps DEF
     C!Transferred, C!Quiet, C!Put, Z!U!Transferred, Z!U!Quiet, Z!U!Put
<1>18. \A u : C!Aborted(u) => Z!U!Aborted(u)
    BY StudioOps DEF
     C!Aborted, C!Quiet, C!Put, Z!U!Aborted, Z!U!Quiet, Z!U!Put
<1>19. \A u : C!CleanupAnswered(u) => Z!U!CleanupAnswered(u)
    BY StudioOps DEF
     C!CleanupAnswered, C!Quiet, C!Put, C!Followed, Z!U!CleanupAnswered, Z!U!Quiet,
     Z!U!Put, Z!U!Followed
<1>20. \A u : C!RetryAnswered(u) => Z!U!RetryAnswered(u)
    BY StudioOps DEF
     C!RetryAnswered, C!Quiet, C!Put, Z!U!RetryAnswered, Z!U!Quiet, Z!U!Put
<1>21. \A u : C!PollEnds(u) => Z!U!PollEnds(u)
    BY StudioOps DEF
     C!PollEnds, C!Quiet, C!Put, C!Show, C!Store, Z!U!PollEnds, Z!U!Quiet, Z!U!Put,
     Z!U!Show, Z!U!Store
<1>22. C!ContinueQueue => Z!U!ContinueQueue
    BY StudioOps DEF
     C!ContinueQueue, C!Quiet, C!Put, C!Store, Z!U!ContinueQueue, Z!U!Quiet, Z!U!Put,
     Z!U!Store
<1>23. C!GoOffline => Z!U!GoOffline
    BY StudioOps DEF
     C!GoOffline, Z!U!GoOffline
<1>24. C!GoOnline => Z!U!GoOnline
    BY StudioOps DEF
     C!GoOnline, C!Cut, C!Busy, C!Transferring, C!Store, C!Put, Z!U!GoOnline, Z!U!Cut,
     Z!U!Busy, Z!U!Transferring, Z!U!Store, Z!U!Put
<1>25. C!LoadLimit => Z!U!LoadLimit
    BY StudioOps DEF
     C!LoadLimit, C!Put, C!Store, Z!U!LoadLimit, Z!U!Put, Z!U!Store
<1>26. C!OtherTab => Z!U!OtherTab
    BY StudioOps DEF
     C!OtherTab, C!File, C!FileOf, Z!U!OtherTab, Z!U!File, Z!U!FileOf
<1> QED
    BY <1>1, <1>2, <1>3, <1>4, <1>5, <1>6, <1>7, <1>8, <1>9, <1>10, <1>11, <1>12, <1>13,
       <1>14, <1>15, <1>16, <1>17, <1>18, <1>19, <1>20, <1>21, <1>22, <1>23, <1>24, <1>25,
       <1>26
    DEF C!Next, Z!U!Next

LEMMA StudioStep == ASSUME StudioPart, [AllNext]_allVars PROVE StudioPart'
<1>1. UNCHANGED allVars => UNCHANGED Z!U!vars
    BY DEF
     allVars, Rest0, Rest7, Rest9, Rest11, Rest12, Rest14, Rest15, Rest16, Rest17,
     Z!U!vars
<1> QED
    BY <1>1, StudioActions, Z!QueueStep DEF AllNext, StudioPart, allVars

----------------------------------------------------------------------------
(***************************************************************************)
(* Feed.                                                                   *)
(***************************************************************************)
FeedPart == part = "feed" => FP!BaseInv

\* Both instances count alike.
LEMMA FeedCounts ==
    /\ \A T : F!Cardinality(T) = FP!Cardinality(T)
    /\ \A T : F!IsFiniteSet(T) = FP!IsFiniteSet(T)
BY DEF F!Cardinality, FP!Cardinality, F!IsFiniteSet, FP!IsFiniteSet

LEMMA FeedAssumed == FP!FeedAssumption
BY PartsAssumption, FeedCounts DEF F!FeedAssumption, FP!FeedAssumption

LEMMA FeedInit == AllInit => FeedPart
<1>1. F!Init => FP!Init
    BY DEF
     F!Init, F!NoEvent, F!Start, FP!Init, FP!NoEvent, FP!Start
<1> QED
    BY <1>1, FeedAssumed, FP!BaseInit DEF AllInit, FeedPart

LEMMA FeedActions == F!Next => FP!Next
<1>1. F!Tick => FP!Tick
    BY FeedCounts DEF
     F!Tick, F!NoEvent, F!Ms, F!dbVars, F!runVars, FP!Tick, FP!NoEvent, FP!Ms, FP!dbVars,
     FP!runVars
<1>2. \A f, o : F!StartChange(f, o) => FP!StartChange(f, o)
    BY FeedCounts DEF
     F!StartChange, F!NoEvent, F!dbVars, F!runVars, FP!StartChange, FP!NoEvent, FP!dbVars,
     FP!runVars
<1>3. \A f, o : F!CommitChange(f, o) => FP!CommitChange(f, o)
    BY FeedCounts DEF
     F!CommitChange, F!NoEvent, F!dbVars, FP!CommitChange, FP!NoEvent, FP!dbVars
<1>4. \A r, f : F!Begin(r, f) => FP!Begin(r, f)
    BY FeedCounts DEF
     F!Begin, F!NoEvent, F!Start, F!Ms, F!indexerVars, FP!Begin, FP!NoEvent, FP!Start,
     FP!Ms, FP!indexerVars
<1>5. \A r : F!Fetch(r) => FP!Fetch(r)
    BY FeedCounts DEF
     F!Fetch, F!PageFrom, F!Ahead, F!NoEvent, F!Past, F!Precedes, F!indexerVars, F!dbVars,
     FP!Fetch, FP!PageFrom, FP!Ahead, FP!NoEvent, FP!Past, FP!Precedes, FP!indexerVars,
     FP!dbVars
<1>6. \A r : F!Apply(r) => FP!Apply(r)
    <2>1. \A r : F!NewHeld(r) = FP!NewHeld(r)
        BY DEF
     F!NewHeld, F!Place, F!Ms, F!IsSettled, F!IsAfter, FP!NewHeld, FP!Place, FP!Ms,
     FP!IsSettled, FP!IsAfter
    <2>2. \A r : F!LastPlace(r) = FP!LastPlace(r)
        BY DEF
     F!LastPlace, F!Place, F!Ms, F!Precedes, FP!LastPlace, FP!Place, FP!Ms, FP!Precedes
    <2>3. \A r, o : F!NewRow(r, o) = FP!NewRow(r, o)
        BY DEF
     F!NewRow, F!Ms, FP!NewRow, FP!Ms
    <2> QED
        BY FeedCounts, <2>1, <2>2, <2>3 DEF
     F!Apply, F!SameFeed, F!IsAfter, F!DropPage, F!NoEvent, F!indexerVars, FP!Apply,
     FP!SameFeed, FP!IsAfter, FP!DropPage, FP!NoEvent, FP!indexerVars
<1>7. \A r : F!ApplyRefused(r) => FP!ApplyRefused(r)
    BY FeedCounts DEF
     F!ApplyRefused, F!SameFeed, F!Leave, F!Start, F!DropPage, F!NoEvent, F!indexerVars,
     F!dbVars, FP!ApplyRefused, FP!SameFeed, FP!Leave, FP!Start, FP!DropPage, FP!NoEvent,
     FP!indexerVars, FP!dbVars
<1>8. \A r : F!Prune(r) => FP!Prune(r)
    BY FeedCounts DEF
     F!Prune, F!Forgotten, F!NoEvent, F!indexerVars, FP!Prune, FP!Forgotten, FP!NoEvent,
     FP!indexerVars
<1>9. \A r : F!EndRun(r) => FP!EndRun(r)
    BY FeedCounts DEF
     F!EndRun, F!Leave, F!Start, F!DropPage, F!NoEvent, F!indexerVars, F!dbVars, FP!EndRun,
     FP!Leave, FP!Start, FP!DropPage, FP!NoEvent, FP!indexerVars, FP!dbVars
<1> QED
    BY <1>1, <1>2, <1>3, <1>4, <1>5, <1>6, <1>7, <1>8, <1>9 DEF F!Next, FP!Next, F!RunStep, FP!RunStep

LEMMA FeedStep == ASSUME FeedPart, [AllNext]_allVars PROVE FeedPart'
<1>1. UNCHANGED allVars => UNCHANGED FP!vars
    BY DEF
     allVars, Rest0, Rest7, Rest9, Rest11, Rest12, Rest14, Rest15, Rest16, Rest17,
     FP!vars, FP!indexerVars, FP!dbVars, FP!runVars
<1> QED
    BY <1>1, FeedActions, FeedAssumed, FP!BaseStep DEF AllNext, FeedPart, allVars

----------------------------------------------------------------------------
(***************************************************************************)
(* Sync.                                                                   *)
(***************************************************************************)
SyncPart == part = "sync" => QP!FeedInv

\* Both instances count alike.
LEMMA SyncCounts ==
    /\ \A T : Q!Cardinality(T) = QP!Cardinality(T)
    /\ \A T : Q!IsFiniteSet(T) = QP!IsFiniteSet(T)
BY DEF Q!Cardinality, QP!Cardinality, Q!IsFiniteSet, QP!IsFiniteSet

LEMMA SyncAssumed == QP!FeedAssumption
BY PartsAssumption, SyncCounts DEF Q!FeedAssumption, QP!FeedAssumption

LEMMA SyncInit == AllInit => SyncPart
<1>1. Q!Init => QP!Init
    BY DEF
     Q!Init, Q!NoEvent, Q!Start, QP!Init, QP!NoEvent, QP!Start
<1> QED
    BY <1>1, SyncAssumed, QP!FeedInit DEF AllInit, SyncPart

LEMMA SyncActions == Q!Next => QP!Next
<1>1. Q!Tick => QP!Tick
    BY SyncCounts DEF
     Q!Tick, Q!NoEvent, Q!Ms, Q!dbVars, Q!runVars, QP!Tick, QP!NoEvent, QP!Ms, QP!dbVars,
     QP!runVars
<1>2. \A f, o : Q!StartChange(f, o) => QP!StartChange(f, o)
    BY SyncCounts DEF
     Q!StartChange, Q!NoEvent, Q!dbVars, Q!runVars, QP!StartChange, QP!NoEvent, QP!dbVars,
     QP!runVars
<1>3. \A f, o : Q!CommitChange(f, o) => QP!CommitChange(f, o)
    BY SyncCounts DEF
     Q!CommitChange, Q!NoEvent, Q!dbVars, QP!CommitChange, QP!NoEvent, QP!dbVars
<1>4. \A r, f : Q!Begin(r, f) => QP!Begin(r, f)
    BY SyncCounts DEF
     Q!Begin, Q!NoEvent, Q!Start, Q!Ms, Q!indexerVars, QP!Begin, QP!NoEvent, QP!Start,
     QP!Ms, QP!indexerVars
<1>5. \A r : Q!Fetch(r) => QP!Fetch(r)
    BY SyncCounts DEF
     Q!Fetch, Q!PageFrom, Q!Ahead, Q!NoEvent, Q!Past, Q!Precedes, Q!indexerVars, Q!dbVars,
     QP!Fetch, QP!PageFrom, QP!Ahead, QP!NoEvent, QP!Past, QP!Precedes, QP!indexerVars,
     QP!dbVars
<1>6. \A r : Q!Apply(r) => QP!Apply(r)
    <2>1. \A r : Q!NewHeld(r) = QP!NewHeld(r)
        BY DEF
     Q!NewHeld, Q!Place, Q!Ms, Q!IsSettled, Q!IsAfter, QP!NewHeld, QP!Place, QP!Ms,
     QP!IsSettled, QP!IsAfter
    <2>2. \A r : Q!LastPlace(r) = QP!LastPlace(r)
        BY DEF
     Q!LastPlace, Q!Place, Q!Ms, Q!Precedes, QP!LastPlace, QP!Place, QP!Ms, QP!Precedes
    <2>3. \A r, o : Q!NewRow(r, o) = QP!NewRow(r, o)
        BY DEF
     Q!NewRow, Q!Ms, QP!NewRow, QP!Ms
    <2> QED
        BY SyncCounts, <2>1, <2>2, <2>3 DEF
     Q!Apply, Q!SameFeed, Q!IsAfter, Q!DropPage, Q!NoEvent, Q!indexerVars, QP!Apply,
     QP!SameFeed, QP!IsAfter, QP!DropPage, QP!NoEvent, QP!indexerVars
<1>7. \A r : Q!ApplyRefused(r) => QP!ApplyRefused(r)
    BY SyncCounts DEF
     Q!ApplyRefused, Q!SameFeed, Q!Leave, Q!Start, Q!DropPage, Q!NoEvent, Q!indexerVars,
     Q!dbVars, QP!ApplyRefused, QP!SameFeed, QP!Leave, QP!Start, QP!DropPage, QP!NoEvent,
     QP!indexerVars, QP!dbVars
<1>8. \A r : Q!Prune(r) => QP!Prune(r)
    BY SyncCounts DEF
     Q!Prune, Q!Forgotten, Q!NoEvent, Q!indexerVars, QP!Prune, QP!Forgotten, QP!NoEvent,
     QP!indexerVars
<1>9. \A r : Q!EndRun(r) => QP!EndRun(r)
    BY SyncCounts DEF
     Q!EndRun, Q!Leave, Q!Start, Q!DropPage, Q!NoEvent, Q!indexerVars, Q!dbVars, QP!EndRun,
     QP!Leave, QP!Start, QP!DropPage, QP!NoEvent, QP!indexerVars, QP!dbVars
<1> QED
    BY <1>1, <1>2, <1>3, <1>4, <1>5, <1>6, <1>7, <1>8, <1>9 DEF Q!Next, QP!Next, Q!RunStep, QP!RunStep

LEMMA SyncStep == ASSUME SyncPart, [AllNext]_allVars PROVE SyncPart'
<1>1. UNCHANGED allVars => UNCHANGED QP!vars
    BY DEF
     allVars, Rest0, Rest7, Rest9, Rest11, Rest12, Rest14, Rest15, Rest16, Rest17,
     QP!vars, QP!indexerVars, QP!dbVars, QP!runVars
<1> QED
    BY <1>1, SyncActions, SyncAssumed, QP!FeedStep DEF AllNext, SyncPart, allVars

----------------------------------------------------------------------------
(***************************************************************************)
(* Late.                                                                   *)
(***************************************************************************)
LatePart == part = "late" => LP!FeedInv

\* Both instances count alike.
LEMMA LateCounts ==
    /\ \A T : L!Cardinality(T) = LP!Cardinality(T)
    /\ \A T : L!IsFiniteSet(T) = LP!IsFiniteSet(T)
BY DEF L!Cardinality, LP!Cardinality, L!IsFiniteSet, LP!IsFiniteSet

LEMMA LateAssumed == LP!FeedAssumption
BY PartsAssumption, LateCounts DEF L!FeedAssumption, LP!FeedAssumption

LEMMA LateInit == AllInit => LatePart
<1>1. L!Init => LP!Init
    BY DEF
     L!Init, L!NoEvent, L!Start, LP!Init, LP!NoEvent, LP!Start
<1> QED
    BY <1>1, LateAssumed, LP!FeedInit DEF AllInit, LatePart

LEMMA LateActions == L!Next => LP!Next
<1>1. L!Tick => LP!Tick
    BY LateCounts DEF
     L!Tick, L!NoEvent, L!Ms, L!dbVars, L!runVars, LP!Tick, LP!NoEvent, LP!Ms, LP!dbVars,
     LP!runVars
<1>2. \A f, o : L!StartChange(f, o) => LP!StartChange(f, o)
    BY LateCounts DEF
     L!StartChange, L!NoEvent, L!dbVars, L!runVars, LP!StartChange, LP!NoEvent, LP!dbVars,
     LP!runVars
<1>3. \A f, o : L!CommitChange(f, o) => LP!CommitChange(f, o)
    BY LateCounts DEF
     L!CommitChange, L!NoEvent, L!dbVars, LP!CommitChange, LP!NoEvent, LP!dbVars
<1>4. \A r, f : L!Begin(r, f) => LP!Begin(r, f)
    BY LateCounts DEF
     L!Begin, L!NoEvent, L!Start, L!Ms, L!indexerVars, LP!Begin, LP!NoEvent, LP!Start,
     LP!Ms, LP!indexerVars
<1>5. \A r : L!Fetch(r) => LP!Fetch(r)
    BY LateCounts DEF
     L!Fetch, L!PageFrom, L!Ahead, L!NoEvent, L!Past, L!Precedes, L!indexerVars, L!dbVars,
     LP!Fetch, LP!PageFrom, LP!Ahead, LP!NoEvent, LP!Past, LP!Precedes, LP!indexerVars,
     LP!dbVars
<1>6. \A r : L!Apply(r) => LP!Apply(r)
    <2>1. \A r : L!NewHeld(r) = LP!NewHeld(r)
        BY DEF
     L!NewHeld, L!Place, L!Ms, L!IsSettled, L!IsAfter, LP!NewHeld, LP!Place, LP!Ms,
     LP!IsSettled, LP!IsAfter
    <2>2. \A r : L!LastPlace(r) = LP!LastPlace(r)
        BY DEF
     L!LastPlace, L!Place, L!Ms, L!Precedes, LP!LastPlace, LP!Place, LP!Ms, LP!Precedes
    <2>3. \A r, o : L!NewRow(r, o) = LP!NewRow(r, o)
        BY DEF
     L!NewRow, L!Ms, LP!NewRow, LP!Ms
    <2> QED
        BY LateCounts, <2>1, <2>2, <2>3 DEF
     L!Apply, L!SameFeed, L!IsAfter, L!DropPage, L!NoEvent, L!indexerVars, LP!Apply,
     LP!SameFeed, LP!IsAfter, LP!DropPage, LP!NoEvent, LP!indexerVars
<1>7. \A r : L!ApplyRefused(r) => LP!ApplyRefused(r)
    BY LateCounts DEF
     L!ApplyRefused, L!SameFeed, L!Leave, L!Start, L!DropPage, L!NoEvent, L!indexerVars,
     L!dbVars, LP!ApplyRefused, LP!SameFeed, LP!Leave, LP!Start, LP!DropPage, LP!NoEvent,
     LP!indexerVars, LP!dbVars
<1>8. \A r : L!Prune(r) => LP!Prune(r)
    BY LateCounts DEF
     L!Prune, L!Forgotten, L!NoEvent, L!indexerVars, LP!Prune, LP!Forgotten, LP!NoEvent,
     LP!indexerVars
<1>9. \A r : L!EndRun(r) => LP!EndRun(r)
    BY LateCounts DEF
     L!EndRun, L!Leave, L!Start, L!DropPage, L!NoEvent, L!indexerVars, L!dbVars, LP!EndRun,
     LP!Leave, LP!Start, LP!DropPage, LP!NoEvent, LP!indexerVars, LP!dbVars
<1> QED
    BY <1>1, <1>2, <1>3, <1>4, <1>5, <1>6, <1>7, <1>8, <1>9 DEF L!Next, LP!Next, L!RunStep, LP!RunStep

LEMMA LateStep == ASSUME LatePart, [AllNext]_allVars PROVE LatePart'
<1>1. UNCHANGED allVars => UNCHANGED LP!vars
    BY DEF
     allVars, Rest0, Rest7, Rest9, Rest11, Rest12, Rest14, Rest15, Rest16, Rest17,
     LP!vars, LP!indexerVars, LP!dbVars, LP!runVars
<1> QED
    BY <1>1, LateActions, LateAssumed, LP!FeedStep DEF AllNext, LatePart, allVars

----------------------------------------------------------------------------
(***************************************************************************)
(* The properties.                                                         *)
(***************************************************************************)

\* A member who has a way to sign in keeps one (unlinkIdentity).
THEOREM WaysAlwaysStay == AllSpec => WayInStays
<1>1. MembersPart /\ [AllNext]_allVars => [\A u \in User : ways[u] # {} => ways'[u] # {}]_vars
    BY WaysStep DEF AllNext, MembersPart, allVars
<1> QED BY MembersPartInit, MembersPartStep, <1>1, PTL DEF AllSpec, WayInStays, allVars

\* Once an admin can sign in one always can (lockAdmins), but for what the end of a
\* transaction does that a restore or a first password has overtaken.
THEOREM AdminsAlwaysStay == AllSpec => AdminStays
<1>1. MembersPart /\ [AllNext]_allVars =>
        [(\E u \in User : SignInAdmin(u)) /\ ~ (\E t \in Tx : EndsOvertaken(t)) =>
             \E u \in User : SignInAdmin(u)']_vars
    BY AdminsStep DEF AllNext, MembersPart, allVars
<1> QED BY MembersPartInit, MembersPartStep, <1>1, PTL DEF AllSpec, AdminStays, allVars

\* A reset and a removal end every session there was, and a change of the password every
\* other one unless its second statement is missing, whatever requests run at once; only
\* an overtaken sign-in leaves one besides (acceptReset, disableMember, auth.ts:574-575).
THEOREM SessionsAlwaysEnd == AllSpec => []SessionsEnd
<1>1. SignInPart => SessionsEnd
    <2>1. B!SignInInv => B!S!SessionsEnd
        BY DEF B!SignInInv
    <2>2. B!S!SessionsEnd => S!SessionsEnd
        BY DEF
     S!SessionsEnd, S!Outlives, B!S!SessionsEnd, B!S!Outlives
    <2> QED BY <2>1, <2>2 DEF SignInPart, SessionsEnd
<1> QED BY SignInInit, SignInStep, <1>1, PTL DEF AllSpec, allVars

\* A reset link resets once and an invite lets in as many as it is for (claimLink).
THEOREM LinksAreAlwaysCounted == AllSpec => []LinksAreCounted
<1>1. SignInPart => LinksAreCounted
    <2>1. B!SignInInv => B!S!LinksAreCounted
        BY DEF B!SignInInv, B!S!TypeOK, B!ResetLocked, B!JoinLocked, B!S!LinksAreCounted
    <2>2. B!S!LinksAreCounted => S!LinksAreCounted
        BY DEF
     S!LinksAreCounted, B!S!LinksAreCounted
    <2> QED BY <2>1, <2>2 DEF SignInPart, LinksAreCounted
<1> QED BY SignInInit, SignInStep, <1>1, PTL DEF AllSpec, allVars

\* A share map lasts as long as it may and no longer, and is minted once (shareExpiry,
\* mintShare).
THEOREM SharesAlwaysLast == AllSpec => []SharesLast
<1>1. SharePart => SharesLast
    <2>1. B!ShareInv => B!K!SharesLast
        BY PartsAssumption, B!InvShares DEF K!ShareAssumption, B!K!ShareAssumption
    <2>2. B!K!SharesLast => K!SharesLast
        BY DEF
     K!SharesLast, K!SharesEndInTime, K!Looked, K!Least, K!ExpiriesAreFew,
     K!SlotsAreMintedOnce, B!K!SharesLast, B!K!SharesEndInTime, B!K!Looked, B!K!Least,
     B!K!ExpiriesAreFew, B!K!SlotsAreMintedOnce
    <2> QED BY <2>1, <2>2 DEF SharePart, SharesLast
<1> QED BY ShareInit, ShareStep, <1>1, PTL DEF AllSpec, allVars

\* A load of the player has one source at a time and answers once (HybridFragmentLoader).
THEOREM SegmentsAlwaysComeOnce == AllSpec => []SegmentsComeOnce
<1>1. LoaderPart => SegmentsComeOnce
    <2>1. Z!LoaderInv => Z!H!SegmentsComeOnce
        BY DEF Z!LoaderInv
    <2>2. Z!H!SegmentsComeOnce => H!SegmentsComeOnce
        BY DEF
     H!SegmentsComeOnce, H!SlotIsOneRead, H!LoadsAnswerOnce, Z!H!SegmentsComeOnce,
     Z!H!SlotIsOneRead, Z!H!LoadsAnswerOnce
    <2> QED BY <2>1, <2>2 DEF LoaderPart, SegmentsComeOnce
<1> QED BY LoaderInit, LoaderStep, <1>1, PTL DEF AllSpec, allVars

\* Nothing the viewer session allocates in WebAssembly memory is leaked, or used after it
\* was freed (SiaSession).
THEOREM NothingEverLeaks == AllSpec => []NothingLeaks
<1>1. ViewerPart => NothingLeaks
    <2>1. Z!SessionInv => Z!N!NothingLeaks
        BY PartsAssumption, Z!SessionIsClean DEF N!SessionAssumption, Z!N!SessionAssumption
    <2>2. Z!N!NothingLeaks => N!NothingLeaks
        BY DEF
     N!NothingLeaks, N!SdkIsOwned, N!ObjectsAreOwned, N!Entries, Z!N!NothingLeaks,
     Z!N!SdkIsOwned, Z!N!ObjectsAreOwned, Z!N!Entries
    <2> QED BY <2>1, <2>2 DEF ViewerPart, NothingLeaks
<1> QED BY ViewerInit, ViewerStep, <1>1, PTL DEF AllSpec, allVars

\* With two executions of the upload, the objects of a ready asset stay pinned, and a row
\* leads to every pinned object (finalizeAssetStorage, releasePendingObjects).
THEOREM ObjectsAreAlwaysKept == AllSpec => []ObjectsAreKept
<1>1. StoragePart => ObjectsAreKept
    <2>1. P!TypeInv /\ P!StorageInv /\ P!AccountInv => P!ReadyIsPinned /\ P!PinnedIsAccounted
        BY DEF P!StorageInv, P!ReadyIsSafe, P!ReadyIsPinned, P!TypeInv, P!TypeOK,
               P!AccountInv, P!ClaimedIsAccounted, P!Claimed, P!PinnedIsAccounted
    <2>2. P!ReadyIsPinned /\ P!PinnedIsAccounted => D!ReadyIsPinned /\ D!PinnedIsAccounted
        BY DEF
     D!ReadyIsPinned, D!PinnedIsAccounted, P!ReadyIsPinned, P!PinnedIsAccounted
    <2> QED BY <2>1, <2>2 DEF StoragePart, ObjectsAreKept
<1> QED BY StorageInit, StorageStep, <1>1, PTL DEF AllSpec, allVars

\* A clean exit loses no play that was counted, and what still runs finds the queues and
\* the database open (stopServer).
THEOREM ShutdownsAlwaysDrain == AllSpec => []ShutdownDrains
<1>1. ShutdownPart => ShutdownDrains
    <2>1. B!ShutdownInv => B!X!PlaysAreTold /\ B!X!WorkFindsItOpen
        BY B!ShutdownIsRight
    <2>2. B!X!PlaysAreTold /\ B!X!WorkFindsItOpen => X!PlaysAreTold /\ X!WorkFindsItOpen
        BY DEF
     X!PlaysAreTold, X!WorkFindsItOpen, B!X!PlaysAreTold, B!X!WorkFindsItOpen
    <2> QED BY <2>1, <2>2 DEF ShutdownPart, ShutdownDrains
<1> QED BY ShutdownInit, ShutdownStep, <1>1, PTL DEF AllSpec, allVars

\* No access decision is older than a ttl and a query, and a finalized object is known
\* within as much (resolveObjectAccess).
THEOREM CacheIsAlwaysFresh == AllSpec => []CacheIsFresh
<1>1. CachePart => CacheIsFresh
    <2>1. B!CacheInv => B!A!DecidesFresh /\ B!A!ClaimIsSeen
        BY DEF B!CacheInv, B!Fresh
    <2>2. B!A!DecidesFresh /\ B!A!ClaimIsSeen => A!DecidesFresh /\ A!ClaimIsSeen
        BY DEF
     A!DecidesFresh, A!Row, A!Replaced, A!ClaimIsSeen, A!Missing, A!Claimed,
     B!A!DecidesFresh, B!A!Row, B!A!Replaced, B!A!ClaimIsSeen, B!A!Missing, B!A!Claimed
    <2> QED BY <2>1, <2>2 DEF CachePart, CacheIsFresh
<1> QED BY CacheInit, CacheStep, <1>1, PTL DEF AllSpec, allVars

\* A delivery that was acknowledged is repeated only after a stall, and its log is the
\* truth about its tries, those left out whose endpoint could not be read (deliver).
THEOREM DeliveriesAreAlwaysTold == AllSpec => []DeliveriesAreTold
<1>1. WebhookPart => DeliveriesAreTold
    <2>1. B!WebhookInv => B!W!RepeatNeedsAStall /\ B!W!LogTellsAll
        BY PartsAssumption, B!DeliveriesAreToldTruly DEF W!WebhookAssumption, B!W!WebhookAssumption
    <2>2. B!W!RepeatNeedsAStall /\ B!W!LogTellsAll => W!RepeatNeedsAStall /\ W!LogTellsAll
        BY DEF
     W!RepeatNeedsAStall, W!LogTellsAll, B!W!RepeatNeedsAStall, B!W!LogTellsAll
    <2> QED BY <2>1, <2>2 DEF WebhookPart, DeliveriesAreTold
<1> QED BY WebhookInit, WebhookStep, <1>1, PTL DEF AllSpec, allVars

\* A sync that went through has missed nothing, neither what came as it ran nor what
\* committed late (syncObjectFeed).
THEOREM SyncsAreAlwaysComplete == AllSpec => []SyncIsComplete
<1>1. SyncPart => (part = "sync" => Q!SyncIsComplete)
    <2>1. QP!FeedInv => QP!SyncIsComplete
        BY SyncAssumed, QP!FeedIsRight
    <2>2. QP!SyncIsComplete => Q!SyncIsComplete
        BY DEF
     Q!SyncIsComplete, Q!Shows, Q!Ms, QP!SyncIsComplete, QP!Shows, QP!Ms
    <2> QED BY <2>1, <2>2 DEF SyncPart
<1>2. LatePart => (part = "late" => L!SyncIsComplete)
    <2>1. LP!FeedInv => LP!SyncIsComplete
        BY LateAssumed, LP!FeedIsRight
    <2>2. LP!SyncIsComplete => L!SyncIsComplete
        BY DEF
     L!SyncIsComplete, L!Shows, L!Ms, LP!SyncIsComplete, LP!Shows, LP!Ms
    <2> QED BY <2>1, <2>2 DEF LatePart
<1>3. SyncPart /\ LatePart => SyncIsComplete
    BY <1>1, <1>2 DEF SyncIsComplete
<1> QED BY SyncInit, SyncStep, LateInit, LateStep, <1>3, PTL DEF AllSpec, allVars

\* The saved cursor has passed nothing that is not in the copy (objectSyncState).
THEOREM SavedIsAlwaysRead == AllSpec => []SavedIsRead
<1>1. SyncPart => (part = "sync" => Q!SavedIsRead)
    <2>1. QP!FeedInv => QP!SavedIsRead
        BY DEF QP!FeedInv
    <2>2. QP!SavedIsRead => Q!SavedIsRead
        BY DEF
     Q!SavedIsRead, Q!NoEvent, Q!Past, Q!Shows, Q!Ms, QP!SavedIsRead, QP!NoEvent, QP!Past,
     QP!Shows, QP!Ms
    <2> QED BY <2>1, <2>2 DEF SyncPart
<1>2. LatePart => (part = "late" => L!SavedIsRead)
    <2>1. LP!FeedInv => LP!SavedIsRead
        BY DEF LP!FeedInv
    <2>2. LP!SavedIsRead => L!SavedIsRead
        BY DEF
     L!SavedIsRead, L!NoEvent, L!Past, L!Shows, L!Ms, LP!SavedIsRead, LP!NoEvent, LP!Past,
     LP!Shows, LP!Ms
    <2> QED BY <2>1, <2>2 DEF LatePart
<1>3. SyncPart /\ LatePart => SavedIsRead
    BY <1>1, <1>2 DEF SavedIsRead
<1> QED BY SyncInit, SyncStep, LateInit, LateStep, <1>3, PTL DEF AllSpec, allVars

\* A sync stalls only where one millisecond fills a page (mergeObjectEventPage).
THEOREM StallsAlwaysNeedAPage == AllSpec => []StallNeedsAPage
<1>1. SyncPart => StallNeedsAPage
    <2>1. QP!FeedInv => QP!StallNeedsAPage
        BY DEF QP!FeedInv, QP!BaseInv
    <2>2. QP!StallNeedsAPage => Q!StallNeedsAPage
        BY SyncCounts DEF
     Q!StallNeedsAPage, Q!Ms, QP!StallNeedsAPage, QP!Ms
    <2> QED BY <2>1, <2>2 DEF SyncPart, StallNeedsAPage
<1> QED BY SyncInit, SyncStep, <1>1, PTL DEF AllSpec, allVars

\* The copy is never a mixture of two indexers, and a report calls only that drift which
\* is (restartObjectCopy, runReconcileOnce).
THEOREM InventoryIsAlwaysRight == AllSpec => []InventoryIsRight
<1>1. FeedPart => (part = "feed" => F!FromOneFeed)
    <2>1. FP!BaseInv => FP!FromOneFeed
        BY DEF FP!BaseInv
    <2>2. FP!FromOneFeed => F!FromOneFeed
        BY DEF
     F!FromOneFeed, F!NoEvent, FP!FromOneFeed, FP!NoEvent
    <2> QED BY <2>1, <2>2 DEF FeedPart
<1>2. ReconcilePart => (part = "reconcile" => R!ReportIsRight)
    <2>1. B!ReconcileInv => B!R!ReportIsRight
        BY DEF B!ReconcileInv
    <2>2. B!R!ReportIsRight => R!ReportIsRight
        BY DEF
     R!ReportIsRight, B!R!ReportIsRight
    <2> QED BY <2>1, <2>2 DEF ReconcilePart
<1>3. FeedPart /\ ReconcilePart => InventoryIsRight
    BY <1>1, <1>2 DEF InventoryIsRight
<1> QED BY FeedInit, FeedStep, ReconcileInit, ReconcileStep, <1>3, PTL DEF AllSpec, allVars

\* At most one upload of a tab transfers, and a card that shows processing is polled, or
\* says why not; each but for what a cancel leaves that came too late (upload-store.ts).
THEOREM CardsAreAlwaysTrue == AllSpec => []CardsAreTrue
<1>1. StudioPart => CardsAreTrue
    <2>1. Z!StudioInv => Z!U!OneTransfer /\ Z!U!ProcessingIsFollowed
        BY Z!StudioIsTrue
    <2>2. Z!U!OneTransfer /\ Z!U!ProcessingIsFollowed => C!OneTransfer /\ C!ProcessingIsFollowed
        BY DEF
     C!OneTransfer, C!ProcessingIsFollowed, C!FinishesCancelled, C!Transferring,
     Z!U!OneTransfer, Z!U!ProcessingIsFollowed, Z!U!FinishesCancelled, Z!U!Transferring
    <2> QED BY <2>1, <2>2 DEF StudioPart, CardsAreTrue
<1> QED BY StudioInit, StudioStep, <1>1, PTL DEF AllSpec, allVars

\* Where no file is over the server's limit, the queue never waits for nothing (advance).
THEOREM QueueIsAlwaysServed == AllSpec => []QueueIsServed
<1>1. Z!U!QueueIsServed => C!QueueIsServed
    BY DEF
     C!QueueIsServed, C!Busy, C!Transferring, C!Store, C!SignedOut, C!Listed,
     Z!U!QueueIsServed, Z!U!Busy, Z!U!Transferring, Z!U!Store, Z!U!SignedOut, Z!U!Listed
<1>2. StudioPart => QueueIsServed
    BY <1>1 DEF StudioPart, QueueIsServed
<1> QED BY StudioInit, StudioStep, <1>2, PTL DEF AllSpec, allVars

PartIsOne == part \in {"members", "signIn", "webhook", "cache", "studio", "storage", "feed", "sync", "late", "loader",
      "reconcile", "share", "shutdown", "viewer"}

LEMMA SignInTyped == SignInPart => (part = "signIn" => S!TypeOK)
<1>1. SignInPart /\ part = "signIn" => B!S!TypeOK
    BY DEF B!SignInInv, SignInPart
<1>2. B!S!TypeOK => S!TypeOK
    BY DEF
     S!TypeOK, S!Passwords, S!Phases, S!Idle, B!S!TypeOK, B!S!Passwords, B!S!Phases,
     B!S!Idle
<1> QED BY <1>1, <1>2

LEMMA WebhookTyped == WebhookPart => (part = "webhook" => W!TypeOK)
<1>1. WebhookPart /\ part = "webhook" => B!W!TypeOK
    BY DEF B!WebhookInv, WebhookPart
<1>2. B!W!TypeOK => W!TypeOK
    BY DEF
     W!TypeOK, W!Idle, B!W!TypeOK, B!W!Idle
<1> QED BY <1>1, <1>2

LEMMA CacheTyped == CachePart => (part = "cache" => A!TypeOK)
<1>1. CachePart /\ part = "cache" => B!A!TypeOK
    BY DEF B!CacheInv, B!CacheTypes, CachePart
<1>2. B!A!TypeOK => A!TypeOK
    BY DEF
     A!TypeOK, A!Row, A!Kind, B!A!TypeOK, B!A!Row, B!A!Kind
<1> QED BY <1>1, <1>2

LEMMA StudioTyped == StudioPart => (part = "studio" => C!TypeOK)
<1>1. StudioPart /\ part = "studio" => Z!U!TypeOK
    BY Z!StudioTypes DEF StudioPart
<1>2. Z!U!TypeOK => C!TypeOK
    BY DEF
     C!TypeOK, C!Cards, C!Phase, C!Transferring, C!Tasks, C!File, C!FileOf, Z!U!TypeOK,
     Z!U!Cards, Z!U!Phase, Z!U!Transferring, Z!U!Tasks, Z!U!File, Z!U!FileOf
<1> QED BY <1>1, <1>2

LEMMA StorageTyped == StoragePart => (part = "storage" => D!TypeOK)
<1>1. StoragePart /\ part = "storage" => P!TypeOK
    BY DEF P!TypeInv, StoragePart
<1>2. P!TypeOK => D!TypeOK
    BY DEF
     D!TypeOK, D!Object, D!Runs, D!Phases, D!Actor, D!Calls, P!TypeOK, P!Object, P!Runs,
     P!Phases, P!Actor, P!Calls
<1> QED BY <1>1, <1>2

LEMMA FeedTyped == FeedPart => (part = "feed" => F!TypeOK)
<1>1. FeedPart /\ part = "feed" => FP!TypeOK
    BY DEF FP!BaseInv, FeedPart
<1>2. FP!TypeOK => F!TypeOK
    BY DEF
     F!TypeOK, F!Instants, F!Events, F!NoEvent, F!Cursors, F!Start, F!Ms, F!Phases,
     FP!TypeOK, FP!Instants, FP!Events, FP!NoEvent, FP!Cursors, FP!Start, FP!Ms, FP!Phases
<1> QED BY <1>1, <1>2

LEMMA SyncTyped == SyncPart => (part = "sync" => Q!TypeOK)
<1>1. SyncPart /\ part = "sync" => QP!TypeOK
    BY DEF QP!FeedInv, QP!BaseInv, SyncPart
<1>2. QP!TypeOK => Q!TypeOK
    BY DEF
     Q!TypeOK, Q!Instants, Q!Events, Q!NoEvent, Q!Cursors, Q!Start, Q!Ms, Q!Phases,
     QP!TypeOK, QP!Instants, QP!Events, QP!NoEvent, QP!Cursors, QP!Start, QP!Ms, QP!Phases
<1> QED BY <1>1, <1>2

LEMMA LateTyped == LatePart => (part = "late" => L!TypeOK)
<1>1. LatePart /\ part = "late" => LP!TypeOK
    BY DEF LP!FeedInv, LP!BaseInv, LatePart
<1>2. LP!TypeOK => L!TypeOK
    BY DEF
     L!TypeOK, L!Instants, L!Events, L!NoEvent, L!Cursors, L!Start, L!Ms, L!Phases,
     LP!TypeOK, LP!Instants, LP!Events, LP!NoEvent, LP!Cursors, LP!Start, LP!Ms, LP!Phases
<1> QED BY <1>1, <1>2

LEMMA LoaderTyped == LoaderPart => (part = "loader" => H!TypeOK)
<1>1. LoaderPart /\ part = "loader" => Z!H!TypeOK
    BY Z!LoaderTypes DEF LoaderPart
<1>2. Z!H!TypeOK => H!TypeOK
    BY DEF
     H!TypeOK, Z!H!TypeOK
<1> QED BY <1>1, <1>2

LEMMA ReconcileTyped == ReconcilePart => (part = "reconcile" => R!TypeOK)
<1>1. ReconcilePart /\ part = "reconcile" => B!R!TypeOK
    BY DEF B!ReconcileInv, ReconcilePart
<1>2. B!R!TypeOK => R!TypeOK
    BY DEF
     R!TypeOK, R!Drift, B!R!TypeOK, B!R!Drift
<1> QED BY <1>1, <1>2

LEMMA ShareTyped == SharePart => (part = "share" => K!TypeOK)
<1>1. SharePart /\ part = "share" => B!K!TypeOK
    BY DEF B!ShareInv, SharePart
<1>2. B!K!TypeOK => K!TypeOK
    BY DEF
     K!TypeOK, K!Seconds, B!K!TypeOK, B!K!Seconds
<1> QED BY <1>1, <1>2

LEMMA ShutdownTyped == ShutdownPart => (part = "shutdown" => X!TypeOK)
<1>1. ShutdownPart /\ part = "shutdown" => B!X!TypeOK
    BY DEF B!ShutdownInv, ShutdownPart
<1>2. B!X!TypeOK => X!TypeOK
    BY DEF
     X!TypeOK, X!Phases, B!X!TypeOK, B!X!Phases
<1> QED BY <1>1, <1>2

LEMMA ViewerTyped == ViewerPart => (part = "viewer" => N!TypeOK)
<1>1. ViewerPart /\ part = "viewer" => Z!N!TypeOK
    BY DEF Z!SessionInv, ViewerPart
<1>2. Z!N!TypeOK => N!TypeOK
    BY DEF
     N!TypeOK, Z!N!TypeOK
<1> QED BY <1>1, <1>2

\* Every variable of a part keeps its type, with any number of members, requests and
\* executions.
THEOREM EveryPartIsTyped == AllSpec => []AllTypeOK
<1>1. AllInit => PartIsOne
    BY DEF AllInit, PartIsOne
<1>2. PartIsOne /\ [AllNext]_allVars => PartIsOne'
    BY DEF AllNext, PartIsOne, allVars
<1>3. /\ PartIsOne
      /\ MembersPart /\ SignInPart /\ WebhookPart /\ CachePart /\ StudioPart
      /\ StoragePart /\ FeedPart /\ SyncPart /\ LatePart /\ LoaderPart
      /\ ReconcilePart /\ SharePart /\ ShutdownPart /\ ViewerPart
      => AllTypeOK
    <2> SUFFICES ASSUME PartIsOne,
                        MembersPart, SignInPart, WebhookPart, CachePart, StudioPart,
                        StoragePart, FeedPart, SyncPart, LatePart, LoaderPart,
                        ReconcilePart, SharePart, ShutdownPart, ViewerPart
                 PROVE  AllTypeOK
        OBVIOUS
    <2>1. part = "members" => TypeOK
        BY DEF MembersPart, MembersInv
    <2>2. CASE part = "members"
        BY <2>1, <2>2 DEF AllTypeOK
    <2>3. CASE part = "signIn"
        BY <2>3, SignInTyped DEF AllTypeOK
    <2>4. CASE part = "webhook"
        BY <2>4, WebhookTyped DEF AllTypeOK
    <2>5. CASE part = "cache"
        BY <2>5, CacheTyped DEF AllTypeOK
    <2>6. CASE part = "studio"
        BY <2>6, StudioTyped DEF AllTypeOK
    <2>7. CASE part = "storage"
        BY <2>7, StorageTyped DEF AllTypeOK
    <2>8. CASE part = "feed"
        BY <2>8, FeedTyped DEF AllTypeOK
    <2>9. CASE part = "sync"
        BY <2>9, SyncTyped DEF AllTypeOK
    <2>10. CASE part = "late"
        BY <2>10, LateTyped DEF AllTypeOK
    <2>11. CASE part = "loader"
        BY <2>11, LoaderTyped DEF AllTypeOK
    <2>12. CASE part = "reconcile"
        BY <2>12, ReconcileTyped DEF AllTypeOK
    <2>13. CASE part = "share"
        BY <2>13, ShareTyped DEF AllTypeOK
    <2>14. CASE part = "shutdown"
        BY <2>14, ShutdownTyped DEF AllTypeOK
    <2>15. CASE part = "viewer"
        BY <2>15, ViewerTyped DEF AllTypeOK
    <2> QED
        BY <2>2, <2>3, <2>4, <2>5, <2>6, <2>7, <2>8, <2>9, <2>10, <2>11, <2>12, <2>13,
           <2>14, <2>15 DEF PartIsOne
<1> QED
    BY <1>1, <1>2, <1>3,
       MembersPartInit, SignInInit, WebhookInit, CacheInit, StudioInit, StorageInit,
       FeedInit, SyncInit, LateInit, LoaderInit, ReconcileInit, ShareInit, ShutdownInit,
       ViewerInit, MembersPartStep, SignInStep, WebhookStep, CacheStep, StudioStep,
       StorageStep, FeedStep, SyncStep, LateStep, LoaderStep, ReconcileStep, ShareStep,
       ShutdownStep, ViewerStep, PTL
    DEF AllSpec, allVars
=============================================================================
