------------------------------ MODULE Members ------------------------------
(***************************************************************************)
(* The members of the workspace: their roles, whether they were removed,   *)
(* and their ways to sign in. Requests change them in transactions that    *)
(* read, decide and write at READ COMMITTED, so only the advisory locks    *)
(* some of them take keep a decision true until its write.                 *)
(***************************************************************************)
EXTENDS FiniteSets

CONSTANTS
    User,      \* the members an install may come to have
    Provider,  \* ways to sign in that can be removed, such as github
    Tx,        \* transactions that are open at once
    None

ASSUME MembersAssumption == None \notin User \cup Provider

VARIABLES
    role,      \* "none" while there is no such member
    removed,   \* the members with a disabledAt
    ways,      \* the identities of each, but the local one of a development run
    tx,        \* what each transaction is at
    overtaken  \* history: the transactions whose member was restored, or given their
               \* first way to sign in, after they had read them without

vars == <<role, removed, ways, tx, overtaken>>

Password == "password"
Ways == Provider \cup {Password}

\* What a transaction does, the member it does it to, and the way it adds or removes.
Ops == {"demote", "promote", "remove", "setup", "link", "unlink"}
Idle == [op |-> "idle", user |-> None, way |-> None, at |-> "idle"]

TypeOK ==
    /\ role \in [User -> {"none", "admin", "member"}]
    /\ removed \subseteq {u \in User : role[u] # "none"}
    /\ ways \in [User -> SUBSET Ways]
    /\ tx \in [Tx -> [op : Ops, user : User \cup {None}, way : Ways \cup {None},
                      at : {"member", "others", "write"}] \cup {Idle}]
    /\ overtaken \subseteq Tx

\* An install is new, or has members of an older one, the development account
\* without a way to sign in among them, but no admin who can sign in.
CanSignIn(u) == u \notin removed /\ ways[u] # {}
SignInAdmin(u) == role[u] = "admin" /\ CanSignIn(u)

Init ==
    /\ role \in [User -> {"none", "admin", "member"}]
    /\ removed \in SUBSET {u \in User : role[u] # "none"}
    /\ ways \in [User -> {{}, {Password}, Provider}]
    /\ \A u \in User : role[u] = "none" => ways[u] = {}
    /\ \A u \in User : role[u] = "admin" => ways[u] = {}
    /\ tx = [t \in Tx |-> Idle]
    /\ overtaken = {}

----------------------------------------------------------------------------
(***************************************************************************)
(* Transactions and their locks.                                           *)
(***************************************************************************)

\* lockAdmins, the lock of the unlinks of one member, or none.
Locks(op, u) == CASE op = "link" -> {} [] op = "unlink" -> {u} [] OTHER -> {None}

Open(t) == tx[t].at # "idle"

\* Mutant: unlinks that wait for no other.
FreeForUnlinks(op, u) ==
    \/ op = "unlink"
    \/ \A t \in Tx : Open(t) => Locks(tx[t].op, tx[t].user) \cap Locks(op, u) = {}

Free(op, u) ==
    \A t \in Tx : Open(t) => Locks(tx[t].op, tx[t].user) \cap Locks(op, u) = {}

\* Mutant: changes of the admins that wait for no other.
BeginUnlocked(t, op, u, w, at) ==
    /\ ~Open(t) /\ (op = "unlink" => Free(op, u))
    /\ tx' = [tx EXCEPT ![t] = [op |-> op, user |-> u, way |-> w, at |-> at]]
    /\ UNCHANGED <<role, removed, ways, overtaken>>

Begin(t, op, u, w, at) ==
    /\ ~Open(t) /\ Free(op, u)
    /\ tx' = [tx EXCEPT ![t] = [op |-> op, user |-> u, way |-> w, at |-> at]]
    /\ UNCHANGED <<role, removed, ways, overtaken>>

At(t, op, at) == tx[t].op = op /\ tx[t].at = at
GoOn(t, at) ==
    /\ tx' = IF at = "idle" THEN [tx EXCEPT ![t] = Idle] ELSE [tx EXCEPT ![t].at = at]
    /\ overtaken' = IF at = "idle" THEN overtaken \ {t} ELSE overtaken
Read(t, at) == GoOn(t, at) /\ UNCHANGED <<role, removed, ways>>

\* It fails, is refused, or its process dies.
Rollback(t) == Open(t) /\ Read(t, "idle")

\* The transactions that are about to take a member out of the admins.
About(u) ==
    {t \in Tx : tx[t].op \in {"demote", "remove"} /\ tx[t].user = u /\ tx[t].at = "write"}

----------------------------------------------------------------------------
(***************************************************************************)
(* Changing a role, and removing.                                          *)
(***************************************************************************)
BeginChange(t) ==
    \E u \in User, op \in {"demote", "promote", "remove"} :
        role[u] # "none" /\ Begin(t, op, u, None, "member")

\* wouldStrandAdmins: whether the member, as read here, keeps an admin in.
ReadMember(t) ==
    LET u == tx[t].user
        kept == \/ tx[t].op = "promote" /\ role[u] = "admin"
                \/ tx[t].op = "demote" /\ role[u] = "member"
    IN  /\ tx[t].op \in {"demote", "promote", "remove"} /\ tx[t].at = "member"
        /\ Read(t, IF kept THEN "idle"
                   ELSE IF tx[t].op # "promote" /\ SignInAdmin(u) THEN "others" ELSE "write")

\* hasSignInAdmin, of the others.
ReadOthers(t) ==
    /\ tx[t].op \in {"demote", "remove"} /\ tx[t].at = "others"
    /\ Read(t, IF \E v \in User \ {tx[t].user} : SignInAdmin(v) THEN "write" ELSE "idle")

CommitRole(t) ==
    /\ tx[t].op \in {"demote", "promote"} /\ tx[t].at = "write"
    /\ role' = [role EXCEPT ![tx[t].user] = IF tx[t].op = "demote" THEN "member" ELSE "admin"]
    /\ GoOn(t, "idle")
    /\ UNCHANGED <<removed, ways>>

CommitRemove(t) ==
    /\ At(t, "remove", "write")
    /\ removed' = removed \cup {tx[t].user}
    /\ GoOn(t, "idle")
    /\ UNCHANGED <<role, ways>>

\* One statement, and no lock.
Restore(u) ==
    /\ u \in removed
    /\ removed' = removed \ {u}
    /\ overtaken' = overtaken \cup About(u)
    /\ UNCHANGED <<role, ways, tx>>

----------------------------------------------------------------------------
(***************************************************************************)
(* Setup, joining, and the ways to sign in.                                *)
(***************************************************************************)
NewMember(u, r, w) ==
    /\ role[u] = "none"
    /\ role' = [role EXCEPT ![u] = r]
    /\ ways' = [ways EXCEPT ![u] = {w}]

BeginSetup(t) == Begin(t, "setup", None, None, "others")

ReadAdmins(t) ==
    /\ At(t, "setup", "others")
    /\ Read(t, IF \E v \in User : SignInAdmin(v) THEN "idle" ELSE "write")

\* A new account; an email that another one has is refused.
CommitSetup(t) ==
    /\ At(t, "setup", "write")
    /\ \/ \E u \in User : NewMember(u, "admin", Password)
       \/ UNCHANGED <<role, ways>>
    /\ GoOn(t, "idle")
    /\ UNCHANGED removed

\* acceptInvite and joinWithIdentity add a member; they take none of these locks.
Join(u) ==
    /\ \E r \in {"admin", "member"}, w \in Ways : NewMember(u, r, w)
    /\ UNCHANGED <<removed, tx, overtaken>>

\* linkIdentity of a member who was signed in, and acceptReset of one who had not
\* been removed, which may be their first way in; neither takes a lock on the member.
BeginLink(t) ==
    \E u \in User : \E w \in Ways \ ways[u] :
        /\ role[u] # "none" /\ u \notin removed
        /\ w \in Provider => CanSignIn(u)
        /\ Begin(t, "link", u, w, "write")

CommitLink(t) ==
    LET u == tx[t].user IN
    /\ At(t, "link", "write")
    /\ ways' = [ways EXCEPT ![u] = @ \cup {tx[t].way}]
    /\ tx' = [tx EXCEPT ![t] = Idle]
    /\ overtaken' = IF ways[u] = {} THEN overtaken \cup About(u) ELSE overtaken
    /\ UNCHANGED <<role, removed>>

BeginUnlink(t) ==
    \E u \in User, w \in Provider :
        CanSignIn(u) /\ Begin(t, "unlink", u, w, "others")

ReadWays(t) ==
    LET u == tx[t].user IN
    /\ At(t, "unlink", "others")
    /\ Read(t, IF tx[t].way \in ways[u] /\ ways[u] # {tx[t].way} THEN "write" ELSE "idle")

CommitUnlink(t) ==
    /\ At(t, "unlink", "write")
    /\ ways' = [ways EXCEPT ![tx[t].user] = @ \ {tx[t].way}]
    /\ GoOn(t, "idle")
    /\ UNCHANGED <<role, removed>>

Change(t) ==
    \/ BeginChange(t) \/ ReadMember(t) \/ ReadOthers(t) \/ CommitRole(t) \/ CommitRemove(t)
Setup(t) == BeginSetup(t) \/ ReadAdmins(t) \/ CommitSetup(t)
Link(t) == BeginLink(t) \/ CommitLink(t)
Unlink(t) == BeginUnlink(t) \/ ReadWays(t) \/ CommitUnlink(t)

Next ==
    \/ \E t \in Tx : Change(t) \/ Setup(t) \/ Link(t) \/ Unlink(t) \/ Rollback(t)
    \/ \E u \in User : Restore(u) \/ Join(u)

Spec == Init /\ [][Next]_vars

----------------------------------------------------------------------------
(***************************************************************************)
(* Properties.                                                             *)
(***************************************************************************)

\* The transaction ends in this step and had been overtaken.
EndsOvertaken(t) == t \in overtaken /\ tx'[t] = Idle

\* While an admin can sign in, no step leaves none who can, however role changes,
\* removals, setups, links and unlinks of several people run into each other
\* (lockAdmins, "the last admin who can sign in stays an admin"). The only way out is
\* the end of a transaction that demotes or removes a member it has read as removed or
\* without a way in, when a restore or their first password came between
\* (restoreMember and acceptReset do not take lockAdmins).
AdminStays ==
    [][(\E u \in User : SignInAdmin(u)) /\ ~ (\E t \in Tx : EndsOvertaken(t)) =>
           \E u \in User : SignInAdmin(u)']_vars

\* A member who has a way to sign in keeps one, though two browsers take
\* different ones away at once (unlinkIdentity).
WayInStays == [][\A u \in User : ways[u] # {} => ways'[u] # {}]_vars
=============================================================================
