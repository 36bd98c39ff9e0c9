------------------------------- MODULE SignIn -------------------------------
(***************************************************************************)
(* One member's password and sessions, with a reset link for them and an   *)
(* invite for others. Requests verify a password and start the session     *)
(* some awaits later; resets, removals and uses of a link are transactions *)
(* whose statements end the sessions they see and take effect at commit.   *)
(***************************************************************************)
EXTENDS Naturals

CONSTANTS
    Session, Request,
    None,
    MaxUses,       \* how many may join with the invite
    MaxPasswords,  \* bound: passwords, by number; 0 is none
    MaxRemovals    \* bound: how often the member is removed

\* The numbers are natural ones; TLC checks it where a run gives them values.
SignInAssumption == {MaxUses, MaxPasswords, MaxRemovals} \subseteq Nat

VARIABLES
    password,      \* the hash that is stored, by number
    removed,       \* the member's disabledAt
    live,          \* the sessions that were neither revoked nor deleted
    used,          \* the sessions that were ever started
    resetUsed,     \* usedAt of the reset link
    invite,        \* the invite's useCount, and whether it was revoked
    req,           \* what each request is at
    by,            \* history: per session the password it stands for
    since,         \* history: per session the removals before it
    late,          \* history: the sessions of a sign-in that was overtaken: by the time
                   \* its session started, what it verified had been replaced or was
                   \* being replaced
    unended,       \* history: the passwords whose request failed before it had ended
                   \* the other sessions
    removals, resets, joins   \* history: how many there were

sessionVars == <<live, used, by, since, late, unended>>
linkVars == <<resetUsed, invite>>
countVars == <<removals, resets, joins>>
vars == <<password, removed, sessionVars, linkVars, req, countVars>>

Passwords == 0 .. MaxPasswords
Idle == [at |-> "idle", password |-> 0, session |-> None, ends |-> {}]
Phases == {"start", "set", "others", "reset", "resetCommit", "remove", "removeCommit", "join"}

TypeOK ==
    /\ password \in Passwords /\ removed \in BOOLEAN
    /\ live \subseteq used /\ used \subseteq Session /\ late \subseteq used
    /\ resetUsed \in BOOLEAN
    /\ invite \in [uses : 0 .. MaxUses, revoked : BOOLEAN]
    /\ req \in [Request -> [at : Phases, password : Passwords,
                            session : Session \cup {None}, ends : SUBSET Session] \cup {Idle}]
    /\ by \in [Session -> Passwords] /\ since \in [Session -> 0 .. MaxRemovals]
    /\ unended \subseteq Passwords
    /\ removals \in 0 .. MaxRemovals /\ resets \in Nat /\ joins \in Nat

Init ==
    /\ password = 0 /\ removed = FALSE
    /\ live = {} /\ used = {} /\ late = {} /\ unended = {}
    /\ resetUsed = FALSE /\ invite = [uses |-> 0, revoked |-> FALSE]
    /\ req = [r \in Request |-> Idle]
    /\ by = [s \in Session |-> 0] /\ since = [s \in Session |-> 0]
    /\ removals = 0 /\ resets = 0 /\ joins = 0

To(r, phase) == req' = [req EXCEPT ![r].at = phase]
Over(r) == req' = [req EXCEPT ![r] = Idle]

\* A transaction has ended the sessions it saw and is not committed yet.
Ending == \E r \in Request : req[r].at \in {"resetCommit", "removeCommit"}

----------------------------------------------------------------------------
(***************************************************************************)
(* Signing in: the account and its hash are read, the password verified,   *)
(* and the session inserted last.                                          *)
(***************************************************************************)
Verify(r) ==
    /\ req[r].at = "idle"
    /\ ~removed
    /\ req' = [req EXCEPT ![r] = [Idle EXCEPT !.at = "start", !.password = password]]
    /\ UNCHANGED <<password, removed, sessionVars, linkVars, countVars>>

\* An id nobody has; which of them makes no difference.
NewSession == CHOOSE s \in Session : s \notin used

StartSession(r) ==
    /\ req[r].at = "start" /\ used # Session
    /\ LET s == NewSession IN
          /\ live' = live \cup {s} /\ used' = used \cup {s}
          /\ by' = [by EXCEPT ![s] = req[r].password]
          /\ since' = [since EXCEPT ![s] = removals]
          /\ late' = IF req[r].password # password \/ removed \/ Ending
                     THEN late \cup {s} ELSE late
    /\ Over(r)
    /\ UNCHANGED <<password, removed, unended, linkVars, countVars>>

\* Signing out of one session, or of all.
SignOut ==
    /\ live # {} /\ ~removed
    /\ live' \in {{}} \cup {live \ {s} : s \in live}
    /\ UNCHANGED <<password, removed, used, by, since, late, unended, linkVars, req, countVars>>

----------------------------------------------------------------------------
(***************************************************************************)
(* Changing the password: two statements and no transaction about them; the*)
(* session of the request stays.                                           *)
(***************************************************************************)
ChangeVerify(r) ==
    /\ req[r].at = "idle"
    /\ \E s \in live :
          /\ ~removed /\ password < MaxPasswords
          /\ req' = [req EXCEPT ![r] = [Idle EXCEPT !.at = "set", !.session = s]]
    /\ UNCHANGED <<password, removed, sessionVars, linkVars, countVars>>

\* It waits for a reset that has written the row.
ChangeSet(r) ==
    /\ req[r].at = "set" /\ password < MaxPasswords
    /\ \A q \in Request : req[q].at # "resetCommit"
    /\ password' = password + 1
    /\ by' = [by EXCEPT ![req[r].session] = password']
    /\ req' = [req EXCEPT ![r].at = "others", ![r].password = password']
    /\ UNCHANGED <<removed, live, used, since, late, unended, linkVars, countVars>>

\* Mutant: the session of the request goes and the others stay.
ChangeOwn(r) ==
    /\ req[r].at = "others"
    /\ live' = live \ {req[r].session}
    /\ Over(r)
    /\ UNCHANGED <<password, removed, used, by, since, late, unended, linkVars, countVars>>

\* revokeOtherSessions.
ChangeOthers(r) ==
    /\ req[r].at = "others"
    /\ live' = live \cap {req[r].session}
    /\ Over(r)
    /\ UNCHANGED <<password, removed, used, by, since, late, unended, linkVars, countVars>>

----------------------------------------------------------------------------
(***************************************************************************)
(* Links: a row is locked from claimLink to the commit.                    *)
(***************************************************************************)

\* Mutant: the link is read without its lock.
ReadUnlocked(phases) == TRUE

Unlocked(phases) == \A q \in Request : req[q].at \notin phases

Claim(r, phases, phase) ==
    /\ req[r].at = "idle"
    /\ Unlocked(phases)
    /\ To(r, phase)
    /\ UNCHANGED <<password, removed, sessionVars, linkVars, countVars>>

ResetClaim(r) == ~resetUsed /\ ~removed /\ Claim(r, {"reset", "resetCommit"}, "reset")

ResetEnd(r) ==
    /\ req[r].at = "reset"
    /\ req' = [req EXCEPT ![r].at = "resetCommit", ![r].ends = live]
    /\ UNCHANGED <<password, removed, sessionVars, linkVars, countVars>>

ResetCommit(r) ==
    /\ req[r].at = "resetCommit" /\ password < MaxPasswords
    /\ password' = password + 1
    /\ live' = live \ req[r].ends
    /\ resetUsed' = TRUE /\ resets' = resets + 1
    /\ req' = [req EXCEPT ![r] = [Idle EXCEPT !.at = "start", !.password = password']]
    /\ UNCHANGED <<removed, used, by, since, late, unended, invite, removals, joins>>

Join(r) ==
    invite.uses < MaxUses /\ ~invite.revoked /\ Claim(r, {"join"}, "join")

JoinCommit(r) ==
    /\ req[r].at = "join"
    /\ invite' = [invite EXCEPT !.uses = @ + 1]
    /\ joins' = joins + 1
    /\ Over(r)
    /\ UNCHANGED <<password, removed, sessionVars, resetUsed, removals, resets>>

\* The update waits for the row's lock and finds it as it is then.
RevokeInvite ==
    /\ Unlocked({"join"})
    /\ invite.uses < MaxUses
    /\ invite' = [invite EXCEPT !.revoked = TRUE]
    /\ UNCHANGED <<password, removed, sessionVars, resetUsed, req, countVars>>

----------------------------------------------------------------------------
(***************************************************************************)
(* Removing and restoring the member.                                      *)
(***************************************************************************)
Remove(r) == removals < MaxRemovals /\ Claim(r, {"remove", "removeCommit"}, "remove")

RemoveEnd(r) ==
    /\ req[r].at = "remove"
    /\ req' = [req EXCEPT ![r].at = "removeCommit", ![r].ends = live]
    /\ UNCHANGED <<password, removed, sessionVars, linkVars, countVars>>

RemoveCommit(r) ==
    /\ req[r].at = "removeCommit" /\ removals < MaxRemovals
    /\ removed' = TRUE /\ removals' = removals + 1
    /\ live' = live \ req[r].ends
    /\ Over(r)
    /\ UNCHANGED <<password, used, by, since, late, unended, linkVars, resets, joins>>

Restore ==
    /\ removed
    /\ removed' = FALSE
    /\ UNCHANGED <<password, sessionVars, linkVars, req, countVars>>

\* A statement fails, or the process dies: a transaction is rolled back, and what
\* other requests have written stays.
Fail(r) ==
    /\ req[r].at # "idle"
    /\ unended' = IF req[r].at = "others" THEN unended \cup {req[r].password} ELSE unended
    /\ Over(r)
    /\ UNCHANGED <<password, removed, live, used, by, since, late, linkVars, countVars>>

RequestStep(r) ==
    \/ Verify(r) \/ StartSession(r)
    \/ ChangeVerify(r) \/ ChangeSet(r) \/ ChangeOthers(r)
    \/ ResetClaim(r) \/ ResetEnd(r) \/ ResetCommit(r)
    \/ Join(r) \/ JoinCommit(r)
    \/ Remove(r) \/ RemoveEnd(r) \/ RemoveCommit(r)
    \/ Fail(r)

Next == SignOut \/ RevokeInvite \/ Restore \/ \E r \in Request : RequestStep(r)

Spec == Init /\ [][Next]_vars

----------------------------------------------------------------------------
(***************************************************************************)
(* Properties.                                                             *)
(***************************************************************************)

\* The session outlives the password of that number because the request that set it
\* has not ended the other sessions yet, or failed before it did.
Outlives(s, number) ==
    \/ number \in unended
    \/ \E r \in Request :
          req[r].at = "others" /\ req[r].password = number /\ req[r].session # s

\* A new password and a removal end the sessions there were, the one that made
\* the change left out, so that none comes back when the member is restored
\* (acceptReset, disableMember, "every session they have ends now"). Two kinds are
\* left: those of a sign-in that was overtaken between its check and its session,
\* and those that outlive a change of the password, whose second statement is
\* missing (auth.ts:574-575). No reset and no removal leaves one of the second kind.
SessionsEnd ==
    \A s \in live \ late :
        /\ since[s] = removals
        /\ \A number \in by[s] + 1 .. password : Outlives(s, number)

\* Two browsers that use one link at once do not both succeed: a reset link
\* resets once, and as many people join with an invite as it counts, no more
\* than it is for (claimLink).
LinksAreCounted == resets <= 1 /\ joins = invite.uses /\ joins <= MaxUses
=============================================================================
