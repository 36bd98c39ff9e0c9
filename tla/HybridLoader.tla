---------------------------- MODULE HybridLoader ----------------------------
(***************************************************************************)
(* The player's hybrid loader: every media segment is loaded from Sia or   *)
(* through the gateway. The loaders of one class share which objects are   *)
(* warm, one slot for a read from Sia, and a count of failures that pauses *)
(* Sia. A read that is cut off, aborted or destroyed goes on in the        *)
(* background until its next step, which must change nothing any more.     *)
(***************************************************************************)
EXTENDS Naturals

CONSTANTS
    Loader,      \* loaders hls.js makes, one for each segment
    Segment,     \* the objects the segments are stored in
    MaxFailures  \* policy.maxFailures

\* A count of failures that pauses Sia; TLC checks it where a run gives it a value.
LoaderAssumption == MaxFailures \in Nat \ {0}

VARIABLES
    session,   \* prepared: the session is unprepared, being prepared, or ready
    warm,      \* of each object: cold, waiting for the session, being read, or warm
    siaBusy,   \* whether the slot is taken
    failures,  \* failures in a row
    paused,    \* whether pausedUntil is to come
    load,      \* of each loader: where its segment comes from, or how that ended
    object,    \* the object of each
    read,      \* its function that reads from Sia, which outlives its load
    answers    \* history: how often hls.js was called back

vars == <<session, warm, siaBusy, failures, paused, load, object, read, answers>>

TypeOK ==
    /\ session \in {"unprepared", "preparing", "ready"}
    /\ warm \in [Segment -> {"cold", "waiting", "reading", "warm"}]
    /\ siaBusy \in BOOLEAN /\ paused \in BOOLEAN
    /\ failures \in 0 .. MaxFailures - 1
    /\ load \in [Loader -> {"new", "sia", "gateway", "loaded", "failed", "aborted", "destroyed"}]
    /\ object \in [Loader -> Segment]
    /\ read \in [Loader -> {"none", "resolving", "streaming"}]
    /\ answers \in [Loader -> Nat]

Init ==
    /\ session = "unprepared"
    /\ warm = [o \in Segment |-> "cold"]
    /\ siaBusy = FALSE /\ paused = FALSE
    /\ failures = 0
    /\ load = [l \in Loader |-> "new"]
    /\ object \in [Loader -> Segment]
    /\ read = [l \in Loader |-> "none"]
    /\ answers = [l \in Loader |-> 0]

NoteFailure ==
    IF failures + 1 < MaxFailures
    THEN failures' = failures + 1 /\ UNCHANGED paused
    ELSE failures' = 0 /\ paused' = TRUE

Ends(l, how) == load' = [load EXCEPT ![l] = how]
Answer(l) == answers' = [answers EXCEPT ![l] = @ + 1]

----------------------------------------------------------------------------
(***************************************************************************)
(* Warming an object up.                                                   *)
(***************************************************************************)

\* The part of warmUp before it first waits, the call of prepare included.
StartWarmUp(o) ==
    IF warm[o] = "cold" /\ ~paused
    THEN /\ warm' = [warm EXCEPT ![o] = IF session = "ready" THEN "reading" ELSE "waiting"]
         /\ session' = IF session = "unprepared" THEN "preparing" ELSE session
    ELSE UNCHANGED <<warm, session>>

\* The session connected, or did not: every warm-up that waits for it goes on.
Waiting(becomes) ==
    warm' = [o \in Segment |-> IF warm[o] = "waiting" THEN becomes ELSE warm[o]]

Prepared ==
    /\ session = "preparing"
    /\ session' = "ready"
    /\ Waiting("reading")
    /\ UNCHANGED <<siaBusy, failures, paused, load, object, read, answers>>

PrepareFails ==
    /\ session = "preparing"
    /\ session' = "unprepared"
    /\ paused' = TRUE
    /\ Waiting("cold")
    /\ UNCHANGED <<siaBusy, failures, load, object, read, answers>>

WarmUpEnds(o) ==
    /\ warm[o] = "reading"
    /\ \/ warm' = [warm EXCEPT ![o] = "warm"] /\ UNCHANGED <<failures, paused>>
       \/ warm' = [warm EXCEPT ![o] = "cold"] /\ NoteFailure
    /\ UNCHANGED <<session, siaBusy, load, object, read, answers>>

----------------------------------------------------------------------------
(***************************************************************************)
(* A load.                                                                 *)
(***************************************************************************)

SiaReady(l) == ~siaBusy /\ ~paused /\ warm[object[l]] = "warm"

\* The buffer may hold enough, or not.
Load(l) ==
    /\ load[l] = "new"
    /\ StartWarmUp(object[l])
    /\ \/ /\ SiaReady(l)
          /\ Ends(l, "sia")
          /\ siaBusy' = TRUE
          /\ read' = [read EXCEPT ![l] = "resolving"]
       \/ /\ Ends(l, "gateway")
          /\ UNCHANGED <<siaBusy, read>>
    /\ UNCHANGED <<failures, paused, object, answers>>

\* hls.js's own loader, through the gateway.
GatewayAnswers(l) ==
    /\ load[l] = "gateway"
    /\ \E how \in {"loaded", "failed"} : Ends(l, how)
    /\ Answer(l)
    /\ UNCHANGED <<session, warm, siaBusy, failures, paused, object, read>>

\* Mutant: a failure whose load is over falls back all the same.
FallBackAnyway(l) ==
    /\ siaBusy' = FALSE
    /\ NoteFailure
    /\ Ends(l, "gateway")

\* The slot is free again, and the gateway loads the segment.
FallBack(l) ==
    IF load[l] = "sia"
    THEN siaBusy' = FALSE /\ NoteFailure /\ Ends(l, "gateway")
    ELSE UNCHANGED <<siaBusy, failures, paused, load>>

\* The timer, which ends with the load.
CutOff(l) ==
    /\ load[l] = "sia"
    /\ FallBack(l)
    /\ UNCHANGED <<session, warm, object, read, answers>>

\* The read's own steps. One whose load is over stops at the next.
Resolves(l) ==
    /\ read[l] = "resolving"
    /\ read' = [read EXCEPT ![l] = IF load[l] = "sia" THEN "streaming" ELSE "none"]
    /\ UNCHANGED <<session, warm, siaBusy, failures, paused, load, object, answers>>

StreamEnds(l) ==
    /\ read[l] = "streaming"
    /\ read' = [read EXCEPT ![l] = "none"]
    /\ IF load[l] = "sia"
       THEN siaBusy' = FALSE /\ failures' = 0 /\ Ends(l, "loaded") /\ Answer(l)
       ELSE UNCHANGED <<siaBusy, failures, load, answers>>
    /\ UNCHANGED <<session, warm, paused, object>>

ReadFails(l) ==
    /\ read[l] # "none"
    /\ read' = [read EXCEPT ![l] = "none"]
    /\ FallBack(l)
    /\ UNCHANGED <<session, warm, object, answers>>

----------------------------------------------------------------------------
(***************************************************************************)
(* hls.js gives a load up, and time.                                       *)
(***************************************************************************)
Loading(l) == load[l] \in {"sia", "gateway"}

Cancel(l) == siaBusy' = IF load[l] = "sia" THEN FALSE ELSE siaBusy

Abort(l) ==
    /\ Loading(l)
    /\ Cancel(l)
    /\ Ends(l, "aborted")
    /\ Answer(l)
    /\ UNCHANGED <<session, warm, failures, paused, object, read>>

Destroy(l) ==
    /\ load[l] # "destroyed"
    /\ Cancel(l)
    /\ Ends(l, "destroyed")
    /\ UNCHANGED <<session, warm, failures, paused, object, read, answers>>

PauseEnds ==
    /\ paused
    /\ paused' = FALSE
    /\ UNCHANGED <<session, warm, siaBusy, failures, load, object, read, answers>>

Next ==
    \/ Prepared \/ PrepareFails \/ PauseEnds
    \/ \E o \in Segment : WarmUpEnds(o)
    \/ \E l \in Loader : \/ Load(l) \/ GatewayAnswers(l) \/ CutOff(l)
                         \/ Resolves(l) \/ StreamEnds(l) \/ ReadFails(l)
                         \/ Abort(l) \/ Destroy(l)

Spec == Init /\ [][Next]_vars

----------------------------------------------------------------------------
(***************************************************************************)
(* Properties.                                                             *)
(***************************************************************************)

\* The slot is taken exactly while one load is reading from Sia, however its reads
\* are cut off, aborted or late: no miscount shuts the path from Sia for good, and
\* none opens it twice ("one sia read at a time").
SlotIsOneRead ==
    /\ siaBusy <=> \E l \in Loader : load[l] = "sia"
    /\ \A l, m \in Loader : load[l] = "sia" /\ load[m] = "sia" => l = m

\* hls.js is called back once for each load, by Sia or the gateway, and not at all
\* for one that it destroyed first: a late step of a read that was given up does
\* not answer a second time, nor start the gateway again.
LoadsAnswerOnce ==
    \A l \in Loader :
        /\ answers[l] <= 1
        /\ load[l] \in {"new", "sia", "gateway"} => answers[l] = 0
        /\ load[l] \in {"loaded", "failed", "aborted"} => answers[l] = 1

\* Both: a segment has one source at a time and one answer.
SegmentsComeOnce == SlotIsOneRead /\ LoadsAnswerOnce
=============================================================================
