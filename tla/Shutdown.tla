------------------------------ MODULE Shutdown ------------------------------
(***************************************************************************)
(* The shutdown of a server and the plays it counts: HTTP and the workers  *)
(* drain together, then the queues close, the play counter writes what it  *)
(* has buffered, and the database closes. A client may go away while its   *)
(* request is handled, a write may fail, a close may be refused, and the   *)
(* deadline may come at any moment.                                        *)
(***************************************************************************)
EXTENDS Naturals

CONSTANTS Request, Job

VARIABLES
    phase,     \* how far the shutdown is: what it awaits
    crashed,   \* whether its reason was a crash
    exit,      \* how the process exited, or that it has not
    httpDone,  \* closeServer has resolved
    jobsDone,  \* closeWorkers has
    handler,   \* of each request: whether its handler is to come, runs, or has ended
    conn,      \* whether its client is connected
    job,       \* of each job: whether it is to come, runs, or has ended
    counted,   \* history: the requests that counted a play
    unheard,   \* history: those of them whose client had gone away by then
    pending,   \* the plays in the buffer
    writing,   \* the batches being written
    last,      \* the batch that stop awaits
    told      \* the plays that were written, or reported as lost

work == <<handler, conn, job>>
plays == <<counted, unheard, pending, writing, last, told>>
vars == <<phase, crashed, exit, httpDone, jobsDone, work, plays>>

Phases == {"up", "draining", "queues", "plays", "database", "over"}

TypeOK ==
    /\ phase \in Phases /\ crashed \in BOOLEAN /\ exit \in {"none", "clean", "failed"}
    /\ httpDone \in BOOLEAN /\ jobsDone \in BOOLEAN
    /\ handler \in [Request -> {"new", "running", "ended"}]
    /\ conn \in [Request -> BOOLEAN]
    /\ job \in [Job -> {"new", "running", "ended"}]
    /\ counted \subseteq Request /\ unheard \subseteq counted
    /\ pending \subseteq Request /\ told \subseteq Request
    /\ writing \subseteq SUBSET Request /\ last \subseteq Request

Init ==
    /\ phase = "up" /\ crashed = FALSE /\ exit = "none"
    /\ httpDone = FALSE /\ jobsDone = FALSE
    /\ handler = [r \in Request |-> "new"] /\ conn = [r \in Request |-> FALSE]
    /\ job = [j \in Job |-> "new"]
    /\ counted = {} /\ unheard = {} /\ pending = {} /\ writing = {} /\ last = {}
    /\ told = {}

Running == exit = "none"

----------------------------------------------------------------------------
(***************************************************************************)
(* Requests, jobs and plays.                                               *)
(***************************************************************************)

\* On a new connection while the server listens, or on one that is kept alive.
Arrive(r) ==
    /\ Running /\ handler[r] = "new"
    /\ \/ phase = "up"
       \/ phase = "draining" /\ \E q \in Request : conn[q]
    /\ handler' = [handler EXCEPT ![r] = "running"]
    /\ conn' = [conn EXCEPT ![r] = TRUE]
    /\ UNCHANGED <<phase, crashed, exit, httpDone, jobsDone, job, plays>>

\* The handler counts a play (record).
Count(r) ==
    /\ Running /\ handler[r] = "running" /\ r \notin counted
    /\ counted' = counted \cup {r}
    /\ unheard' = IF conn[r] THEN unheard ELSE unheard \cup {r}
    /\ pending' = pending \cup {r}
    /\ UNCHANGED <<phase, crashed, exit, httpDone, jobsDone, work, writing, last, told>>

\* The handler has answered, and its connection ends.
Answer(r) ==
    /\ Running /\ handler[r] = "running"
    /\ handler' = [handler EXCEPT ![r] = "ended"]
    /\ conn' = [conn EXCEPT ![r] = FALSE]
    /\ UNCHANGED <<phase, crashed, exit, httpDone, jobsDone, job, plays>>

\* The client goes away; the handler goes on.
GoAway(r) ==
    /\ Running /\ conn[r]
    /\ conn' = [conn EXCEPT ![r] = FALSE]
    /\ UNCHANGED <<phase, crashed, exit, httpDone, jobsDone, handler, job, plays>>

\* A worker takes jobs until it is told to close.
TakeJob(j) ==
    /\ Running /\ phase = "up" /\ job[j] = "new"
    /\ job' = [job EXCEPT ![j] = "running"]
    /\ UNCHANGED <<phase, crashed, exit, httpDone, jobsDone, handler, conn, plays>>

EndJob(j) ==
    /\ Running /\ job[j] = "running"
    /\ job' = [job EXCEPT ![j] = "ended"]
    /\ UNCHANGED <<phase, crashed, exit, httpDone, jobsDone, handler, conn, plays>>

\* flush: the buffer is swapped for an empty one and written.
Swap ==
    /\ pending' = {}
    /\ writing' = IF pending = {} THEN writing ELSE writing \cup {pending}

\* The counter's timer, until stop clears it.
Flush ==
    /\ Running /\ phase \in {"up", "draining", "queues"} /\ pending # {}
    /\ Swap
    /\ UNCHANGED <<phase, crashed, exit, httpDone, jobsDone, work, counted, unheard, last, told>>

\* A batch was written, or its error was reported with it.
Written(b) ==
    /\ Running /\ b \in writing
    /\ writing' = writing \ {b}
    /\ told' = told \cup b
    /\ UNCHANGED <<phase, crashed, exit, httpDone, jobsDone, work, counted, unheard, pending, last>>

----------------------------------------------------------------------------
(***************************************************************************)
(* Mutants: slips of the code that the properties must notice. No action   *)
(* of the specification uses them.                                         *)
(***************************************************************************)

\* The counter is stopped without a last flush.
OnlyTimer == last' = {} /\ UNCHANGED <<pending, writing>>

----------------------------------------------------------------------------
(***************************************************************************)
(* The shutdown.                                                           *)
(***************************************************************************)

\* A signal, or with crash an error nobody caught; only the first one does anything.
Begin(crash) ==
    /\ Running /\ phase = "up"
    /\ phase' = "draining" /\ crashed' = crash
    /\ UNCHANGED <<exit, httpDone, jobsDone, work, plays>>

\* Every connection has ended.
HttpCloses ==
    /\ Running /\ phase = "draining" /\ ~httpDone
    /\ \A r \in Request : ~conn[r]
    /\ httpDone' = TRUE
    /\ UNCHANGED <<phase, crashed, exit, jobsDone, work, plays>>

WorkersClose ==
    /\ Running /\ phase = "draining" /\ ~jobsDone
    /\ \A j \in Job : job[j] # "running"
    /\ jobsDone' = TRUE
    /\ UNCHANGED <<phase, crashed, exit, httpDone, work, plays>>

\* Both have drained, and the queues are told to close.
Drained ==
    /\ Running /\ phase = "draining" /\ httpDone /\ jobsDone
    /\ phase' = "queues"
    /\ UNCHANGED <<crashed, exit, httpDone, jobsDone, work, plays>>

\* playCounter.stop: the timer is cleared and the buffer written.
StopCounter == Swap /\ last' = pending

QueuesClose ==
    /\ Running /\ phase = "queues"
    /\ phase' = "plays"
    /\ StopCounter
    /\ UNCHANGED <<crashed, exit, httpDone, jobsDone, work, counted, unheard, told>>

CounterStopped ==
    /\ Running /\ phase = "plays" /\ last \notin writing
    /\ phase' = "database"
    /\ UNCHANGED <<crashed, exit, httpDone, jobsDone, work, plays>>

\* The pool ends after the queries it runs.
DatabaseCloses ==
    /\ Running /\ phase = "database" /\ writing = {}
    /\ phase' = "over"
    /\ exit' = IF crashed THEN "failed" ELSE "clean"
    /\ UNCHANGED <<crashed, httpDone, jobsDone, work, plays>>

\* Something could not be closed, or the deadline came.
GiveUp ==
    /\ Running /\ phase # "up"
    /\ phase' = "over" /\ exit' = "failed"
    /\ UNCHANGED <<crashed, httpDone, jobsDone, work, plays>>

Next ==
    \/ \E r \in Request : Arrive(r) \/ Count(r) \/ Answer(r) \/ GoAway(r)
    \/ \E j \in Job : TakeJob(j) \/ EndJob(j)
    \/ Flush \/ \E b \in writing : Written(b)
    \/ \E crash \in BOOLEAN : Begin(crash)
    \/ HttpCloses \/ WorkersClose \/ Drained \/ QueuesClose \/ CounterStopped
    \/ DatabaseCloses \/ GiveUp

Spec == Init /\ [][Next]_vars

----------------------------------------------------------------------------
(***************************************************************************)
(* Properties.                                                             *)
(***************************************************************************)

\* A process that exits cleanly has written every play it counted, or reported it as
\* lost; only a play counted for a client that had gone away may be missing, since the
\* server does not wait for its handler ("http has drained by now, so the last plays
\* are in the buffer").
PlaysAreTold == exit = "clean" => counted \ unheard \subseteq told

\* While a client waits or a job runs, the queues and the database are open, unless
\* the process is over ("HTTP and the workers drain together, then the queues and the
\* database pool close").
WorkFindsItOpen ==
    (\E r \in Request : conn[r]) \/ (\E j \in Job : job[j] = "running")
        => phase \in {"up", "draining", "over"}
=============================================================================
