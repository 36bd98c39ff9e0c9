-------------------------- MODULE WebhookDelivery --------------------------
(***************************************************************************)
(* The deliveries of one webhook endpoint: the event that is queued for it *)
(* if it is active, the worker that sends it with its tries, the log of    *)
(* the attempts, and resends from the log, while the endpoint is paused,   *)
(* resumed, deleted and given a new secret. The queue may take a running   *)
(* delivery for stalled and give it out again.                             *)
(***************************************************************************)
EXTENDS Naturals, Sequences, FiniteSets

CONSTANTS
    Delivery,     \* delivery ids; the first is the event's, the others are resends
    Event,        \* the first of them
    Execution,    \* executions of the worker
    None,         \* no delivery or execution
    Attempts,     \* tries of a job
    MaxOpen,      \* bound: deliveries that are queued or running at once
    MaxRotations, \* bound: new secrets
    MaxFaults     \* bound: failed calls, stalled jobs and restarts, together

\* What the constants must be.
WebhookAssumption ==
    /\ Attempts \in Nat \ {0} /\ MaxRotations \in Nat /\ MaxFaults \in Nat
    /\ Event \in Delivery /\ None \notin Execution \cup Delivery

VARIABLES
    endpoint,    \* the row: active, paused or deleted
    secret,      \* its secret, by number; the receiver verifies with the newest
    dispatch,    \* the dispatcher of the event
    resend,      \* the request that sends one again: the payload it read, or None
    job,         \* the queue's jobs
    made,        \* attemptsMade of each
    stalls,      \* how often each was taken for stalled
    holder,      \* the execution that holds each job's lock
    doing,       \* what each execution is at
    log,         \* the rows of each delivery, oldest first
    acks,        \* history: 2xx answers the worker saw
    unlogged,    \* history: whether an insert of its rows failed
    unread,      \* history: its tries that ended because the endpoint was not read
    faults

queueVars == <<job, made, stalls, holder>>
endpointVars == <<endpoint, secret>>
historyVars == <<acks, unlogged, unread>>
vars == <<endpointVars, dispatch, resend, queueVars, doing, log, historyVars, faults>>

Idle == [at |-> "idle", of |-> None, retry |-> 0, key |-> 0, ok |-> FALSE]

TypeOK ==
    /\ endpoint \in {"active", "paused", "deleted"}
    /\ secret \in 0 .. MaxRotations
    /\ dispatch \in {"before", "found", "over"}
    /\ resend \in BOOLEAN
    /\ job \in [Delivery -> {"none", "waiting", "running", "done", "failed"}]
    /\ made \in [Delivery -> 0 .. Attempts]
    /\ stalls \in [Delivery -> 0 .. MaxFaults]
    /\ holder \in [Delivery -> Execution \cup {None}]
    /\ \A d \in Delivery : holder[d] # None <=> job[d] = "running"
    /\ doing \in [Execution ->
           [at : {"read", "post", "record", "settle"}, of : Delivery,
            retry : 0 .. Attempts - 1, key : 0 .. MaxRotations, ok : BOOLEAN] \cup {Idle}]
    /\ log \in [Delivery -> Seq([retry : 0 .. Attempts - 1, ok : BOOLEAN])]
    /\ acks \in [Delivery -> Nat]
    /\ unlogged \in [Delivery -> BOOLEAN]
    /\ unread \in [Delivery -> SUBSET (0 .. Attempts - 1)]
    /\ faults \in 0 .. MaxFaults

Init ==
    /\ endpoint = "active" /\ secret = 0
    /\ dispatch = "before" /\ resend = FALSE
    /\ job = [d \in Delivery |-> "none"]
    /\ made = [d \in Delivery |-> 0] /\ stalls = [d \in Delivery |-> 0]
    /\ holder = [d \in Delivery |-> None]
    /\ doing = [e \in Execution |-> Idle]
    /\ log = [d \in Delivery |-> <<>>]
    /\ acks = [d \in Delivery |-> 0]
    /\ unlogged = [d \in Delivery |-> FALSE] /\ unread = [d \in Delivery |-> {}]
    /\ faults = 0

Fault == faults < MaxFaults /\ faults' = faults + 1
NoFault == UNCHANGED faults

Add(d) == job[d] = "none" /\ job' = [job EXCEPT ![d] = "waiting"]

----------------------------------------------------------------------------
(***************************************************************************)
(* The account's requests on the endpoint.                                 *)
(***************************************************************************)
SetActive ==
    /\ endpoint # "deleted"
    /\ endpoint' = IF endpoint = "active" THEN "paused" ELSE "active"
    /\ UNCHANGED <<secret, dispatch, resend, queueVars, doing, log, historyVars, faults>>

RotateSecret ==
    /\ endpoint # "deleted"
    /\ secret < MaxRotations
    /\ secret' = secret + 1
    /\ UNCHANGED <<endpoint, dispatch, resend, queueVars, doing, log, historyVars, faults>>

\* The rows of the log go with the endpoint; its jobs stay queued.
DeleteEndpoint ==
    /\ endpoint # "deleted"
    /\ endpoint' = "deleted"
    /\ log' = [d \in Delivery |-> <<>>]
    /\ UNCHANGED <<secret, dispatch, resend, queueVars, doing, historyVars, faults>>

----------------------------------------------------------------------------
(***************************************************************************)
(* What is queued: the event, and the payload of a row that is sent again. *)
(***************************************************************************)
FindEndpoints ==
    /\ dispatch = "before"
    /\ dispatch' = IF endpoint = "active" THEN "found" ELSE "over"
    /\ UNCHANGED <<endpointVars, resend, queueVars, doing, log, historyVars, faults>>

\* An emitter that fails is logged by its caller, whether or not the job was added.
AddBulk ==
    /\ dispatch = "found"
    /\ \/ Add(Event) /\ (NoFault \/ Fault)
       \/ Fault /\ UNCHANGED job
    /\ dispatch' = "over"
    /\ UNCHANGED <<endpointVars, resend, made, stalls, holder, doing, log, historyVars>>

\* redeliverWebhook reads the endpoint and a row of its log.
ResendRead ==
    /\ ~resend
    /\ endpoint = "active"
    /\ \E d \in Delivery : log[d] # <<>>
    /\ resend' = TRUE
    /\ UNCHANGED <<endpointVars, dispatch, queueVars, doing, log, historyVars, faults>>

\* A delivery of its own, of an id that is new.
ResendAdd ==
    /\ resend
    /\ Cardinality({d \in Delivery : job[d] \in {"waiting", "running"}}) < MaxOpen
    /\ \E d \in Delivery \ {Event} : Add(d)
    /\ resend' = FALSE
    /\ UNCHANGED <<endpointVars, dispatch, made, stalls, holder, doing, log, historyVars,
                   faults>>

----------------------------------------------------------------------------
(***************************************************************************)
(* The worker.                                                             *)
(***************************************************************************)
Goes(e, from, to) == doing[e].at = from /\ doing' = [doing EXCEPT ![e] = to]

\* The queue accepts the end of a job only from the holder of its lock.
SettleJob(e, d, state, tries) ==
    IF holder[d] = e
    THEN /\ job' = [job EXCEPT ![d] = state]
         /\ made' = [made EXCEPT ![d] = tries]
         /\ holder' = [holder EXCEPT ![d] = None]
    ELSE UNCHANGED <<job, made, holder>>

Take(e, d) ==
    /\ job[d] = "waiting"
    /\ job' = [job EXCEPT ![d] = "running"]
    /\ holder' = [holder EXCEPT ![d] = e]
    /\ Goes(e, "idle", [Idle EXCEPT !.at = "read", !.of = d, !.retry = made[d]])
    /\ UNCHANGED <<endpointVars, dispatch, resend, made, stalls, log, historyVars, faults>>

\* What becomes of a job whose try threw: it waits for its next try, if any.
Retried(d) == IF made[d] + 1 < Attempts THEN "waiting" ELSE "failed"

\* The endpoint as it is now. If it is paused or deleted, the delivery is dropped; if
\* it cannot be read, the try is over, and nothing tells of it.
ReadEndpoint(e) ==
    LET d == doing[e].of
    IN  /\ \/ /\ endpoint = "active"
              /\ Goes(e, "read", [doing[e] EXCEPT !.at = "post", !.key = secret])
              /\ UNCHANGED <<job, made, holder, unread>> /\ NoFault
           \/ /\ endpoint # "active"
              /\ Goes(e, "read", Idle)
              /\ SettleJob(e, d, "done", made[d])
              /\ UNCHANGED unread /\ NoFault
           \/ /\ Goes(e, "read", Idle)
              /\ SettleJob(e, d, Retried(d), made[d] + 1)
              /\ unread' = [unread EXCEPT ![d] = @ \cup {doing[e].retry}]
              /\ Fault
        /\ UNCHANGED <<endpointVars, dispatch, resend, stalls, log, acks, unlogged>>

\* The receiver refuses an old secret; it may refuse or not answer for reasons
\* of its own.
Post(e) ==
    LET d == doing[e].of
        old == doing[e].key # secret
    IN  /\ \E ok \in IF old THEN {FALSE} ELSE BOOLEAN :
              /\ Goes(e, "post", [doing[e] EXCEPT !.at = "record", !.ok = ok])
              /\ acks' = [acks EXCEPT ![d] = @ + (IF ok THEN 1 ELSE 0)]
        /\ UNCHANGED <<endpointVars, dispatch, resend, queueVars, log, unlogged, unread,
                       faults>>

\* A row needs its endpoint; one that cannot be inserted is only logged. The
\* number is attemptsMade as the execution was given it.
Record(e) ==
    LET d == doing[e].of
        row == [retry |-> doing[e].retry, ok |-> doing[e].ok]
    IN  /\ doing[e].at = "record"
        /\ \/ /\ endpoint # "deleted"
              /\ log' = [log EXCEPT ![d] = Append(@, row)]
              /\ NoFault
              /\ UNCHANGED unlogged
           \/ /\ (endpoint = "deleted" /\ NoFault) \/ Fault
              /\ unlogged' = [unlogged EXCEPT ![d] = TRUE]
              /\ UNCHANGED log
        /\ Goes(e, "record", [doing[e] EXCEPT !.at = "settle"])
        /\ UNCHANGED <<endpointVars, dispatch, resend, queueVars, acks, unread>>

\* Mutant: a try more than the queue was told.
SettleOnceMore(e) ==
    LET d == doing[e].of
        next == IF doing[e].ok THEN "done"
                ELSE IF made[d] < Attempts THEN "waiting" ELSE "failed"
    IN  /\ Goes(e, "settle", Idle)
        /\ SettleJob(e, d, next, made[d] + 1)
        /\ UNCHANGED <<endpointVars, dispatch, resend, stalls, log, historyVars, faults>>

\* Mutant: a failure that is not retried.
SettleGivesUp(e) ==
    LET d == doing[e].of IN
    /\ Goes(e, "settle", Idle)
    /\ SettleJob(e, d, IF doing[e].ok THEN "done" ELSE "failed", made[d] + 1)
    /\ UNCHANGED <<endpointVars, dispatch, resend, stalls, log, historyVars, faults>>

\* A delivered job is done; one that threw waits for its next try, if any.
Settle(e) ==
    LET d == doing[e].of IN
    /\ Goes(e, "settle", Idle)
    /\ SettleJob(e, d, IF doing[e].ok THEN "done" ELSE Retried(d), made[d] + 1)
    /\ UNCHANGED <<endpointVars, dispatch, resend, stalls, log, historyVars, faults>>

\* Mutant: a job of an execution that is gone stays with it.
StallOfLiving(d) ==
    /\ job[d] = "running" /\ doing[holder[d]].of = d
    /\ Fault
    /\ stalls' = [stalls EXCEPT ![d] = IF @ < MaxFaults THEN @ + 1 ELSE @]
    /\ job' = [job EXCEPT ![d] = IF stalls[d] = 0 THEN "waiting" ELSE "failed"]
    /\ holder' = [holder EXCEPT ![d] = None]
    /\ UNCHANGED <<endpointVars, dispatch, resend, made, doing, log, historyVars>>

\* The queue gives a job out again whose lock was not renewed, and fails it the
\* second time. Its execution may be dead or go on.
Stall(d) ==
    /\ job[d] = "running"
    /\ \/ /\ doing[holder[d]].of = d /\ Fault
       \/ /\ doing[holder[d]].of # d /\ NoFault
    /\ stalls' = [stalls EXCEPT ![d] = IF @ < MaxFaults THEN @ + 1 ELSE @]
    /\ job' = [job EXCEPT ![d] = IF stalls[d] = 0 THEN "waiting" ELSE "failed"]
    /\ holder' = [holder EXCEPT ![d] = None]
    /\ UNCHANGED <<endpointVars, dispatch, resend, made, doing, log, historyVars>>

\* The process restarts, the worker and the requests with it.
Restart ==
    /\ Fault
    /\ doing' = [e \in Execution |-> Idle]
    /\ dispatch' = "over" /\ resend' = FALSE
    /\ UNCHANGED <<endpointVars, queueVars, log, historyVars>>

ExecutionStep(e) == ReadEndpoint(e) \/ Post(e) \/ Record(e) \/ Settle(e)

Next ==
    \/ SetActive \/ RotateSecret \/ DeleteEndpoint
    \/ FindEndpoints \/ AddBulk
    \/ ResendRead \/ ResendAdd
    \/ \E e \in Execution : ExecutionStep(e) \/ \E d \in Delivery : Take(e, d)
    \/ \E d \in Delivery : Stall(d)
    \/ Restart

Fairness ==
    /\ WF_vars(AddBulk) /\ WF_vars(ResendAdd)
    /\ \A e \in Execution : WF_vars(ExecutionStep(e))
    /\ \A d \in Delivery :
          WF_vars(\E e \in Execution : Take(e, d)) /\ WF_vars(Stall(d) /\ NoFault)

Spec == Init /\ [][Next]_vars /\ Fairness

----------------------------------------------------------------------------
(***************************************************************************)
(* Properties.                                                             *)
(***************************************************************************)

\* A delivery the receiver acknowledged is sent again only if the queue took
\* its job for stalled: not because its row could not be inserted, nor because
\* the endpoint changed or was deleted meanwhile (deliver, "retrying a delivered
\* webhook because its log row failed would send it twice").
RepeatNeedsAStall == \A d \in Delivery : acks[d] > 1 => stalls[d] > 0

\* The log of a delivery tells how it went: each try the queue counted has one row,
\* in their order, the last one acknowledged exactly if the receiver acknowledged any,
\* and a delivery that failed for good used every try. Only a stalled job, a row that
\* was not inserted or the deletion of the endpoint leaves it otherwise; and a try
\* whose endpoint could not be read (delivery.ts:153) counts and has no row.
LogTellsAll ==
    \A d \in Delivery :
        job[d] \in {"waiting", "done", "failed"} /\ stalls[d] = 0 /\ ~unlogged[d]
        /\ endpoint # "deleted" =>
            /\ {log[d][i].retry : i \in DOMAIN log[d]} = (0 .. made[d] - 1) \ unread[d]
            /\ \A i, j \in DOMAIN log[d] : i < j => log[d][i].retry < log[d][j].retry
            /\ \A i \in DOMAIN log[d] : log[d][i].ok <=> i = Len(log[d]) /\ acks[d] > 0
            /\ acks[d] > 0 => log[d] # <<>>
            /\ job[d] = "failed" => made[d] = Attempts /\ acks[d] = 0

\* A queued delivery ends: it is sent, dropped or given up, though executions
\* die and the endpoint is paused and resumed for ever.
DeliveryEnds == \A d \in Delivery : job[d] = "waiting" ~> job[d] \in {"done", "failed"}
=============================================================================
