--------------------------- MODULE MCLiveServices ---------------------------
(***************************************************************************)
(* Small instances of the services with liveness properties, and of the    *)
(* gateway, side by side: a behaviour is one of UploadSessions, one of     *)
(* WebhookDelivery or one of Delivery, as the variable part says from its  *)
(* start, and the others do not move.                                      *)
(***************************************************************************)
EXTENDS Delivery, Naturals, Sequences, FiniteSets

CONSTANTS MaxUploadFaults, Delivery, Event, Execution, None, Attempts, MaxOpen,
          MaxRotations, MaxDeliveryFaults

VARIABLES
    part,
    past, session, asset, file, creating, receiving, finishing, rest, tus, sweep, listed,
    deletion, job, uploadFaults, slips,
    endpoint, secret, dispatch, resend, deliveryJob, made, stalls, holder, doing, log, acks,
    unlogged, unread, deliveryFaults

U == INSTANCE UploadSessions WITH MaxFaults <- MaxUploadFaults, faults <- uploadFaults
W == INSTANCE WebhookDelivery WITH
        MaxFaults <- MaxDeliveryFaults, job <- deliveryJob, faults <- deliveryFaults

ASSUME LiveAssumption ==
    DeliveryAssumption /\ U!UploadAssumption /\ W!WebhookAssumption

uploadVars == <<past, session, asset, file, creating, receiving, finishing, rest, tus,
                sweep, listed, deletion, job, uploadFaults, slips>>
webhookVars == <<endpoint, secret, dispatch, resend, deliveryJob, made, stalls, holder,
                 doing, log, acks, unlogged, unread, deliveryFaults>>
otherVars == <<uploadVars, webhookVars>>

Uploading == part = "upload"
Delivering == part = "webhook"
Answering == part = "gateway"

\* Every variable of each part keeps its type.
AllTypeOK == U!TypeOK /\ W!TypeOK /\ TypeOK

\* The gateway does not move.
NoRequests ==
    Init /\ size = (CHOOSE n \in Sizes : TRUE) /\ ask = CHOOSE a \in [Request -> Asks] : TRUE

AllInit ==
    /\ U!Init /\ W!Init
    /\ \/ part \in {"upload", "webhook"} /\ NoRequests
       \/ part = "gateway" /\ Init

AllNext ==
    \/ Answering /\ Next /\ UNCHANGED <<part, otherVars>>
    \/ Uploading /\ U!Next /\ UNCHANGED <<part, vars, webhookVars>>
    \/ Delivering /\ W!Next /\ UNCHANGED <<part, vars, uploadVars>>

Fairness ==
    /\ WF_uploadVars(Uploading /\ U!Expire)
    /\ WF_uploadVars(Uploading /\ U!CreateStep)
    /\ WF_uploadVars(Uploading /\ U!EndPatch)
    /\ WF_uploadVars(Uploading /\ U!FinishStep)
    /\ WF_uploadVars(Uploading /\ U!RestStep)
    /\ WF_uploadVars(Uploading /\ U!TusStep)
    /\ WF_uploadVars(Uploading /\ U!SweepStep)
    /\ WF_uploadVars(Uploading /\ U!Transcode)
    /\ WF_uploadVars(Uploading /\ U!DeletionStep)
    /\ WF_webhookVars(Delivering /\ W!AddBulk)
    /\ WF_webhookVars(Delivering /\ W!ResendAdd)
    /\ \A e \in Execution : WF_webhookVars(Delivering /\ W!ExecutionStep(e))
    /\ \A d \in Delivery :
          /\ WF_webhookVars(Delivering /\ \E e \in Execution : W!Take(e, d))
          /\ WF_webhookVars(Delivering /\ W!Stall(d) /\ W!NoFault)

AllSpec == AllInit /\ [][AllNext]_<<part, vars, otherVars>> /\ Fairness

\* The properties of the parts, under their names; GatewayIsExact is Delivery's own.
\* What a completed upload stored is kept for its asset.
FinishedIsKept == U!FinishedIsKept

\* No upload stays open, and none leaves an empty asset behind.
UploadEnds == U!UploadEnds

\* A file nobody needs goes.
SourceGoes == U!SourceGoes

\* A queued delivery ends.
DeliveryEnds == W!DeliveryEnds
=============================================================================
