------------------------------ MODULE Sending ------------------------------
(***************************************************************************)
(* What Sender.Send promises send_webhook_event: an event is refused or    *)
(* attempted as SendVerdict says, and an attempt ends, by itself and in    *)
(* one step, with one of Deliveries.  ControlPlane's CheckEvent and Post   *)
(* rely on this and on nothing else; WebhookSender implements it.          *)
(***************************************************************************)
EXTENDS WebhookDelivery

CONSTANTS
  Events,    \* what callers send
  Statuses,  \* the statuses the application answers with
  NoEvent,   \* between two calls
  NoResult   \* before a delivery is there

VARIABLES
  registered,  \* the name of the endpoint
  at,          \* where the call is
  event,       \* its input
  result       \* the delivery it returns

sendingVars == <<registered, at, event, result>>

SendingInit ==
  /\ at = "idle"
  /\ event = NoEvent
  /\ result = NoResult

CheckEvent ==
  /\ at = "idle"
  /\ \E e \in Events :
       /\ event' = e
       /\ at' = IF SendVerdict(registered, e) = "attempted" THEN "posting" ELSE "refused"
  /\ UNCHANGED <<registered, result>>

Post ==
  /\ at = "posting"
  /\ result' \in Deliveries(registered, event.EventID, Statuses)
  /\ at' = "posted"
  /\ UNCHANGED <<registered, event>>

Finish ==
  /\ at \in {"refused", "posted"}
  /\ at' = "idle"
  /\ event' = NoEvent
  /\ result' = NoResult
  /\ UNCHANGED registered

SendingNext == CheckEvent \/ Post \/ Finish

SendingSafety == SendingInit /\ [][SendingNext]_sendingVars

SendingSpec == SendingSafety /\ WF_sendingVars(Post)

=============================================================================
