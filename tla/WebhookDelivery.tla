-------------------------- MODULE WebhookDelivery --------------------------
(***************************************************************************)
(* What send_webhook_event may come to: whether an event is attempted at   *)
(* all, and the deliveries that an attempt can end with.  ControlPlane     *)
(* takes them as they are, WebhookSender shows how they come about.        *)
(***************************************************************************)
EXTENDS Integers

(***************************************************************************)
(* The checks of the tool, of LocalPlane and of Send, in this order; Send  *)
(* repeats the first.  registered is the name of the endpoint, "" if there *)
(* is none.                                                                *)
(***************************************************************************)
SendVerdict(registered, input) ==
  IF input.EventID = "" \/ input.EndpointName = "" \/ ~ input.body
    THEN "invalid_input"
  ELSE IF registered = "" THEN "no_endpoint"
  ELSE IF input.EndpointName # registered THEN "unknown_endpoint"
  ELSE "attempted"

Deliveries(registered, eventID, statuses) ==
  {[EventID |-> eventID, EndpointName |-> registered,
    Outcome |-> "response_received", StatusCode |-> status] :
      status \in statuses}
  \cup {[EventID |-> eventID, EndpointName |-> registered,
         Outcome |-> "transport_error", StatusCode |-> 0]}

=============================================================================
