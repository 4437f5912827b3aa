--------------------------- MODULE WebhookSender ---------------------------
(***************************************************************************)
(* One webhook delivery (internal/webhook): the endpoint registered from   *)
(* the environment at startup, Sender.Send, and the http.Client it posts   *)
(* with, against an application that answers, redirects, breaks off or     *)
(* says nothing.  ControlPlane takes the result of Send as one step; this  *)
(* module says how a delivery comes about.                                 *)
(***************************************************************************)
EXTENDS Integers, Sequences, FiniteSets

CONSTANTS
  Names,         \* values of ECHO_MCP_WEBHOOK_ENDPOINT_NAME, "" if unset
  Addresses,     \* values of ECHO_MCP_WEBHOOK_ENDPOINT_ADDRESS, parsed
  Events,        \* what callers send: a set of Event
  Statuses,      \* the statuses the application answers with
  MaxRedirects   \* net/http gives up at this many (10 in the program)

\* url.Parse's view of an address; Unset is the blank string.
Address == [scheme : STRING, host : STRING]

Unset == [scheme |-> "", host |-> ""]

\* body: absent, or there with a JSON form.  (json.Marshal takes whatever
\* json.Unmarshal made.)
Event == [EventID : STRING, EndpointName : STRING, body : BOOLEAN]

ASSUME SenderAssumption ==
  /\ Names \subseteq STRING
  /\ Addresses \subseteq Address
  /\ Events \subseteq Event
  /\ Statuses \subseteq 200 .. 599
  /\ MaxRedirects \in Nat

VARIABLES
  endpoints,  \* the registered endpoint, or NoEndpoint
  stage,      \* where Send is
  event,      \* its input
  delivery,   \* what it has of its result
  next,       \* the method and target of the request to send next
  requests,   \* history: the requests the network took, oldest first
  responses   \* history: the responses that came back, oldest first

senderVars ==
  <<endpoints, stage, event, delivery, next, requests, responses>>

NoEndpoint == [Name |-> "", Address |-> Unset]
StartupError == [Name |-> "error", Address |-> Unset]

Stages ==
  {"idle", "sending", "awaiting", "draining", "refused", "delivered"}

NamesOrNone == Names \cup {""}
AddressesOrNone == Addresses \cup {Unset}
EventIDs == {e.EventID : e \in Events} \cup {""}

Request == [method : {"POST", "GET"}, target : AddressesOrNone]

\* location: where a redirect leads, Unset if it has no Location.
Response == [status : Statuses, location : AddressesOrNone]

Delivery ==
  [EventID : EventIDs, EndpointName : NamesOrNone,
   Outcome : {"", "response_received", "transport_error"}, StatusCode : Nat]

NoEvent == [EventID |-> "", EndpointName |-> "", body |-> FALSE]

NoDelivery ==
  [EventID |-> "", EndpointName |-> "", Outcome |-> "", StatusCode |-> 0]

-----------------------------------------------------------------------------
ValidEndpointAddress(address) ==
  /\ address.scheme \in {"http", "https"}
  /\ address.host # ""

LoadEndpointFromEnvironment(name, address) ==
  IF name = "" /\ address = Unset THEN NoEndpoint
  ELSE IF name = "" \/ address = Unset \/ ~ ValidEndpointAddress(address)
    THEN StartupError
  ELSE [Name |-> name, Address |-> address]

\* loadWebhookSender ends the process on an error.
Init ==
  /\ \E name \in Names, address \in AddressesOrNone :
       endpoints = LoadEndpointFromEnvironment(name, address)
  /\ endpoints # StartupError
  /\ stage = "idle"
  /\ event = NoEvent
  /\ delivery = NoDelivery
  /\ next = [method |-> "POST", target |-> endpoints.Address]
  /\ requests = <<>>
  /\ responses = <<>>

Resolve(name) == endpoints # NoEndpoint /\ endpoints.Name = name

-----------------------------------------------------------------------------
(***************************************************************************)
(* Send: the checks, then one http.Client.Do, then the body.               *)
(***************************************************************************)
\* Mutant of Sendable: the only endpoint there is need not be named.
SendableAnywhere(e) ==
  /\ endpoints # NoEndpoint
  /\ e.EventID # ""
  /\ e.EndpointName # ""
  /\ e.body

Sendable(e) ==
  /\ endpoints # NoEndpoint
  /\ e.EventID # ""
  /\ e.EndpointName # ""
  /\ e.body
  /\ Resolve(e.EndpointName)

Refuse(e) ==
  /\ stage = "idle"
  /\ ~ Sendable(e)
  /\ event' = e
  /\ stage' = "refused"
  /\ UNCHANGED <<endpoints, delivery, next, requests, responses>>

Start(e) ==
  /\ stage = "idle"
  /\ Sendable(e)
  /\ event' = e
  /\ delivery' = [NoDelivery EXCEPT !.EventID = e.EventID,
                                    !.EndpointName = endpoints.Name]
  /\ stage' = "sending"
  /\ UNCHANGED <<endpoints, next, requests, responses>>

Transmit ==
  /\ stage = "sending"
  /\ ValidEndpointAddress(next.target)
  /\ requests' = Append(requests, next)
  /\ stage' = "awaiting"
  /\ UNCHANGED <<endpoints, event, delivery, next, responses>>

(***************************************************************************)
(* The default client follows a redirect that has a Location: 307 and 308  *)
(* repeat the POST with its body, 301, 302 and 303 turn it into a GET.     *)
(***************************************************************************)
RepeatsRequest == {307, 308}
TurnsIntoGet == {301, 302, 303}

Redirects == RepeatsRequest \cup TurnsIntoGet

Answered(status, location) ==
  responses' = Append(responses, [status |-> status, location |-> location])

\* Mutant of Redirected: a redirect of any status repeats the request.
RedirectedUnchanged(location) ==
  /\ stage = "awaiting"
  /\ Len(requests) < MaxRedirects
  /\ \E status \in Statuses \cap Redirects : Answered(status, location)
  /\ next' = [next EXCEPT !.target = location]
  /\ stage' = "sending"
  /\ UNCHANGED <<endpoints, event, delivery, requests>>

Redirected(location) ==
  /\ stage = "awaiting"
  /\ Len(requests) < MaxRedirects
  /\ \E status \in Statuses \cap Redirects :
       /\ Answered(status, location)
       /\ next' = [method |-> IF status \in RepeatsRequest THEN next.method ELSE "GET",
                   target |-> location]
  /\ stage' = "sending"
  /\ UNCHANGED <<endpoints, event, delivery, requests>>

\* A redirect without a Location is a response like any other.
Respond ==
  /\ stage = "awaiting"
  /\ \E status \in Statuses : Answered(status, Unset)
  /\ stage' = "draining"
  /\ UNCHANGED <<endpoints, event, delivery, next, requests>>

\* Mutant of Deliver: the status of the first response is kept.
DeliverFirstStatus ==
  /\ stage = "draining"
  /\ delivery' = [delivery EXCEPT !.Outcome = "response_received",
                                  !.StatusCode = responses[1].status]
  /\ stage' = "delivered"
  /\ UNCHANGED <<endpoints, event, next, requests, responses>>

\* The body has been read to its end and closed.
Deliver ==
  /\ stage = "draining"
  /\ delivery' = [delivery EXCEPT !.Outcome = "response_received",
                                  !.StatusCode = responses[Len(responses)].status]
  /\ stage' = "delivered"
  /\ UNCHANGED <<endpoints, event, next, requests, responses>>

(***************************************************************************)
(* Do or the reading of the body fails: no connection, a connection that   *)
(* breaks, a redirect that cannot be followed, the five seconds of the     *)
(* client, or the cancellation of the call.                                *)
(* Mutants of Fail: nothing ends the wait for an answer; the status is a   *)
(* sentinel.                                                               *)
(***************************************************************************)
FailUnlessAwaiting ==
  /\ stage \in {"sending", "draining"}
  /\ UNCHANGED responses
  /\ delivery' = [delivery EXCEPT !.Outcome = "transport_error"]
  /\ stage' = "delivered"
  /\ UNCHANGED <<endpoints, event, next, requests>>

FailWithSentinel ==
  /\ stage \in {"sending", "awaiting", "draining"}
  /\ UNCHANGED responses
  /\ delivery' = [delivery EXCEPT !.Outcome = "transport_error",
                                  !.StatusCode = 0 - 1]
  /\ stage' = "delivered"
  /\ UNCHANGED <<endpoints, event, next, requests>>

Fail ==
  /\ \/ /\ stage \in {"sending", "awaiting", "draining"}
        /\ UNCHANGED responses
     \/ /\ stage = "awaiting"
        /\ Len(requests) >= MaxRedirects
        /\ \E status \in Statuses \cap Redirects, location \in Addresses :
             Answered(status, location)
  /\ delivery' = [delivery EXCEPT !.Outcome = "transport_error"]
  /\ stage' = "delivered"
  /\ UNCHANGED <<endpoints, event, next, requests>>

\* Mutant of Return: the request is reused for the next event.
ReturnKeepingRequest ==
  /\ stage \in {"refused", "delivered"}
  /\ stage' = "idle"
  /\ event' = NoEvent
  /\ delivery' = NoDelivery
  /\ requests' = <<>>
  /\ responses' = <<>>
  /\ UNCHANGED <<endpoints, next>>

\* The sender keeps nothing from one event to the next.
Return ==
  /\ stage \in {"refused", "delivered"}
  /\ stage' = "idle"
  /\ event' = NoEvent
  /\ delivery' = NoDelivery
  /\ next' = [method |-> "POST", target |-> endpoints.Address]
  /\ requests' = <<>>
  /\ responses' = <<>>
  /\ UNCHANGED endpoints

Next ==
  \/ \E e \in Events : Refuse(e) \/ Start(e)
  \/ Transmit
  \/ \E location \in Addresses : Redirected(location)
  \/ Respond
  \/ Deliver
  \/ Fail
  \/ Return

\* client.Timeout covers the redirects and the body: Fail is sure to come
\* while the application does not answer.
Spec == Init /\ [][Next]_senderVars /\ WF_senderVars(Fail)

-----------------------------------------------------------------------------
(***************************************************************************)
(* Types of the sender.                                                    *)
(***************************************************************************)
TypeOK ==
  /\ endpoints \in [Name : NamesOrNone, Address : AddressesOrNone]
  /\ stage \in Stages
  /\ event \in Events \cup {NoEvent}
  /\ delivery \in Delivery
  /\ next \in Request
  /\ requests \in Seq(Request)
  /\ responses \in Seq(Response)

(***************************************************************************)
(* A delivery tells the truth about the exchange: a status is reported     *)
(* only with response_received, it is that of the last response, and that  *)
(* response answers the last request; a transport error reports no status. *)
(***************************************************************************)
DeliveryIsTruthful ==
  stage = "delivered" =>
    /\ delivery.Outcome = "response_received" =>
         /\ Len(responses) = Len(requests)
         /\ responses # <<>>
         /\ delivery.StatusCode = responses[Len(responses)].status
    /\ delivery.Outcome = "transport_error" => delivery.StatusCode = 0

(***************************************************************************)
(* What leaves the process goes first to the endpoint the developer        *)
(* registered, as a POST, for the event's endpoint.  Every other request   *)
(* goes where the response before it led, over http or https, and there    *)
(* are no more than the limit.  The event is posted again only if each     *)
(* response so far asked for that, with 307 or 308: once a redirect has    *)
(* turned the request into a GET it stays one.                             *)
(***************************************************************************)
FollowsRedirect(i) ==
  /\ responses[i - 1].status \in Redirects
  /\ requests[i].target = responses[i - 1].location
  /\ ValidEndpointAddress(requests[i].target)
  /\ requests[i].method = "POST" <=>
       \A j \in 1 .. i - 1 : responses[j].status \in RepeatsRequest

RequestsGoWhereLed ==
  requests # <<>> =>
    /\ event.EndpointName = endpoints.Name
    /\ requests[1] = [method |-> "POST", target |-> endpoints.Address]
    /\ Len(requests) <= Len(responses) + 1
    /\ Len(requests) <= IF MaxRedirects = 0 THEN 1 ELSE MaxRedirects
    /\ \A i \in 2 .. Len(requests) : FollowsRedirect(i)

(***************************************************************************)
(* "Echo MCP sends the request once" (docs/adr/ADR-0005-webhook-style-     *)
(* event-delivery.md:137): an event is posted at most once.                *)
(***************************************************************************)
SentOnce == Cardinality({i \in DOMAIN requests : requests[i].method = "POST"}) <= 1

(***************************************************************************)
(* Send comes to an end whatever the application does.                     *)
(***************************************************************************)
SendEnds == stage = "sending" ~> stage = "delivered"

(***************************************************************************)
(* A delivery, with all its exchanges and failures, is what ControlPlane   *)
(* takes it for: one step of Sending.                                      *)
(***************************************************************************)
Abstract == INSTANCE Sending WITH
  NoResult <- NoDelivery,
  registered <- endpoints.Name,
  at <- CASE stage = "delivered" -> "posted"
          [] stage \in {"sending", "awaiting", "draining"} -> "posting"
          [] OTHER -> stage,
  result <- IF stage = "delivered" THEN delivery ELSE NoDelivery

ImplementsSending == Abstract!SendingSpec

=============================================================================
