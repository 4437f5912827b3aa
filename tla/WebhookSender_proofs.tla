----------------------- MODULE WebhookSender_proofs -----------------------
(***************************************************************************)
(* Proofs about WebhookSender, for any addresses, events, statuses and     *)
(* limit of redirects: its types, its two invariants, and that each of its *)
(* steps is a step of Sending or leaves Sending's state alone.             *)
(***************************************************************************)
EXTENDS WebhookSender, TLAPS

First == [method |-> "POST", target |-> endpoints.Address]

Limit == IF MaxRedirects = 0 THEN 1 ELSE MaxRedirects

Started ==
  [NoDelivery EXCEPT !.EventID = event.EventID, !.EndpointName = endpoints.Name]

(***************************************************************************)
(* Where Send is determines how far the exchange has come: requests and    *)
(* responses alternate, beginning with the POST to the endpoint, and the   *)
(* result is empty until the last step fills it.                           *)
(***************************************************************************)
AtRest ==
  stage \in {"idle", "refused"} =>
    delivery = NoDelivery /\ requests = <<>> /\ responses = <<>>

Underway ==
  stage \in {"sending", "awaiting", "draining"} =>
    event.EndpointName = endpoints.Name /\ delivery = Started

Beginning ==
  /\ requests = <<>> => next = First /\ responses = <<>>
  /\ requests # <<>> =>
       requests[1] = First /\ event.EndpointName = endpoints.Name

Alternation ==
  /\ Len(requests) <= Limit
  /\ Len(requests) <= Len(responses) + 1
  /\ stage = "sending" =>
       /\ Len(requests) = Len(responses)
       /\ requests = <<>> \/ Len(requests) < MaxRedirects
  /\ stage = "awaiting" => Len(requests) = Len(responses) + 1
  /\ stage = "draining" =>
       /\ Len(requests) = Len(responses) /\ responses # <<>>
       /\ responses[Len(responses)].status \in Statuses

Ending ==
  stage = "delivered" =>
    /\ delivery \in Abstract!Deliveries(endpoints.Name, event.EventID, Statuses)
    /\ delivery.Outcome = "response_received" =>
         /\ Len(requests) = Len(responses) /\ responses # <<>>
         /\ delivery.StatusCode = responses[Len(responses)].status

Named == endpoints = NoEndpoint \/ endpoints.Name # ""

SenderInv ==
  /\ TypeOK
  /\ Named
  /\ stage = "idle" => event = NoEvent
  /\ AtRest
  /\ Underway
  /\ Beginning
  /\ Alternation
  /\ Ending

-----------------------------------------------------------------------------
(***************************************************************************)
(* The environment registers nothing, or an endpoint with a name.          *)
(***************************************************************************)
LEMMA InitInv == Init => SenderInv
<1>. SUFFICES ASSUME Init PROVE SenderInv
  OBVIOUS
<1>. USE SenderAssumption DEF Init
<1>1. /\ endpoints \in [Name : NamesOrNone, Address : AddressesOrNone]
      /\ Named
  <2>1. PICK name \in Names, address \in AddressesOrNone :
          endpoints = LoadEndpointFromEnvironment(name, address)
    OBVIOUS
  <2>2. \/ endpoints = NoEndpoint
        \/ name # "" /\ endpoints = [Name |-> name, Address |-> address]
    BY ZenonT(60), <2>1 DEF LoadEndpointFromEnvironment
  <2>3. CASE endpoints = NoEndpoint
    BY <2>3 DEF NoEndpoint, Named, NamesOrNone, AddressesOrNone
  <2>4. CASE name # "" /\ endpoints = [Name |-> name, Address |-> address]
    <3>1. endpoints.Name = name
      BY <2>4
    <3>2. endpoints \in [Name : NamesOrNone, Address : AddressesOrNone]
      BY <2>4 DEF NamesOrNone
    <3>. QED
      BY <2>4, <3>1, <3>2 DEF Named
  <2>. QED
    BY <2>2, <2>3, <2>4
<1>2. event \in Events \cup {NoEvent}
  OBVIOUS
<1>5. delivery \in Delivery
  BY DEF NoDelivery, Delivery, NamesOrNone, EventIDs
<1>6. next \in Request
  BY <1>1 DEF Request
<1>3. TypeOK
  BY <1>1, <1>2, <1>5, <1>6 DEF TypeOK, Stages
<1>4. AtRest /\ Underway /\ Beginning /\ Alternation /\ Ending
  BY DEF AtRest, Underway, Beginning, Alternation, Ending, First, Limit
<1>. QED
  BY <1>1, <1>3, <1>4 DEF SenderInv

\* The event's id and the endpoint's name keep their types.
LEMMA InputTypes ==
  ASSUME TypeOK
  PROVE  event.EventID \in EventIDs /\ endpoints.Name \in NamesOrNone
<1>1. NoEvent.EventID = ""
  BY DEF NoEvent
<1>2. event \in Events \/ event = NoEvent
  BY DEF TypeOK
<1>3. event.EventID \in EventIDs
  BY <1>1, <1>2 DEF EventIDs
<1>4. endpoints.Name \in NamesOrNone
  BY DEF TypeOK
<1>. QED
  BY <1>3, <1>4

\* Checking an event.
LEMMA CheckStep ==
  ASSUME SenderInv, NEW e \in Events, Refuse(e) \/ Start(e)
  PROVE  SenderInv'
<1>. USE SenderAssumption DEF SenderInv, TypeOK
<1>1. /\ stage = "idle" /\ event' = e /\ stage' \in {"refused", "sending"}
      /\ UNCHANGED <<endpoints, next, requests, responses>>
  BY DEF Refuse, Start
<1>2. delivery = NoDelivery /\ requests = <<>> /\ responses = <<>>
  BY <1>1 DEF AtRest
<1>4. /\ stage' = "refused" => delivery' = delivery
      /\ stage' = "sending" =>
           delivery' = Started' /\ e.EndpointName = endpoints.Name
  BY <1>1 DEF Refuse, Start, Started, Sendable, Resolve
<1>5. delivery' \in Delivery
  <2>1. CASE stage' = "refused"
    BY <1>1, <1>4, <2>1
  <2>2. CASE stage' = "sending"
    <3>1. delivery' = [EventID |-> e.EventID, EndpointName |-> endpoints.Name,
                       Outcome |-> "", StatusCode |-> 0]
      BY ZenonT(60), <1>1, <1>4, <2>2 DEF Started, NoDelivery
    <3>. QED
      BY <3>1 DEF Delivery, EventIDs
  <2>. QED
    BY <1>1, <2>1, <2>2
<1>6. TypeOK'
  BY <1>1, <1>5 DEF Stages
<1>7. Named' /\ AtRest' /\ Underway'
  BY <1>1, <1>2, <1>4 DEF Named, AtRest, Underway, NoEndpoint
<1>8. Beginning'
  BY <1>1, <1>2 DEF Beginning, First
<1>9. Alternation' /\ Ending'
  BY <1>1, <1>2 DEF Alternation, Ending, Limit
<1>. QED
  BY <1>1, <1>6, <1>7, <1>8, <1>9

\* Sending a request.
LEMMA TransmitStep ==
  ASSUME SenderInv, Transmit
  PROVE  SenderInv'
<1>. USE SenderAssumption DEF SenderInv, TypeOK
<1>1. /\ stage = "sending" /\ stage' = "awaiting"
      /\ requests' = Append(requests, next)
      /\ UNCHANGED <<endpoints, event, delivery, next, responses>>
  BY DEF Transmit
<1>2. TypeOK'
  BY <1>1 DEF Stages
<1>3. Len(requests') = Len(requests) + 1 /\ requests' # <<>>
  BY <1>1
<1>4. requests'[1] = First /\ event.EndpointName = endpoints.Name
  <2>1. CASE requests = <<>>
    BY <1>1, <2>1 DEF Beginning, Underway
  <2>2. CASE requests # <<>>
    BY <1>1, <2>2 DEF Beginning
  <2>. QED
    BY <2>1, <2>2
<1>5. Named' /\ AtRest' /\ Underway' /\ Beginning' /\ Ending'
  BY <1>1, <1>3, <1>4
     DEF Named, AtRest, Underway, Started, Beginning, First, Ending, NoEndpoint
<1>6. Alternation'
  <2>1. Len(requests) = Len(responses) /\ Len(requests) \in Nat
    BY <1>1 DEF Alternation
  <2>2. requests = <<>> \/ Len(requests) < MaxRedirects
    BY <1>1 DEF Alternation
  <2>3. Len(requests) + 1 <= Limit
    BY <2>1, <2>2 DEF Limit
  <2>. QED
    BY <1>1, <1>3, <2>1, <2>3 DEF Alternation, Limit
<1>. QED
  BY <1>1, <1>2, <1>5, <1>6

\* The application's answer.
LEMMA AnswerStep ==
  ASSUME SenderInv, Respond \/ \E location \in Addresses : Redirected(location)
  PROVE  SenderInv'
<1>. USE SenderAssumption DEF SenderInv, TypeOK
<1>1. PICK response \in Response : responses' = Append(responses, response)
  BY DEF Respond, Redirected, Answered, Response, AddressesOrNone
<1>2. /\ stage = "awaiting" /\ stage' \in {"sending", "draining"}
      /\ UNCHANGED <<endpoints, event, delivery, requests>>
      /\ next' \in Request
      /\ stage' = "sending" => Len(requests) < MaxRedirects
  BY DEF Respond, Redirected, Request, AddressesOrNone
<1>3. response.status \in Statuses
  BY DEF Response
<1>4. TypeOK'
  BY <1>1, <1>2, <1>3 DEF Stages
<1>5. Len(requests) = Len(responses) + 1 /\ Len(responses) \in Nat
  BY <1>2 DEF Alternation
<1>6. /\ Len(responses') = Len(responses) + 1 /\ responses' # <<>>
      /\ responses'[Len(responses')] = response
  BY SMTT(60), <1>1, <1>3
<1>7. requests # <<>>
  BY <1>5
<1>8. Named' /\ AtRest' /\ Underway' /\ Beginning' /\ Ending'
  BY <1>2, <1>7
     DEF Named, AtRest, Underway, Started, Beginning, First, Ending, NoEndpoint
<1>9. Alternation'
  BY <1>2, <1>3, <1>5, <1>6 DEF Alternation, Limit
<1>. QED
  BY <1>2, <1>4, <1>8, <1>9

\* A status is a number.
LEMMA StatusesAreNumbers == Statuses \subseteq Nat
BY SenderAssumption

\* The last response is the delivery's.
LEMMA DeliverStep ==
  ASSUME SenderInv, Deliver
  PROVE  SenderInv'
<1>. USE SenderAssumption DEF SenderInv, TypeOK
<1>1. /\ stage = "draining" /\ stage' = "delivered"
      /\ UNCHANGED <<endpoints, event, next, requests, responses>>
      /\ delivery' = [delivery EXCEPT !.Outcome = "response_received",
                                      !.StatusCode = responses[Len(responses)].status]
  BY DEF Deliver
<1>2. /\ Len(requests) = Len(responses) /\ responses # <<>>
      /\ responses[Len(responses)].status \in Statuses
  BY <1>1 DEF Alternation
<1>3. delivery' = [EventID |-> event.EventID, EndpointName |-> endpoints.Name,
                   Outcome |-> "response_received",
                   StatusCode |-> responses[Len(responses)].status]
  BY ZenonT(60), <1>1 DEF Underway, Started, NoDelivery
<1>4. delivery' \in Abstract!Deliveries(endpoints.Name, event.EventID, Statuses)
  BY <1>2, <1>3 DEF Abstract!Deliveries
<1>5. TypeOK'
  <2>1. responses[Len(responses)].status \in Nat
    BY <1>2, StatusesAreNumbers, Zenon
  <2>2. delivery' \in Delivery
    BY <1>3, <2>1, InputTypes DEF Delivery
  <2>. QED
    BY <1>1, <2>2 DEF Stages
<1>6. Ending'
  BY <1>1, <1>2, <1>3, <1>4 DEF Ending
<1>7. Named' /\ AtRest' /\ Underway' /\ Beginning'
  BY <1>1 DEF Named, AtRest, Underway, Beginning, First, NoEndpoint
<1>8. Alternation'
  BY <1>1 DEF Alternation, Limit
<1>. QED
  BY <1>1, <1>5, <1>6, <1>7, <1>8

\* A failure is the delivery's, whatever was answered before.
LEMMA FailStep ==
  ASSUME SenderInv, Fail
  PROVE  SenderInv'
<1>. USE SenderAssumption DEF SenderInv, TypeOK
<1>1. /\ stage \in {"sending", "awaiting", "draining"} /\ stage' = "delivered"
      /\ UNCHANGED <<endpoints, event, next, requests>>
      /\ delivery' = [delivery EXCEPT !.Outcome = "transport_error"]
  BY DEF Fail
<1>2. \/ responses' = responses
      \/ /\ stage = "awaiting"
         /\ \E response \in Response : responses' = Append(responses, response)
  BY DEF Fail, Answered, Response, AddressesOrNone
<1>3. delivery' = [EventID |-> event.EventID, EndpointName |-> endpoints.Name,
                   Outcome |-> "transport_error", StatusCode |-> 0]
  BY ZenonT(60), <1>1 DEF Underway, Started, NoDelivery
<1>4. delivery' \in Abstract!Deliveries(endpoints.Name, event.EventID, Statuses)
  BY <1>3 DEF Abstract!Deliveries
<1>5. responses' \in Seq(Response) /\ Len(responses') >= Len(responses)
  <2>1. CASE responses' = responses
    BY <2>1
  <2>2. ASSUME NEW response \in Response, responses' = Append(responses, response)
        PROVE  responses' \in Seq(Response) /\ Len(responses') >= Len(responses)
    BY <2>2
  <2>. QED
    BY <1>2, <2>1, <2>2
<1>6. TypeOK'
  <2>1. delivery' \in Delivery
    BY <1>3, InputTypes DEF Delivery
  <2>. QED
    BY <1>1, <1>5, <2>1 DEF Stages
<1>7. Ending'
  BY <1>1, <1>3, <1>4 DEF Ending
<1>8. requests = <<>> => responses' = responses
  BY <1>2 DEF Alternation
<1>9. Named' /\ AtRest' /\ Underway' /\ Beginning'
  BY <1>1, <1>8 DEF Named, AtRest, Underway, Beginning, First, NoEndpoint
<1>10. Alternation'
  BY <1>1, <1>5 DEF Alternation, Limit
<1>. QED
  BY <1>1, <1>6, <1>7, <1>9, <1>10

\* The end of an attempt.
LEMMA ReturnStep ==
  ASSUME SenderInv, Return
  PROVE  SenderInv'
<1>. USE SenderAssumption DEF SenderInv, TypeOK
<1>1. /\ stage' = "idle" /\ event' = NoEvent /\ delivery' = NoDelivery
      /\ next' = First' /\ requests' = <<>> /\ responses' = <<>>
      /\ UNCHANGED endpoints
  BY DEF Return, First
<1>2. next' \in Request
  BY <1>1 DEF First, Request
<1>6. delivery' \in Delivery
  BY <1>1 DEF NoDelivery, Delivery, NamesOrNone, EventIDs
<1>3. TypeOK'
  BY <1>1, <1>2, <1>6 DEF Stages
<1>4. Named' /\ AtRest' /\ Underway' /\ Beginning' /\ Ending'
  BY <1>1 DEF Named, AtRest, Underway, Beginning, Ending, NoEndpoint
<1>5. Alternation'
  BY <1>1 DEF Alternation, Limit
<1>. QED
  BY <1>1, <1>3, <1>4, <1>5

\* No step.
LEMMA IdleStep ==
  ASSUME SenderInv, UNCHANGED senderVars
  PROVE  SenderInv'
BY DEF SenderInv, TypeOK, Named, AtRest, Underway, Started, Beginning, First,
       Alternation, Limit, Ending, senderVars

(***************************************************************************)
(* However Send is answered, redirected or cut off, it is where the        *)
(* exchange is.                                                            *)
(***************************************************************************)
THEOREM SenderCorrectness == Spec => []SenderInv
<1>1. SenderInv /\ [Next]_senderVars => SenderInv'
  BY CheckStep, TransmitStep, AnswerStep, DeliverStep, FailStep, ReturnStep,
     IdleStep DEF Next
<1>. QED
  BY InitInv, <1>1, PTL DEF Spec

(***************************************************************************)
(* Types of the sender.                                                    *)
(***************************************************************************)
THEOREM SenderTypeCorrectness == Spec => []TypeOK
<1>1. SenderInv => TypeOK
  BY DEF SenderInv
<1>. QED
  BY SenderCorrectness, <1>1, PTL

(***************************************************************************)
(* A delivery tells the truth about the exchange, for any statuses and any *)
(* number of redirects.                                                    *)
(***************************************************************************)
THEOREM DeliveryCorrectness == Spec => []DeliveryIsTruthful
<1>1. SenderInv => DeliveryIsTruthful
  <2>. SUFFICES ASSUME SenderInv, stage = "delivered"
                PROVE  /\ delivery.Outcome = "response_received" =>
                            /\ Len(responses) = Len(requests)
                            /\ responses # <<>>
                            /\ delivery.StatusCode = responses[Len(responses)].status
                       /\ delivery.Outcome = "transport_error" =>
                            delivery.StatusCode = 0
    BY DEF DeliveryIsTruthful
  <2>1. delivery \in Abstract!Deliveries(endpoints.Name, event.EventID, Statuses)
    BY DEF SenderInv, Ending
  <2>2. delivery.Outcome = "transport_error" => delivery.StatusCode = 0
    BY <2>1 DEF Abstract!Deliveries
  <2>. QED
    BY <2>2 DEF SenderInv, Ending
<1>. QED
  BY SenderCorrectness, <1>1, PTL

-----------------------------------------------------------------------------
(***************************************************************************)
(* Where the requests go.  Led is inductive: besides what was sent, the    *)
(* request that is to be sent next goes where the last response led, and   *)
(* the one that is awaited is the last one sent.                           *)
(***************************************************************************)
AllRepeat(n) == \A j \in 1 .. n : responses[j].status \in RepeatsRequest

LedSoFar == \A i \in 2 .. Len(requests) : FollowsRedirect(i)

LedNext ==
  stage = "sending" /\ requests # <<>> =>
    /\ responses[Len(responses)].status \in Redirects
    /\ next.target = responses[Len(responses)].location
    /\ next.method = "POST" <=> AllRepeat(Len(responses))

Led ==
  /\ LedSoFar
  /\ LedNext
  /\ stage = "awaiting" => next = requests[Len(requests)]

\* Responses that come after a request do not change what led to it.
LEMMA SentStaysLed ==
  ASSUME SenderInv, LedSoFar, requests' = requests,
         \A j \in 1 .. Len(responses) : responses'[j] = responses[j]
  PROVE  LedSoFar'
<1>. SUFFICES ASSUME NEW i \in 2 .. Len(requests)
              PROVE  FollowsRedirect(i)'
  BY DEF LedSoFar
<1>1. i - 1 \in 1 .. Len(responses) /\ 1 .. i - 1 \subseteq 1 .. Len(responses)
  BY DEF SenderInv, TypeOK, Alternation
<1>2. \A j \in 1 .. i - 1 : responses'[j] = responses[j]
  BY <1>1
<1>3. FollowsRedirect(i)
  BY DEF LedSoFar
<1>. QED
  BY <1>1, <1>2, <1>3 DEF FollowsRedirect

\* The last request sent is a POST if every response before it repeats.
LEMMA LastRequest ==
  ASSUME SenderInv, LedSoFar, stage = "awaiting"
  PROVE  requests[Len(requests)].method = "POST" <=> AllRepeat(Len(responses))
<1>1. Len(requests) = Len(responses) + 1 /\ Len(responses) \in Nat
  BY DEF SenderInv, TypeOK, Alternation
<1>2. CASE Len(responses) = 0
  <2>1. Len(requests) = 1
    BY <1>1, <1>2
  <2>2. requests[1] = First
    BY <2>1 DEF SenderInv, Beginning
  <2>3. requests[1].method = "POST"
    BY <2>2 DEF First
  <2>4. AllRepeat(0)
    BY DEF AllRepeat
  <2>. QED
    BY <1>2, <2>1, <2>3, <2>4
<1>3. CASE Len(responses) # 0
  <2>1. FollowsRedirect(Len(requests))
    BY <1>1, <1>3 DEF LedSoFar
  <2>. QED
    BY <1>1, <2>1 DEF FollowsRedirect, AllRepeat
<1>. QED
  BY <1>2, <1>3

\* A request that is sent goes where the last response led.
LEMMA LedTransmit ==
  ASSUME SenderInv, Led, Transmit
  PROVE  Led'
<1>. USE DEF SenderInv, TypeOK
<1>1. /\ stage = "sending" /\ stage' = "awaiting"
      /\ ValidEndpointAddress(next.target)
      /\ requests' = Append(requests, next)
      /\ UNCHANGED <<next, responses>>
  BY DEF Transmit
<1>2. /\ Len(requests) = Len(responses) /\ Len(requests) \in Nat
      /\ Len(requests') = Len(requests) + 1
      /\ requests'[Len(requests')] = next
      /\ \A i \in 1 .. Len(requests) : requests'[i] = requests[i]
  BY <1>1 DEF Alternation
<1>3. ASSUME NEW i \in 2 .. Len(requests)
      PROVE  FollowsRedirect(i)'
  <2>1. FollowsRedirect(i) /\ requests'[i] = requests[i]
    BY <1>2 DEF Led, LedSoFar
  <2>. QED
    BY <1>1, <2>1 DEF FollowsRedirect
<1>4. ASSUME NEW i \in 2 .. Len(requests'), i = Len(requests) + 1
      PROVE  FollowsRedirect(i)'
  <2>1. requests # <<>>
    BY <1>2, <1>4
  <2>2. /\ responses[Len(responses)].status \in Redirects
        /\ next.target = responses[Len(responses)].location
        /\ next.method = "POST" <=> AllRepeat(Len(responses))
    BY <1>1, <2>1 DEF Led, LedNext
  <2>3. i - 1 = Len(responses) /\ requests'[i] = next /\ responses' = responses
    BY <1>1, <1>2, <1>4
  <2>4. requests'[i].method = "POST" <=>
          \A j \in 1 .. i - 1 : responses'[j].status \in RepeatsRequest
    BY <2>2, <2>3, Zenon DEF AllRepeat
  <2>. QED
    BY <1>1, <2>2, <2>3, <2>4 DEF FollowsRedirect
<1>5. LedSoFar'
  <2>. SUFFICES ASSUME NEW i \in 2 .. Len(requests')
                PROVE  FollowsRedirect(i)'
    BY DEF LedSoFar
  <2>1. i \in 2 .. Len(requests) \/ i = Len(requests) + 1
    BY <1>2
  <2>. QED
    BY <1>3, <1>4, <2>1
<1>. QED
  BY <1>1, <1>2, <1>5 DEF Led, LedNext

\* A redirect says where the next request goes and whether it is a POST.
LEMMA LedRedirected ==
  ASSUME SenderInv, Led, NEW location \in Addresses, Redirected(location)
  PROVE  Led'
<1>. USE DEF SenderInv, TypeOK
<1>1. PICK status \in Statuses \cap Redirects :
        /\ responses' = Append(responses, [status |-> status, location |-> location])
        /\ next' = [method |-> IF status \in RepeatsRequest THEN next.method ELSE "GET",
                    target |-> location]
  BY DEF Redirected, Answered
<1>2. /\ stage = "awaiting" /\ stage' = "sending" /\ requests' = requests
      /\ next = requests[Len(requests)]
  BY DEF Redirected, Led
<1>3. [status |-> status, location |-> location] \in Response
  BY DEF Response, AddressesOrNone
<1>4. /\ Len(responses) \in Nat /\ Len(responses') = Len(responses) + 1
      /\ responses'[Len(responses')] = [status |-> status, location |-> location]
      /\ \A j \in 1 .. Len(responses) : responses'[j] = responses[j]
  BY <1>1, <1>3
<1>5. LedSoFar'
  BY <1>2, <1>4, SentStaysLed DEF Led
<1>6. next.method = "POST" <=> AllRepeat(Len(responses))
  BY <1>2, LastRequest DEF Led
<1>7. AllRepeat(Len(responses))' <=>
        status \in RepeatsRequest /\ AllRepeat(Len(responses))
  <2>1. 1 .. Len(responses') = (1 .. Len(responses)) \cup {Len(responses')}
    BY <1>4
  <2>2. responses'[Len(responses')].status = status
    BY <1>4
  <2>. QED
    BY <1>4, <2>1, <2>2, Zenon DEF AllRepeat
<1>8. next'.method = "POST" <=> AllRepeat(Len(responses))'
  BY <1>1, <1>6, <1>7
<1>9. LedNext'
  <2>1. /\ responses'[Len(responses')].status = status
        /\ responses'[Len(responses')].location = location
    BY <1>4
  <2>2. status \in Redirects /\ next'.target = location
    BY <1>1
  <2>. QED
    BY <1>8, <2>1, <2>2, Zenon DEF LedNext
<1>. QED
  BY <1>2, <1>5, <1>9 DEF Led

\* Nothing else sends a request, except that an exchange begins anew.
LEMMA LedOtherwise ==
  ASSUME SenderInv, Led,
         \/ \E e \in Events : Refuse(e) \/ Start(e)
         \/ Respond \/ Deliver \/ Fail \/ Return \/ UNCHANGED senderVars
  PROVE  Led'
<1>. USE DEF SenderInv, TypeOK
<1>1. CASE (\E e \in Events : Refuse(e) \/ Start(e)) \/ Return
  <2>1. requests' = <<>> /\ stage' # "awaiting"
    BY <1>1 DEF Refuse, Start, Return, AtRest
  <2>. QED
    BY <2>1 DEF Led, LedSoFar, LedNext
<1>2. CASE Respond \/ Deliver \/ Fail
  <2>1. requests' = requests /\ stage' \notin {"sending", "awaiting"}
    BY <1>2 DEF Respond, Deliver, Fail
  <2>2. responses' = responses \/ \E response \in Response : responses' = Append(responses, response)
    BY <1>2 DEF Respond, Deliver, Fail, Answered, Response, AddressesOrNone
  <2>3. \A j \in 1 .. Len(responses) : responses'[j] = responses[j]
    BY <2>2
  <2>. QED
    BY <2>1, <2>3, SentStaysLed DEF Led, LedNext
<1>3. CASE UNCHANGED senderVars
  BY <1>3 DEF senderVars, Led, LedSoFar, LedNext, FollowsRedirect, AllRepeat
<1>. QED
  BY <1>1, <1>2, <1>3

(***************************************************************************)
(* For any application and any limit of redirects the first request is the *)
(* POST to the registered endpoint, every other one goes where the         *)
(* response before it led, over http or https, and the event is posted     *)
(* again only if every response so far asked for that.                     *)
(***************************************************************************)
THEOREM RequestsCorrectness == Spec => []RequestsGoWhereLed
<1>1. Init => Led
  BY DEF Init, Led, LedSoFar, LedNext
<1>2. SenderInv /\ Led /\ [Next]_senderVars => Led'
  BY LedTransmit, LedRedirected, LedOtherwise DEF Next
<1>3. SenderInv /\ Led => RequestsGoWhereLed
  BY DEF SenderInv, Beginning, First, Alternation, Limit, Led, LedSoFar,
         RequestsGoWhereLed
<1>. QED
  BY SenderCorrectness, <1>1, <1>2, <1>3, PTL DEF Spec

-----------------------------------------------------------------------------
(***************************************************************************)
(* Refinement.  Refuse and Start are the check of Sending, Deliver and     *)
(* Fail its Post; the exchanges between them are stuttering.               *)
(***************************************************************************)
LEMMA SendableMeaning ==
  ASSUME SenderInv, NEW e \in Events
  PROVE  Sendable(e) <=> Abstract!SendVerdict(endpoints.Name, e) = "attempted"
<1>1. endpoints # NoEndpoint <=> endpoints.Name # ""
  <2>1. NoEndpoint.Name = ""
    BY DEF NoEndpoint
  <2>. QED
    BY <2>1 DEF SenderInv, Named
<1>. QED
  BY <1>1, Zenon DEF Sendable, Resolve, Abstract!SendVerdict

\* A step of the sender is a step of Sending or none.
LEMMA StepSimulation ==
  ASSUME SenderInv, [Next]_senderVars
  PROVE  [Abstract!SendingNext]_(Abstract!sendingVars)
<1>. USE SenderAssumption DEF Abstract!sendingVars
<1>1. ASSUME NEW e \in Events, Refuse(e) \/ Start(e)
      PROVE  Abstract!CheckEvent
  <2>1. /\ stage = "idle" /\ event' = e
        /\ stage' = IF Sendable(e) THEN "sending" ELSE "refused"
        /\ UNCHANGED endpoints
    BY <1>1 DEF Refuse, Start
  <2>. QED
    BY <2>1, SendableMeaning DEF Abstract!CheckEvent
<1>2. CASE Transmit \/ Respond \/ \E location \in Addresses : Redirected(location)
  BY <1>2 DEF Transmit, Respond, Redirected
<1>3. CASE Deliver \/ Fail
  <2>1. Ending' /\ stage' = "delivered" /\ UNCHANGED <<endpoints, event>>
    BY <1>3, DeliverStep, FailStep DEF SenderInv, Deliver, Fail
  <2>2. stage \in {"sending", "awaiting", "draining"}
    BY <1>3 DEF Deliver, Fail
  <2>3. delivery' \in Abstract!Deliveries(endpoints.Name, event.EventID, Statuses)
    BY <2>1 DEF Ending
  <2>. QED
    BY <2>1, <2>2, <2>3 DEF Abstract!SendingNext, Abstract!Post
<1>4. CASE Return
  BY <1>4 DEF Return, Abstract!SendingNext, Abstract!Finish
<1>5. CASE UNCHANGED senderVars
  BY <1>5 DEF senderVars
<1>. QED
  BY <1>1, <1>2, <1>3, <1>4, <1>5 DEF Next, Abstract!SendingNext

(***************************************************************************)
(* A whole delivery is one step of Sending: what ControlPlane's Post takes *)
(* from Deliveries is all that Send can return.                            *)
(***************************************************************************)
THEOREM SendingRefinement == Spec => Abstract!SendingSafety
<1>1. Init => Abstract!SendingInit
  BY DEF Init, Abstract!SendingInit
<1>. QED
  BY SenderCorrectness, <1>1, StepSimulation, PTL DEF Spec, Abstract!SendingSafety

=============================================================================
