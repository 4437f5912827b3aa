----------------------------- MODULE DataPlane -----------------------------
(***************************************************************************)
(* The REST data plane (internal/httpserver/server.go): the net/http       *)
(* server runs handleDataPlane in one goroutine per request.  A handler    *)
(* takes the store's lock twice, once to copy the matching rule and once   *)
(* to append the observation, and writes the response in between, so other *)
(* handlers and the control plane interleave with it.                      *)
(*                                                                         *)
(* Spec runs the handlers against the most general control plane: at any   *)
(* moment it may store any rule of Behaviors or reset the store.  EchoMCP  *)
(* composes the same handlers with the real control plane.                 *)
(***************************************************************************)
EXTENDS Store

CONSTANTS
  Requests,    \* the requests of the application, each served once
  RequestLine  \* the method and path of each request

ASSUME DataPlaneAssumption ==
  RequestLine \in [Requests -> [Method : STRING, Path : STRING]]

VARIABLES
  handler,     \* where the handler of each request is
  rule,        \* the handler's copy of the rule it matched
  response,    \* the final status line the server sends, 0 before there is one
  client,      \* what the application knows: waiting, answered or gone
  matchedIn,   \* history: the generation the request matched in
  recordedIn,  \* history: the generation its observation was recorded in
  recordedAt   \* history: the position its observation took, 0 if none

dataVars ==
  <<handler, rule, response, client, matchedIn, recordedIn, recordedAt>>

HandlerStates ==
  {"unsent", "arrived", "matched", "unmatched", "written", "recorded",
   "panicked", "returned"}

DataTypeOK ==
  /\ handler \in [Requests -> HandlerStates]
  /\ rule \in [Requests -> ResponseRule \cup {NoRule}]
  /\ response \in [Requests -> Int]
  /\ client \in [Requests -> {"waiting", "answered", "gone"}]
  /\ matchedIn \in [Requests -> Nat]
  /\ recordedIn \in [Requests -> Nat]
  /\ recordedAt \in [Requests -> Nat]

DataInit ==
  /\ handler = [r \in Requests |-> "unsent"]
  /\ rule = [r \in Requests |-> NoRule]
  /\ response = [r \in Requests |-> 0]
  /\ client = [r \in Requests |-> "waiting"]
  /\ matchedIn = [r \in Requests |-> 0]
  /\ recordedIn = [r \in Requests |-> 0]
  /\ recordedAt = [r \in Requests |-> 0]

-----------------------------------------------------------------------------
(***************************************************************************)
(* What net/http does with the calls of the handler.  ResponseWriter       *)
(* panics on a status code that has not three digits.  A code in 100..199  *)
(* other than 101 is sent as an informational header and leaves the final  *)
(* header unwritten, so the Write that follows sends 200.  The last bytes  *)
(* of a response leave the server when the handler has returned.           *)
(***************************************************************************)
StatusNotImplemented == 501

WritableStatus(code) == code \in 100 .. 999

FinalStatus(code) == IF code \in (100 .. 199) \ {101} THEN 200 ELSE code

ObservationOf(r) ==
  [RequestMethod |-> RequestLine[r].Method,
   RequestPath |-> RequestLine[r].Path,
   MatchedRuleID |-> rule[r].ID,
   OutcomeStatusCode |-> rule[r].StatusCode]

(***************************************************************************)
(* handleDataPlane, one action per access to shared state.                 *)
(***************************************************************************)
Arrive(r) ==
  /\ handler[r] = "unsent"
  /\ handler' = [handler EXCEPT ![r] = "arrived"]
  /\ UNCHANGED <<storeVars, rule, response, client, matchedIn, recordedIn,
                 recordedAt>>

Match(r) ==
  /\ handler[r] = "arrived"
  /\ \/ /\ MatchResponseRule(RequestLine[r].Method, RequestLine[r].Path)
        /\ handler' = [handler EXCEPT ![r] = "matched"]
        /\ rule' = [rule EXCEPT ![r] = responseRule]
        /\ matchedIn' = [matchedIn EXCEPT ![r] = generation]
     \/ /\ ~ MatchResponseRule(RequestLine[r].Method, RequestLine[r].Path)
        /\ handler' = [handler EXCEPT ![r] = "unmatched"]
        /\ UNCHANGED <<rule, matchedIn>>
  /\ UNCHANGED <<storeVars, response, client, recordedIn, recordedAt>>

\* Mutant of WriteResponse: the status is that of the rule configured by now.
WriteWhatIsConfigured(r) ==
  /\ handler[r] = "matched"
  /\ WritableStatus(rule[r].StatusCode)
  /\ response' = [response EXCEPT ![r] = FinalStatus(
       IF HasResponseRule THEN responseRule.StatusCode
                          ELSE rule[r].StatusCode)]
  /\ handler' = [handler EXCEPT ![r] = "written"]
  /\ UNCHANGED <<storeVars, rule, client, matchedIn, recordedIn, recordedAt>>

WriteResponse(r) ==
  /\ handler[r] = "matched"
  /\ \/ /\ WritableStatus(rule[r].StatusCode)
        /\ response' =
             [response EXCEPT ![r] = FinalStatus(rule[r].StatusCode)]
        /\ handler' = [handler EXCEPT ![r] = "written"]
     \/ /\ ~ WritableStatus(rule[r].StatusCode)
        /\ handler' = [handler EXCEPT ![r] = "panicked"]
        /\ UNCHANGED response
  /\ UNCHANGED <<storeVars, rule, client, matchedIn, recordedIn, recordedAt>>

(***************************************************************************)
(* Mutants of Record: the observation is written twice; the handler reads  *)
(* the rule again instead of using its copy.                               *)
(***************************************************************************)
RecordTwice(r) ==
  /\ handler[r] = "written"
  /\ handler' = [handler EXCEPT ![r] = "recorded"]
  /\ observations' = observations \o <<ObservationOf(r), ObservationOf(r)>>
  /\ recordedIn' = [recordedIn EXCEPT ![r] = generation]
  /\ recordedAt' = [recordedAt EXCEPT ![r] = Len(observations')]
  /\ UNCHANGED <<generation, responseRule, webhookDeliveries,
                 rule, response, client, matchedIn>>

RecordWhatIsConfigured(r) ==
  /\ handler[r] = "written"
  /\ handler' = [handler EXCEPT ![r] = "recorded"]
  /\ RecordObservation([ObservationOf(r) EXCEPT !.OutcomeStatusCode =
                          IF HasResponseRule THEN responseRule.StatusCode
                                             ELSE StatusNotImplemented])
  /\ recordedIn' = [recordedIn EXCEPT ![r] = generation]
  /\ recordedAt' = [recordedAt EXCEPT ![r] = Len(observations')]
  /\ UNCHANGED <<rule, response, client, matchedIn>>

Record(r) ==
  /\ handler[r] = "written"
  /\ handler' = [handler EXCEPT ![r] = "recorded"]
  /\ RecordObservation(ObservationOf(r))
  /\ recordedIn' = [recordedIn EXCEPT ![r] = generation]
  /\ recordedAt' = [recordedAt EXCEPT ![r] = Len(observations')]
  /\ UNCHANGED <<rule, response, client, matchedIn>>

(***************************************************************************)
(* The handler returns and net/http completes the response: the matched    *)
(* rule's, or the 501 of http.Error.  A client that has gone is not told   *)
(* anything, which the handler only logs.                                  *)
(* Mutants of Return: the handler gives up when the response is not taken; *)
(* the response is complete before the observation is recorded.            *)
(***************************************************************************)
Answer(r) ==
  client' = [client EXCEPT ![r] = IF @ = "waiting" THEN "answered" ELSE @]

ReturnWithoutRecordIfGone(r) ==
  /\ \/ handler[r] \in {"recorded", "unmatched"}
     \/ handler[r] = "written" /\ client[r] = "gone"
  /\ handler' = [handler EXCEPT ![r] = "returned"]
  /\ response' = [response EXCEPT
       ![r] = IF handler[r] = "unmatched" THEN StatusNotImplemented ELSE @]
  /\ Answer(r)
  /\ UNCHANGED <<storeVars, rule, matchedIn, recordedIn, recordedAt>>

ReturnBeforeRecord(r) ==
  /\ handler[r] \in {"written", "recorded", "unmatched"}
  /\ handler' = [handler EXCEPT ![r] = IF @ = "written" THEN @ ELSE "returned"]
  /\ response' = [response EXCEPT
       ![r] = IF handler[r] = "unmatched" THEN StatusNotImplemented ELSE @]
  /\ Answer(r)
  /\ UNCHANGED <<storeVars, rule, matchedIn, recordedIn, recordedAt>>

Return(r) ==
  /\ handler[r] \in {"recorded", "unmatched"}
  /\ handler' = [handler EXCEPT ![r] = "returned"]
  /\ response' = [response EXCEPT
       ![r] = IF handler[r] = "unmatched" THEN StatusNotImplemented ELSE @]
  /\ Answer(r)
  /\ UNCHANGED <<storeVars, rule, matchedIn, recordedIn, recordedAt>>

\* net/http's recover ends the connection of a handler that panicked.
ConnectionLost(r) ==
  /\ client[r] = "waiting"
  /\ handler[r] \notin {"unsent", "returned"}
  /\ client' = [client EXCEPT ![r] = "gone"]
  /\ UNCHANGED <<storeVars, handler, rule, response, matchedIn, recordedIn,
                 recordedAt>>

Handle(r) == Match(r) \/ WriteResponse(r) \/ Record(r) \/ Return(r)

DataStep(r) == Arrive(r) \/ Handle(r) \/ ConnectionLost(r)

-----------------------------------------------------------------------------
(***************************************************************************)
(* The most general control plane.                                         *)
(***************************************************************************)
Reconfigure ==
  /\ \E b \in Behaviors : ConfigureResponseRule(b)
  /\ UNCHANGED dataVars

StartOver ==
  /\ generation < MaxGeneration
  /\ Reset
  /\ UNCHANGED dataVars

vars == <<storeVars, dataVars>>

Init == StoreInit /\ DataInit

Next ==
  \/ \E r \in Requests : DataStep(r)
  \/ Reconfigure
  \/ StartOver

\* The Go scheduler runs every goroutine; no handler waits for another.
DataFairness == \A r \in Requests : WF_vars(Handle(r))

Spec == Init /\ [][Next]_vars /\ DataFairness

-----------------------------------------------------------------------------
(***************************************************************************)
(* Types of the store and of the handlers.                                 *)
(***************************************************************************)
TypeOK == StoreTypeOK /\ DataTypeOK

(***************************************************************************)
(* The requests whose observation the current log should hold.             *)
(***************************************************************************)
Recorded ==
  {r \in Requests : recordedAt[r] # 0 /\ recordedIn[r] = generation}

(***************************************************************************)
(* However handlers, reconfigurations and resets interleave, the log is    *)
(* the evidence of the requests recorded since the last reset and of       *)
(* nothing else: each has one entry, that entry describes the request and  *)
(* the rule the handler served it with (not the rule configured by then),  *)
(* and no two requests share an entry.                                     *)
(***************************************************************************)
EntriesDescribeRequests ==
  \A r \in Recorded :
    /\ recordedAt[r] \in 1 .. Len(observations)
    /\ observations[recordedAt[r]] = ObservationOf(r)

EveryEntryHasItsRequest ==
  \A i \in 1 .. Len(observations) : \E r \in Recorded : recordedAt[r] = i

NoSharedEntry ==
  \A q, r \in Recorded : recordedAt[q] = recordedAt[r] => q = r

EvidenceIsExact ==
  /\ EntriesDescribeRequests
  /\ EveryEntryHasItsRequest
  /\ NoSharedEntry

(***************************************************************************)
(* A client that holds a complete response of a configured rule can rely   *)
(* on its evidence being there already, unless a reset came after it; one  *)
(* that holds a 501 left no evidence.                                      *)
(***************************************************************************)
AnswerImpliesEvidence ==
  \A r \in Requests : client[r] = "answered" =>
    (rule[r] # NoRule <=> recordedAt[r] # 0)

(***************************************************************************)
(* The recorded outcome is the status the server sent, for every rule      *)
(* whose status is a final one.                                            *)
(***************************************************************************)
OutcomeIsResponseWhenFinal ==
  \A r \in Requests :
    (recordedAt[r] # 0 /\ rule[r].StatusCode \notin 100 .. 199) =>
      ObservationOf(r).OutcomeStatusCode = response[r]

(***************************************************************************)
(* What a handler has done is in step with where it is, and a client is    *)
(* answered last: the strengthening that makes the invariants inductive.   *)
(***************************************************************************)
Served(r) ==
  /\ rule[r] \in ResponseRule
  /\ WritableStatus(rule[r].StatusCode)
  /\ response[r] = FinalStatus(rule[r].StatusCode)

HandlerInStep(r) ==
  /\ handler[r] \in {"unsent", "arrived", "unmatched"} => rule[r] = NoRule
  /\ handler[r] \in {"matched", "panicked"} => rule[r] \in ResponseRule
  /\ handler[r] \in {"written", "recorded"} => Served(r)
  /\ handler[r] = "returned" => rule[r] = NoRule \/ Served(r)
  /\ recordedAt[r] # 0 <=> (handler[r] \in {"recorded", "returned"}
                              /\ rule[r] # NoRule)
  /\ recordedIn[r] <= generation
  /\ client[r] = "answered" => handler[r] = "returned"

HandlersInStep == \A r \in Requests : HandlerInStep(r)

(***************************************************************************)
(* Between two resets the log only grows at its end: a reader never sees   *)
(* evidence disappear, change or move (state.Observations copies it).      *)
(***************************************************************************)
EvidenceOnlyGrows ==
  [][generation' = generation =>
       /\ Len(observations) <= Len(observations')
       /\ \A i \in 1 .. Len(observations) :
            observations'[i] = observations[i]]_vars

(***************************************************************************)
(* A request that matched is eventually in the evidence even when its      *)
(* client goes away, unless net/http refused its status.                   *)
(***************************************************************************)
MatchedIsRecorded ==
  \A r \in Requests :
    handler[r] = "matched" ~> (recordedAt[r] # 0 \/ handler[r] = "panicked")

(***************************************************************************)
(* docs/guides/ai-agent-usage.md:227, "Resetting clears the configured     *)
(* behavior and currently available observations so the next scenario      *)
(* starts from known empty runtime state": the evidence of a generation is *)
(* of requests that matched in it.                                         *)
(***************************************************************************)
EvidenceIsOfThisScenario ==
  \A r \in Recorded : matchedIn[r] = generation

=============================================================================
