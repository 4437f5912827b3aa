-------------------------- MODULE DataPlane_proofs --------------------------
(***************************************************************************)
(* The invariants of DataPlane, for any number of requests, any rules and  *)
(* any number of resets.                                                   *)
(***************************************************************************)
EXTENDS DataPlane, TLAPS

USE DEF storeVars, dataVars, vars

(***************************************************************************)
(* An observation has the types of the log's entries once a rule matched.  *)
(***************************************************************************)
LEMMA ObservationType ==
  ASSUME NEW r \in Requests, rule[r] \in ResponseRule
  PROVE  ObservationOf(r) \in Observation
<1>1. RequestLine[r] \in [Method : STRING, Path : STRING]
  BY DataPlaneAssumption
<1>. QED
  BY <1>1 DEF ObservationOf, Observation, ResponseRule

(***************************************************************************)
(* The types are preserved by every step of a system whose handlers are in *)
(* step: only a handler that matched has an observation to record.         *)
(***************************************************************************)
LEMMA TypeStep ==
  ASSUME TypeOK, HandlersInStep, [Next]_vars
  PROVE  TypeOK'
<1>. USE StoreAssumption DEF TypeOK, StoreTypeOK, DataTypeOK, HandlerStates
<1>1. ASSUME NEW r \in Requests, Arrive(r)
      PROVE  TypeOK'
  BY <1>1 DEF Arrive
<1>2. ASSUME NEW r \in Requests, Match(r)
      PROVE  TypeOK'
  <2>1. rule' \in [Requests -> ResponseRule \cup {NoRule}]
    BY <1>2, ZenonT(60) DEF Match
  <2>2. handler' \in [Requests -> HandlerStates]
    BY <1>2 DEF Match
  <2>3. matchedIn' \in [Requests -> Nat]
    BY <1>2, ZenonT(60) DEF Match
  <2>. QED
    BY <1>2, <2>1, <2>2, <2>3 DEF Match
<1>3. ASSUME NEW r \in Requests, WriteResponse(r)
      PROVE  TypeOK'
  <2>1. rule[r] \in ResponseRule
    BY <1>3 DEF WriteResponse, HandlersInStep, HandlerInStep
  <2>2. FinalStatus(rule[r].StatusCode) \in Int
    BY <2>1 DEF FinalStatus, ResponseRule
  <2>. QED
    BY <1>3, <2>2, ZenonT(60) DEF WriteResponse
<1>4. ASSUME NEW r \in Requests, Record(r)
      PROVE  TypeOK'
  <2>1. ObservationOf(r) \in Observation
    BY <1>4, ObservationType DEF Record, HandlersInStep, HandlerInStep, Served
  <2>2. observations' \in Seq(Observation) /\ Len(observations') \in Nat
    BY <1>4, <2>1 DEF Record, RecordObservation
  <2>. QED
    BY <1>4, <2>2 DEF Record, RecordObservation
<1>5. ASSUME NEW r \in Requests, Return(r)
      PROVE  TypeOK'
  BY <1>5 DEF Return, Answer, StatusNotImplemented
<1>6. ASSUME NEW r \in Requests, ConnectionLost(r)
      PROVE  TypeOK'
  BY <1>6 DEF ConnectionLost
<1>7. CASE Reconfigure
  BY <1>7 DEF Reconfigure, ConfigureResponseRule
<1>8. CASE StartOver
  BY <1>8 DEF StartOver, Reset
<1>9. CASE UNCHANGED vars
  BY <1>9
<1>. QED
  BY <1>1, <1>2, <1>3, <1>4, <1>5, <1>6, <1>7, <1>8, <1>9
  DEF Next, DataStep, Handle

(***************************************************************************)
(* A handler that a step does not touch stays in step.                     *)
(***************************************************************************)
LEMMA InStepUntouched ==
  ASSUME TypeOK, TypeOK', NEW q \in Requests, HandlerInStep(q),
         handler'[q] = handler[q], rule'[q] = rule[q],
         response'[q] = response[q], client'[q] = client[q],
         recordedIn'[q] = recordedIn[q], recordedAt'[q] = recordedAt[q],
         generation <= generation'
  PROVE  HandlerInStep(q)'
<1>1. recordedIn'[q] <= generation'
  BY DEF HandlerInStep, TypeOK, StoreTypeOK, DataTypeOK
<1>2. Served(q)' <=> Served(q)
  BY DEF Served, WritableStatus, FinalStatus
<1>. QED
  BY <1>1, <1>2 DEF HandlerInStep

(***************************************************************************)
(* Each step of a handler takes it from one place of its course to the     *)
(* next.                                                                   *)
(***************************************************************************)
LEMMA InStepStep ==
  ASSUME TypeOK, TypeOK', HandlersInStep, [Next]_vars
  PROVE  HandlersInStep'
<1>. SUFFICES ASSUME NEW q \in Requests
              PROVE  HandlerInStep(q)'
  BY DEF HandlersInStep
<1>0. HandlerInStep(q)
  BY DEF HandlersInStep
<1>. USE DEF TypeOK, StoreTypeOK, DataTypeOK
<1>1. ASSUME Arrive(q)
      PROVE  HandlerInStep(q)'
  BY <1>0, <1>1 DEF Arrive, HandlerInStep
<1>2. ASSUME Match(q)
      PROVE  HandlerInStep(q)'
  <2>1. /\ rule[q] = NoRule
        /\ recordedAt'[q] = 0
        /\ client'[q] # "answered"
        /\ recordedIn'[q] <= generation'
    BY <1>0, <1>2 DEF Match, HandlerInStep
  <2>2. CASE MatchResponseRule(RequestLine[q].Method, RequestLine[q].Path)
    <3>1. handler'[q] = "matched" /\ rule'[q] = responseRule
      BY <1>2, <2>2 DEF Match
    <3>2. responseRule \in ResponseRule
      BY <2>2 DEF MatchResponseRule, HasResponseRule
    <3>. QED
      BY <2>1, <3>1, <3>2 DEF HandlerInStep
  <2>3. CASE ~ MatchResponseRule(RequestLine[q].Method, RequestLine[q].Path)
    <3>1. handler'[q] = "unmatched" /\ rule'[q] = NoRule
      BY <1>2, <2>1, <2>3 DEF Match
    <3>. QED
      BY <2>1, <3>1 DEF HandlerInStep
  <2>. QED
    BY <2>2, <2>3
<1>3. ASSUME WriteResponse(q)
      PROVE  HandlerInStep(q)'
  <2>1. /\ rule'[q] = rule[q]
        /\ rule[q] \in ResponseRule
        /\ recordedAt'[q] = 0
        /\ client'[q] # "answered"
        /\ recordedIn'[q] <= generation'
    BY <1>0, <1>3 DEF WriteResponse, HandlerInStep
  <2>2. CASE WritableStatus(rule[q].StatusCode)
    <3>1. handler'[q] = "written" /\ response'[q] = FinalStatus(rule[q].StatusCode)
      BY <1>3, <2>2 DEF WriteResponse
    <3>2. Served(q)'
      BY <2>1, <2>2, <3>1, SMTT(60) DEF Served, WritableStatus, FinalStatus
    <3>. QED
      BY <2>1, <3>1, <3>2 DEF HandlerInStep
  <2>3. CASE ~ WritableStatus(rule[q].StatusCode)
    <3>1. handler'[q] = "panicked"
      BY <1>3, <2>3 DEF WriteResponse
    <3>. QED
      BY <2>1, <3>1 DEF HandlerInStep
  <2>. QED
    BY <2>2, <2>3
<1>4. ASSUME Record(q)
      PROVE  HandlerInStep(q)'
  <2>1. Served(q) /\ rule[q] # NoRule
    BY <1>0, <1>4, StoreAssumption DEF Record, HandlerInStep, Served
  <2>2. Len(observations') = Len(observations) + 1
    BY <1>4, <2>1, ObservationType DEF Record, RecordObservation, Served
  <2>3. /\ handler'[q] = "recorded"
        /\ recordedAt'[q] # 0
        /\ recordedIn'[q] = generation
        /\ generation' = generation
        /\ rule' = rule
        /\ response' = response
        /\ client'[q] # "answered"
    BY <1>0, <1>4, <2>2 DEF Record, RecordObservation, HandlerInStep
  <2>4. Served(q)'
    BY <2>1, <2>3, SMTT(60) DEF Served, WritableStatus, FinalStatus
  <2>. QED
    BY <2>1, <2>3, <2>4 DEF HandlerInStep
<1>5. ASSUME Return(q)
      PROVE  HandlerInStep(q)'
  <2>1. /\ handler'[q] = "returned"
        /\ rule' = rule
        /\ recordedAt' = recordedAt
        /\ recordedIn'[q] <= generation'
    BY <1>0, <1>5 DEF Return, HandlerInStep
  <2>2. CASE handler[q] = "recorded"
    <3>1. Served(q) /\ recordedAt[q] # 0 /\ rule[q] # NoRule
      BY <1>0, <2>2, StoreAssumption DEF HandlerInStep, Served
    <3>2. response'[q] = response[q]
      BY <1>5, <2>2 DEF Return
    <3>3. Served(q)'
      BY <2>1, <3>1, <3>2, SMTT(60) DEF Served, WritableStatus, FinalStatus
    <3>. QED
      BY <2>1, <3>1, <3>3 DEF HandlerInStep
  <2>3. CASE handler[q] = "unmatched"
    <3>1. recordedAt[q] = 0 /\ rule[q] = NoRule
      BY <1>0, <2>3 DEF HandlerInStep
    <3>. QED
      BY <2>1, <3>1 DEF HandlerInStep
  <2>. QED
    BY <1>5, <2>2, <2>3 DEF Return
<1>6. ASSUME ConnectionLost(q)
      PROVE  HandlerInStep(q)'
  <2>1. Served(q)' <=> Served(q)
    BY <1>6 DEF ConnectionLost, Served, WritableStatus, FinalStatus
  <2>. QED
    BY <1>0, <1>6, <2>1 DEF ConnectionLost, HandlerInStep
<1>7. ASSUME NEW r \in Requests, r # q, DataStep(r)
      PROVE  HandlerInStep(q)'
  <2>1. generation' = generation
    BY <1>7 DEF DataStep, Handle, Arrive, Match, WriteResponse, Record,
                Return, ConnectionLost, RecordObservation
  <2>2. /\ handler'[q] = handler[q]
        /\ rule'[q] = rule[q]
        /\ response'[q] = response[q]
        /\ client'[q] = client[q]
        /\ recordedIn'[q] = recordedIn[q]
        /\ recordedAt'[q] = recordedAt[q]
    BY <1>7, ZenonT(60) DEF DataStep, Handle, Arrive, Match, WriteResponse, Record,
                Return, Answer, ConnectionLost
  <2>3. generation <= generation'
    BY <2>1
  <2>. QED
    BY <1>0, <2>2, <2>3, InStepUntouched
<1>8. CASE Reconfigure \/ StartOver \/ UNCHANGED vars
  <2>1. UNCHANGED dataVars /\ generation <= generation'
    BY <1>8 DEF Reconfigure, ConfigureResponseRule, StartOver, Reset
  <2>2. /\ handler'[q] = handler[q]
        /\ rule'[q] = rule[q]
        /\ response'[q] = response[q]
        /\ client'[q] = client[q]
        /\ recordedIn'[q] = recordedIn[q]
        /\ recordedAt'[q] = recordedAt[q]
    BY <2>1
  <2>. QED
    BY <1>0, <2>1, <2>2, InStepUntouched
<1>. QED
  BY <1>1, <1>2, <1>3, <1>4, <1>5, <1>6, <1>7, <1>8 DEF Next, DataStep, Handle

(***************************************************************************)
(* The steps that leave the log, the generation, and the histories of what *)
(* is in it alone leave the evidence exact.                                *)
(***************************************************************************)
LEMMA EvidenceUntouched ==
  ASSUME TypeOK, EvidenceIsExact,
         UNCHANGED <<generation, observations, recordedIn, recordedAt>>,
         \A r \in Recorded : rule'[r] = rule[r]
  PROVE  EvidenceIsExact'
<1>1. Recorded' = Recorded
  BY DEF Recorded
<1>2. \A r \in Recorded : ObservationOf(r)' = ObservationOf(r)
  BY DEF ObservationOf
<1>. QED
  BY <1>1, <1>2 DEF EvidenceIsExact, EntriesDescribeRequests,
                    EveryEntryHasItsRequest, NoSharedEntry

(***************************************************************************)
(* A reset empties the log, and everything recorded before it belongs to   *)
(* an earlier generation.                                                  *)
(***************************************************************************)
LEMMA EvidenceAfterReset ==
  ASSUME TypeOK, HandlersInStep, Reset, UNCHANGED dataVars
  PROVE  EvidenceIsExact'
<1>1. Recorded' = {}
  <2>1. \A r \in Requests : recordedIn'[r] # generation'
    BY DEF Reset, HandlersInStep, HandlerInStep, TypeOK,
           StoreTypeOK, DataTypeOK
  <2>. QED
    BY <2>1 DEF Recorded
<1>2. observations' = <<>>
  BY DEF Reset
<1>. QED
  BY <1>1, <1>2 DEF EvidenceIsExact, EntriesDescribeRequests,
                    EveryEntryHasItsRequest, NoSharedEntry

(***************************************************************************)
(* A handler that records adds one entry at the end, which is its own.     *)
(***************************************************************************)
LEMMA EvidenceAfterRecord ==
  ASSUME TypeOK, HandlersInStep, EvidenceIsExact,
         NEW r \in Requests, Record(r)
  PROVE  EvidenceIsExact'
<1>. USE DEF TypeOK, StoreTypeOK, DataTypeOK
<1>. DEFINE n == Len(observations)
<1>1. /\ ObservationOf(r) \in Observation
      /\ recordedAt[r] = 0
  BY ObservationType, StoreAssumption
  DEF Record, HandlersInStep, HandlerInStep, Served
<1>2. /\ n \in Nat
      /\ Len(observations') = n + 1
      /\ observations'[n + 1] = ObservationOf(r)
      /\ \A i \in 1 .. n : observations'[i] = observations[i]
  BY <1>1 DEF Record, RecordObservation
<1>3. /\ recordedAt' = [recordedAt EXCEPT ![r] = n + 1]
      /\ recordedIn' = [recordedIn EXCEPT ![r] = generation]
      /\ generation' = generation
      /\ rule' = rule
  BY <1>2 DEF Record, RecordObservation
<1>4. Recorded' = Recorded \cup {r} /\ r \notin Recorded
  BY <1>1, <1>2, <1>3 DEF Recorded
<1>5. \A q \in Requests : ObservationOf(q)' = ObservationOf(q)
  BY <1>3 DEF ObservationOf
<1>6. \A q \in Recorded : q \in Requests /\ q # r /\ recordedAt'[q] = recordedAt[q]
                           /\ recordedAt[q] \in 1 .. n
  BY <1>3, <1>4 DEF Recorded, EvidenceIsExact, EntriesDescribeRequests
<1>7. recordedAt'[r] = n + 1
  BY <1>3
<1>8. EntriesDescribeRequests'
  <2>1. ASSUME NEW q \in Recorded
        PROVE  /\ recordedAt'[q] \in 1 .. Len(observations')
               /\ observations'[recordedAt'[q]] = ObservationOf(q)'
    <3>1. observations[recordedAt[q]] = ObservationOf(q)
      BY DEF EvidenceIsExact, EntriesDescribeRequests
    <3>. QED
      BY <1>2, <1>5, <1>6, <3>1
  <2>2. /\ recordedAt'[r] \in 1 .. Len(observations')
        /\ observations'[recordedAt'[r]] = ObservationOf(r)'
    BY <1>2, <1>5, <1>7
  <2>. QED
    BY <1>4, <2>1, <2>2 DEF EntriesDescribeRequests
<1>9. EveryEntryHasItsRequest'
  <2>. SUFFICES ASSUME NEW i \in 1 .. (n + 1)
                PROVE  \E q \in Recorded \cup {r} : recordedAt'[q] = i
    BY <1>2, <1>4 DEF EveryEntryHasItsRequest
  <2>1. CASE i = n + 1
    BY <1>7, <2>1
  <2>2. CASE i # n + 1
    <3>1. i \in 1 .. n
      BY <1>2, <2>2, SMTT(60)
    <3>2. PICK q \in Recorded : recordedAt[q] = i
      BY <3>1 DEF EvidenceIsExact, EveryEntryHasItsRequest
    <3>. QED
      BY <1>6, <3>2
  <2>. QED
    BY <2>1, <2>2
<1>10. NoSharedEntry'
  <2>. SUFFICES ASSUME NEW p \in Recorded \cup {r}, NEW q \in Recorded \cup {r},
                       recordedAt'[p] = recordedAt'[q]
                PROVE  p = q
    BY <1>4 DEF NoSharedEntry
  <2>1. CASE p = r \/ q = r
    BY <1>2, <1>6, <1>7, <2>1
  <2>2. CASE p # r /\ q # r
    BY <1>6, <2>2 DEF EvidenceIsExact, NoSharedEntry
  <2>. QED
    BY <2>1, <2>2
<1>. QED
  BY <1>8, <1>9, <1>10 DEF EvidenceIsExact

(***************************************************************************)
(* Only recording and resetting touch the log or a request's place in it,  *)
(* and a rule changes only before its request is recorded.                 *)
(***************************************************************************)
LEMMA EvidenceStep ==
  ASSUME TypeOK, HandlersInStep, EvidenceIsExact, [Next]_vars
  PROVE  EvidenceIsExact'
<1>1. ASSUME NEW r \in Requests, Match(r)
      PROVE  EvidenceIsExact'
  <2>1. recordedAt[r] = 0
    BY <1>1 DEF Match, HandlersInStep, HandlerInStep
  <2>2. \A q \in Recorded : rule'[q] = rule[q]
    BY <1>1, <2>1 DEF Match, Recorded, TypeOK, DataTypeOK
  <2>. QED
    BY <1>1, <2>2, EvidenceUntouched DEF Match
<1>2. ASSUME NEW r \in Requests, Record(r)
      PROVE  EvidenceIsExact'
  BY <1>2, EvidenceAfterRecord
<1>3. CASE StartOver
  BY <1>3, EvidenceAfterReset DEF StartOver
<1>4. ASSUME NEW r \in Requests,
             Arrive(r) \/ WriteResponse(r) \/ Return(r) \/ ConnectionLost(r)
      PROVE  EvidenceIsExact'
  BY <1>4, EvidenceUntouched
  DEF Arrive, WriteResponse, Return, ConnectionLost
<1>5. CASE Reconfigure
  BY <1>5, EvidenceUntouched DEF Reconfigure, ConfigureResponseRule
<1>6. CASE UNCHANGED vars
  BY <1>6, EvidenceUntouched
<1>. QED
  BY <1>1, <1>2, <1>3, <1>4, <1>5, <1>6 DEF Next, DataStep, Handle

-----------------------------------------------------------------------------
(***************************************************************************)
(* The inductive invariant: the log says which requests are recorded, the  *)
(* handlers' places say which rules they hold, the types bind the two.     *)
(***************************************************************************)
DataInv == TypeOK /\ HandlersInStep /\ EvidenceIsExact

(***************************************************************************)
(* At the start nothing is sent and nothing is recorded.                   *)
(***************************************************************************)
LEMMA InitEstablishes == Init => DataInv
<1>. SUFFICES ASSUME Init
              PROVE  DataInv
  OBVIOUS
<1>. USE DEF Init, StoreInit, DataInit
<1>1. TypeOK
  BY DEF TypeOK, StoreTypeOK, DataTypeOK, HandlerStates
<1>2. HandlersInStep
  BY DEF HandlersInStep, HandlerInStep
<1>3. EvidenceIsExact
  BY DEF EvidenceIsExact, EntriesDescribeRequests, EveryEntryHasItsRequest,
         NoSharedEntry, Recorded
<1>. QED
  BY <1>1, <1>2, <1>3 DEF DataInv

(***************************************************************************)
(* Every step of a handler, a reconfiguration or a reset keeps it.         *)
(***************************************************************************)
LEMMA NextPreserves == DataInv /\ [Next]_vars => DataInv'
<1>. SUFFICES ASSUME DataInv, [Next]_vars
              PROVE  DataInv'
  OBVIOUS
<1>1. TypeOK'
  BY TypeStep DEF DataInv
<1>2. HandlersInStep'
  BY <1>1, InStepStep DEF DataInv
<1>3. EvidenceIsExact'
  BY EvidenceStep DEF DataInv
<1>. QED
  BY <1>1, <1>2, <1>3 DEF DataInv

(***************************************************************************)
(* The invariant of every behavior of the data plane.                      *)
(***************************************************************************)
THEOREM DataInvariance == Spec => []DataInv
BY InitEstablishes, NextPreserves, PTL DEF Spec

(***************************************************************************)
(* Type correctness of the data plane.                                     *)
(***************************************************************************)
THEOREM TypeCorrectness == Spec => []TypeOK
<1>1. DataInv => TypeOK
  BY DEF DataInv
<1>. QED
  BY <1>1, DataInvariance, PTL

(***************************************************************************)
(* Every handler is where its history says it is.                          *)
(***************************************************************************)
THEOREM HandlerCorrectness == Spec => []HandlersInStep
<1>1. DataInv => HandlersInStep
  BY DEF DataInv
<1>. QED
  BY <1>1, DataInvariance, PTL

(***************************************************************************)
(* However many requests are in flight and whatever the control plane does *)
(* meanwhile, the log is the exact evidence of the current generation.     *)
(***************************************************************************)
THEOREM EvidenceCorrectness == Spec => []EvidenceIsExact
<1>1. DataInv => EvidenceIsExact
  BY DEF DataInv
<1>. QED
  BY <1>1, DataInvariance, PTL

(***************************************************************************)
(* A client that has its answer finds its evidence recorded, or has a 501. *)
(***************************************************************************)
THEOREM AnswerCorrectness == Spec => []AnswerImpliesEvidence
<1>1. DataInv => AnswerImpliesEvidence
  BY StoreAssumption
  DEF DataInv, HandlersInStep, HandlerInStep, AnswerImpliesEvidence
<1>. QED
  BY <1>1, DataInvariance, PTL

(***************************************************************************)
(* The recorded outcome of a rule with a final status is what was sent.    *)
(***************************************************************************)
THEOREM OutcomeCorrectness == Spec => []OutcomeIsResponseWhenFinal
<1>1. ASSUME DataInv, NEW r \in Requests, recordedAt[r] # 0,
             rule[r].StatusCode \notin 100 .. 199
      PROVE  ObservationOf(r).OutcomeStatusCode = response[r]
  <2>1. Served(r)
    BY <1>1 DEF DataInv, HandlersInStep, HandlerInStep
  <2>. QED
    BY <1>1, <2>1 DEF Served, FinalStatus, ObservationOf
<1>2. DataInv => OutcomeIsResponseWhenFinal
  BY <1>1 DEF OutcomeIsResponseWhenFinal
<1>. QED
  BY <1>2, DataInvariance, PTL

(***************************************************************************)
(* Between two resets no evidence disappears, changes or moves.            *)
(***************************************************************************)
THEOREM EvidenceGrowth == Spec => EvidenceOnlyGrows
<1>. DEFINE Grows ==
        /\ Len(observations) <= Len(observations')
        /\ \A i \in 1 .. Len(observations) : observations'[i] = observations[i]
<1>1. ASSUME DataInv, [Next]_vars, generation' = generation
      PROVE  Grows
  <2>. USE DEF DataInv, TypeOK, StoreTypeOK
  <2>1. CASE observations' = observations
    BY <1>1, <2>1
  <2>2. ASSUME NEW r \in Requests, Record(r)
        PROVE  Grows
    <3>1. ObservationOf(r) \in Observation
      BY <1>1, <2>2, ObservationType
      DEF Record, HandlersInStep, HandlerInStep, Served
    <3>. QED
      BY <1>1, <2>2, <3>1 DEF Record, RecordObservation
  <2>3. CASE StartOver
    <3>1. generation' = generation + 1 /\ generation \in Nat
      BY <1>1, <2>3 DEF StartOver, Reset
    <3>. QED
      BY <1>1, <3>1
  <2>. QED
    BY <1>1, <2>1, <2>2, <2>3
    DEF Next, DataStep, Handle, Arrive, Match, WriteResponse, Return,
        ConnectionLost, Reconfigure, ConfigureResponseRule
<1>2. DataInv /\ [Next]_vars => [generation' = generation => Grows]_vars
  BY <1>1
<1>. QED
  BY <1>2, DataInvariance, PTL DEF Spec, EvidenceOnlyGrows

=============================================================================
