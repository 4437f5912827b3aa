--------------------------- MODULE EchoMCP_proofs ---------------------------
(***************************************************************************)
(* Proofs about the composed program: the invariants of each plane survive *)
(* the steps of the other, for any number of calls and requests in flight, *)
(* with or without a disciplined client; and together they keep what       *)
(* net/http refuses from the handlers.                                     *)
(***************************************************************************)
EXTENDS EchoMCP, ControlPlane_proofs, DataPlane_proofs, FiniteSetTheorems

USE DEF storeVars, sharedVars, controlVars, controlPlaneVars, dataVars, vars

(***************************************************************************)
(* The rule a handler copied was stored, so it passed the tool's checks.   *)
(***************************************************************************)
Writable == \A r \in Requests : handler[r] = "matched" => WritableStatus(rule[r].StatusCode)

EchoInv == ControlInv /\ DataInv /\ Writable /\ NoHandlerPanics

(***************************************************************************)
(* What a call does to the store: it replaces or keeps the rule and leaves *)
(* the REST evidence alone, or it resets.                                  *)
(***************************************************************************)
LEMMA CallOnStore ==
  ASSUME NEW c \in Callers, ControlStep(c)
  PROVE  UNCHANGED <<generation, observations>> \/ Reset
<1>1. CASE Begin(c) \/ Finish(c)
  BY <1>1 DEF Begin, Finish
<1>2. CASE Configure(c)
  BY <1>2
  DEF Configure, RefuseBehavior, ValidateBehavior, DiscloseRejection,
      StoreBehavior, WarnIfManual, GuideIfValidated, GuideOtherwise,
      DiscloseValidation, ConfigureResponseRule
<1>3. CASE ChangeContract(c)
  BY <1>3 DEF ChangeContract, CheckLoad, ActivateContract, CheckUnload, ClearContract
<1>4. CASE ResetStore(c) \/ ReadContractStatus(c)
  BY <1>4 DEF ResetStore, ReadContractStatus
<1>5. CASE GetObservations(c)
  BY <1>5 DEF GetObservations, ListObservations, GuideEvidence, ListDeliveries
<1>6. CASE SendWebhookEvent(c)
  BY <1>6 DEF SendWebhookEvent, CheckEvent, Post, RecordDelivery,
      RecordWebhookDeliveryObservation
<1>. QED
  BY <1>1, <1>2, <1>3, <1>4, <1>5, <1>6 DEF ControlStep, HandleCall

(***************************************************************************)
(* A call is to the handlers a change of the rule or a reset.              *)
(***************************************************************************)
LEMMA ControlOnData ==
  ASSUME EchoInv, NEW c \in Callers, ControlStep(c), UNCHANGED dataVars
  PROVE  EchoInv'
<1>. USE DEF EchoInv, DataInv
<1>1. ControlInv'
  BY NextControlPreserves DEF NextControl
<1>2. TypeOK'
  BY <1>1 DEF ControlInv, TypeOKControl, TypeOK, DataTypeOK
<1>3. generation <= generation'
  BY CallOnStore DEF Reset, TypeOK, StoreTypeOK
<1>4. HandlersInStep'
  <2>1. ASSUME NEW q \in Requests
        PROVE  HandlerInStep(q)'
    BY <1>2, <1>3, InStepUntouched DEF HandlersInStep
  <2>. QED
    BY <2>1 DEF HandlersInStep
<1>5. EvidenceIsExact'
  BY CallOnStore, EvidenceUntouched, EvidenceAfterReset
<1>6. Writable' /\ NoHandlerPanics'
  BY DEF Writable, WritableStatus, NoHandlerPanics
<1>. QED
  BY <1>1, <1>2, <1>4, <1>5, <1>6

(***************************************************************************)
(* A request is to the calls a change of the REST evidence.                *)
(***************************************************************************)
LEMMA RequestOnStore ==
  ASSUME NEW r \in Requests, DataStep(r)
  PROVE  UNCHANGED <<generation, responseRule, webhookDeliveries>>
BY DEF DataStep, Handle, Arrive, Match, WriteResponse, Record, Return,
       ConnectionLost, RecordObservation

\* A handler's step keeps the invariant of the calls.
LEMMA DataOnControl ==
  ASSUME EchoInv, NEW r \in Requests, DataStep(r), UNCHANGED <<active, controlVars>>
  PROVE  ControlInv'
<1>. USE DEF EchoInv
<1>1. TypeOK'
  BY NextPreserves DEF DataInv, Next
<1>2. TypeOKControl'
  BY <1>1 DEF TypeOK, ControlInv, TypeOKControl, ContractTypeOK, ControlTypeOK
<1>3. ASSUME NEW c \in Callers
      PROVE  CallInStep(c)'
  BY CallUntouched DEF ControlInv, CallsInStep
<1>4. StoredRuleIsJustified'
  BY RequestOnStore, JustifiedUntouched DEF ControlInv
<1>. QED
  BY <1>2, <1>3, <1>4 DEF ControlInv, CallsInStep

(***************************************************************************)
(* A handler copies the stored rule, whose status net/http takes.          *)
(***************************************************************************)
LEMMA MatchIsWritable ==
  ASSUME EchoInv, NEW r \in Requests, DataStep(r)
  PROVE  Writable' /\ NoHandlerPanics'
<1>. USE DEF EchoInv, Writable, NoHandlerPanics, DataInv, TypeOK, DataTypeOK
<1>1. CASE Match(r)
  <2>1. HasResponseRule => WritableStatus(responseRule.StatusCode)
    BY DEF ControlInv, StoredRuleIsJustified, WritableStatus
  <2>2. handler'[r] = "matched" => WritableStatus(rule'[r].StatusCode)
    BY <1>1, <2>1 DEF Match, MatchResponseRule
  <2>3. handler'[r] # "panicked"
    BY <1>1 DEF Match
  <2>4. \A q \in Requests \ {r} : handler'[q] = handler[q] /\ rule'[q] = rule[q]
    BY <1>1 DEF Match
  <2>. QED
    BY <2>2, <2>3, <2>4, SMTT(60) DEF WritableStatus
<1>2. CASE WriteResponse(r)
  <2>1. WritableStatus(rule[r].StatusCode)
    BY <1>2 DEF WriteResponse
  <2>2. handler' = [handler EXCEPT ![r] = "written"] /\ rule' = rule
    BY <1>2, <2>1 DEF WriteResponse
  <2>. QED
    BY <2>2 DEF WritableStatus
<1>3. CASE Arrive(r) \/ Record(r) \/ Return(r) \/ ConnectionLost(r)
  <2>1. PICK place \in {"arrived", "recorded", "returned", handler[r]} :
          handler' = [handler EXCEPT ![r] = place] /\ rule' = rule
    BY <1>3 DEF Arrive, Record, Return, ConnectionLost
  <2>. QED
    BY <2>1 DEF WritableStatus
<1>. QED
  BY <1>1, <1>2, <1>3 DEF DataStep, Handle

(***************************************************************************)
(* The composition keeps the invariants of its parts.                      *)
(***************************************************************************)
LEMMA EchoInitEstablishes == EchoInit => EchoInv
<1>. SUFFICES ASSUME EchoInit PROVE EchoInv
  OBVIOUS
<1>1. ControlInv /\ DataInv
  BY InitControlEstablishes, InitEstablishes DEF EchoInit, InitControl, Init
<1>2. Writable /\ NoHandlerPanics
  BY DEF EchoInit, DataInit, Writable, NoHandlerPanics
<1>. QED
  BY <1>1, <1>2 DEF EchoInv

\* Each plane keeps its invariant and the other's.
LEMMA EchoNextPreserves == EchoInv /\ [EchoNext]_echoVars => EchoInv'
<1>. SUFFICES ASSUME EchoInv, [EchoNext]_echoVars PROVE EchoInv'
  OBVIOUS
<1>1. ASSUME NEW c \in Callers, ControlStep(c), UNCHANGED dataVars
      PROVE  EchoInv'
  BY <1>1, ControlOnData
<1>2. ASSUME NEW r \in Requests, DataStep(r), UNCHANGED <<active, controlVars>>
      PROVE  EchoInv'
  <2>1. DataInv'
    BY <1>2, NextPreserves DEF EchoInv, Next
  <2>. QED
    BY <1>2, <2>1, DataOnControl, MatchIsWritable DEF EchoInv
<1>3. CASE UNCHANGED echoVars
  <2>1. ControlInv' /\ DataInv'
    BY <1>3, NextControlPreserves, NextPreserves DEF EchoInv, echoVars
  <2>. QED
    BY <1>3, <2>1 DEF EchoInv, echoVars, Writable, WritableStatus, NoHandlerPanics
<1>. QED
  BY <1>1, <1>2, <1>3 DEF EchoNext

(***************************************************************************)
(* The invariant of the composed program, whatever its client does.        *)
(***************************************************************************)
THEOREM EchoInvariance == EchoSpec \/ DisciplinedSpec => []EchoInv
<1>1. EchoNext /\ ResetsBetweenScenarios => EchoNext
  OBVIOUS
<1>. QED
  BY <1>1, EchoInitEstablishes, EchoNextPreserves, PTL DEF EchoSpec, DisciplinedSpec

(***************************************************************************)
(* No tool call, however it interleaves with others, makes a handler of    *)
(* the data plane panic.                                                   *)
(***************************************************************************)
THEOREM NoPanicCorrectness == EchoSpec \/ DisciplinedSpec => []NoHandlerPanics
<1>1. EchoInv => NoHandlerPanics
  BY DEF EchoInv
<1>. QED
  BY <1>1, EchoInvariance, PTL

(***************************************************************************)
(* Under the real control plane, too, the log is the exact evidence of its *)
(* generation, and the stored rule is justified while requests are served. *)
(***************************************************************************)
THEOREM ComposedCorrectness ==
  EchoSpec \/ DisciplinedSpec => [](EvidenceIsExact /\ StoredRuleIsJustified)
<1>1. EchoInv => EvidenceIsExact /\ StoredRuleIsJustified
  BY DEF EchoInv, ControlInv, DataInv
<1>. QED
  BY <1>1, EchoInvariance, PTL

\* The serial invariant speaks of nothing that a request changes.
LEMMA SerialUntouched ==
  ASSUME SerialInv, UNCHANGED <<responseRule, webhookDeliveries, active, controlVars>>
  PROVE  SerialInv'
BY DEF SerialInv, BehaviorBelongsToContract, HasResponseRule, ReadsHold,
       ReplyHolds, Configured, ConfiguredReply, DisclosesContract,
       ValidationActive, GuidanceFor, EvidenceGuidance

\* With one call at a time the serial invariant holds while requests are served.
LEMMA SerialInvariance ==
  ASSUME \A c, d \in Callers : c = d
  PROVE  EchoSpec \/ DisciplinedSpec => []SerialInv
<1>1. EchoInit => SerialInv
  BY SerialInit DEF EchoInit, InitControl
<1>2. EchoInv /\ SerialInv /\ [EchoNext]_echoVars => SerialInv'
  <2>. SUFFICES ASSUME EchoInv, SerialInv, [EchoNext]_echoVars PROVE SerialInv'
    OBVIOUS
  <2>1. CASE \E c \in Callers : ControlStep(c)
    BY <2>1, SerialStep DEF EchoInv, NextControl
  <2>2. CASE \E r \in Requests : DataStep(r) /\ UNCHANGED <<active, controlVars>>
    BY <2>2, RequestOnStore, SerialUntouched
  <2>3. CASE UNCHANGED echoVars
    BY <2>3, SerialUntouched DEF echoVars
  <2>. QED
    BY <2>1, <2>2, <2>3 DEF EchoNext
<1>3. EchoNext /\ ResetsBetweenScenarios => EchoNext
  OBVIOUS
<1>. QED
  BY EchoInvariance, <1>1, <1>2, <1>3, PTL DEF EchoSpec, DisciplinedSpec

(***************************************************************************)
(* With one call at a time the promises to the client hold while requests  *)
(* are served: a stored behavior belongs to the active contract unless a   *)
(* call forced the change, and replies agree with the runtime.             *)
(***************************************************************************)
THEOREM SequentialCorrectness ==
  ASSUME \A c, d \in Callers : c = d
  PROVE  EchoSpec \/ DisciplinedSpec =>
           [](BehaviorBelongsToContract /\ ReplyIsCoherent)
BY SerialInvariance, SerialMeaning, PTL

(***************************************************************************)
(* To that client get_observations never says there is no evidence and     *)
(* lists some, nor the opposite, whatever requests are served between the  *)
(* one reading of the observations and the three of the deliveries         *)
(* (mcp_server.go, get_observations).                                      *)
(***************************************************************************)
THEOREM EvidenceReplyCorrectness ==
  ASSUME \A c, d \in Callers : c = d
  PROVE  EchoSpec \/ DisciplinedSpec => []EvidenceReplyIsCoherent
BY SerialInvariance, SerialMeaning, PTL

-----------------------------------------------------------------------------
(***************************************************************************)
(* One more entry is one more copy.                                        *)
(***************************************************************************)
LEMMA EntryAdded ==
  ASSUME NEW f, NEW g, NEW x, NEW o,
         IsFiniteSet(DOMAIN f), x \notin DOMAIN f,
         DOMAIN g = DOMAIN f \cup {x}, g[x] = o,
         \A y \in DOMAIN f : g[y] = f[y]
  PROVE  ToBag(g) = Abstract!BagAdd(ToBag(f), o)
<1>. DEFINE In(p) == {y \in DOMAIN f : f[y] = p}
            In2(p) == {y \in DOMAIN g : g[y] = p}
<1>1. \A p : IsFiniteSet(In(p))
  <2>. TAKE p
  <2>. HIDE DEF In
  <2>. QED BY FS_Subset DEF In
<1>2. \A p : p # o => In2(p) = In(p)
  OBVIOUS
<1>3. In2(o) = In(o) \cup {x} /\ x \notin In(o)
  OBVIOUS
<1>4. Cardinality(In2(o)) = Cardinality(In(o)) + 1
  <2>. HIDE DEF In, In2
  <2>. QED BY <1>1, <1>3, FS_AddElement
<1>5. o \notin {f[y] : y \in DOMAIN f} => Cardinality(In2(o)) = 1
  <2>. SUFFICES ASSUME o \notin {f[y] : y \in DOMAIN f} PROVE Cardinality(In2(o)) = 1
    OBVIOUS
  <2>1. In(o) = {}
    OBVIOUS
  <2>. QED BY <1>4, <2>1, FS_EmptySet
<1>6. {g[y] : y \in DOMAIN g} = {f[y] : y \in DOMAIN f} \cup {o}
  OBVIOUS
<1>7. ToBag(f) = [p \in {f[y] : y \in DOMAIN f} |-> Cardinality(In(p))]
  BY DEF ToBag, Range
<1>8. ToBag(g) = [p \in {f[y] : y \in DOMAIN f} \cup {o} |-> Cardinality(In2(p))]
  BY <1>6 DEF ToBag, Range
<1>. HIDE DEF In, In2
<1>9. CASE o \in {f[y] : y \in DOMAIN f}
  <2>. DEFINE D == {f[y] : y \in DOMAIN f}
  <2>1. D \cup {o} = D /\ o \in D
    BY <1>9
  <2>2. Abstract!BagAdd(ToBag(f), o) =
          [p \in D |-> IF p = o THEN Cardinality(In(p)) + 1 ELSE Cardinality(In(p))]
    BY <1>7, <2>1 DEF Abstract!BagAdd
  <2>3. ToBag(g) = [p \in D |-> Cardinality(In2(p))]
    BY <1>8, <2>1
  <2>. HIDE DEF D
  <2>. QED
    BY <1>2, <1>4, <2>2, <2>3
<1>10. CASE o \notin {f[y] : y \in DOMAIN f}
  BY <1>2, <1>5, <1>7, <1>8, <1>10 DEF Abstract!BagAdd
<1>. QED BY <1>9, <1>10

\* How often e is in the bag B; and that B is a bag.
Copies(B, e) == IF e \in DOMAIN B THEN B[e] ELSE 0

Counts(B) == B \in [DOMAIN B -> Nat]

(***************************************************************************)
(* Adding an observation adds one copy of it and leaves the others.        *)
(***************************************************************************)
LEMMA CopiesAdded ==
  ASSUME NEW B, NEW o, Counts(B)
  PROVE  /\ DOMAIN Abstract!BagAdd(B, o) = DOMAIN B \cup {o}
         /\ Counts(Abstract!BagAdd(B, o))
         /\ \A e : Copies(Abstract!BagAdd(B, o), e) =
                     IF e = o THEN Copies(B, e) + 1 ELSE Copies(B, e)
<1>1. CASE o \in DOMAIN B
  <2>1. DOMAIN B \cup {o} = DOMAIN B
    BY <1>1
  <2>. QED
    BY <1>1, <2>1 DEF Abstract!BagAdd, Copies, Counts
<1>2. CASE o \notin DOMAIN B
  BY <1>2 DEF Abstract!BagAdd, Copies, Counts
<1>. QED
  BY <1>1, <1>2

(***************************************************************************)
(* The sum of two bags holds the copies of both, and bags that hold the    *)
(* same copies of everything are equal.                                    *)
(***************************************************************************)
LEMMA CopiesSummed ==
  ASSUME NEW A, NEW B, Counts(A), Counts(B)
  PROVE  /\ DOMAIN (A (+) B) = DOMAIN A \cup DOMAIN B
         /\ Counts(A (+) B)
         /\ \A e : Copies(A (+) B, e) = Copies(A, e) + Copies(B, e)
BY DEF (+), Copies, Counts

\* Bags with the same copies of everything are equal.
LEMMA SameCopies ==
  ASSUME NEW A, NEW B, Counts(A), Counts(B), DOMAIN A = DOMAIN B,
         \A e : Copies(A, e) = Copies(B, e)
  PROVE  A = B
BY DEF Copies, Counts

(***************************************************************************)
(* An observation added to either part of a sum is added to the sum.       *)
(***************************************************************************)
LEMMA SumGrows ==
  ASSUME NEW A, NEW B, NEW o, Counts(A), Counts(B)
  PROVE  /\ Abstract!BagAdd(A, o) (+) B = Abstract!BagAdd(A (+) B, o)
         /\ A (+) Abstract!BagAdd(B, o) = Abstract!BagAdd(A (+) B, o)
<1>1. \A e : Copies(A, e) \in Nat /\ Copies(B, e) \in Nat
  BY DEF Copies, Counts
<1>2. Counts(Abstract!BagAdd(A, o)) /\ Counts(Abstract!BagAdd(B, o)) /\ Counts(A (+) B)
  BY CopiesAdded, CopiesSummed
<1>3. Counts(Abstract!BagAdd(A (+) B, o)) /\ Counts(Abstract!BagAdd(A, o) (+) B) /\ Counts(A (+) Abstract!BagAdd(B, o))
  BY <1>2, CopiesAdded, CopiesSummed
<1>4. /\ DOMAIN Abstract!BagAdd(A, o) = DOMAIN A \cup {o}
      /\ \A e : Copies(Abstract!BagAdd(A, o), e) = IF e = o THEN Copies(A, e) + 1 ELSE Copies(A, e)
  BY CopiesAdded
<1>5. /\ DOMAIN Abstract!BagAdd(B, o) = DOMAIN B \cup {o}
       /\ \A e : Copies(Abstract!BagAdd(B, o), e) = IF e = o THEN Copies(B, e) + 1 ELSE Copies(B, e)
  BY CopiesAdded
<1>6. /\ DOMAIN (A (+) B) = DOMAIN A \cup DOMAIN B
      /\ \A e : Copies(A (+) B, e) = Copies(A, e) + Copies(B, e)
  BY CopiesSummed
<1>7. /\ DOMAIN Abstract!BagAdd(A (+) B, o) = DOMAIN (A (+) B) \cup {o}
      /\ \A e : Copies(Abstract!BagAdd(A (+) B, o), e) =
                  IF e = o THEN Copies(A (+) B, e) + 1 ELSE Copies(A (+) B, e)
  BY <1>2, CopiesAdded
<1>8. /\ DOMAIN (Abstract!BagAdd(A, o) (+) B) = DOMAIN Abstract!BagAdd(A, o) \cup DOMAIN B
      /\ \A e : Copies(Abstract!BagAdd(A, o) (+) B, e) = Copies(Abstract!BagAdd(A, o), e) + Copies(B, e)
  BY <1>2, CopiesSummed
<1>9. /\ DOMAIN (A (+) Abstract!BagAdd(B, o)) = DOMAIN A \cup DOMAIN Abstract!BagAdd(B, o)
      /\ \A e : Copies(A (+) Abstract!BagAdd(B, o), e) = Copies(A, e) + Copies(Abstract!BagAdd(B, o), e)
  BY <1>2, CopiesSummed
<1>10. Abstract!BagAdd(A, o) (+) B = Abstract!BagAdd(A (+) B, o)
  <2>1. DOMAIN (Abstract!BagAdd(A, o) (+) B) = DOMAIN Abstract!BagAdd(A (+) B, o)
    BY <1>4, <1>6, <1>7, <1>8
  <2>2. \A e : Copies(Abstract!BagAdd(A, o) (+) B, e) = Copies(Abstract!BagAdd(A (+) B, o), e)
    BY <1>1, <1>4, <1>6, <1>7, <1>8
  <2>. QED
    BY <1>3, <2>1, <2>2, SameCopies
<1>11. A (+) Abstract!BagAdd(B, o) = Abstract!BagAdd(A (+) B, o)
  <2>1. DOMAIN (A (+) Abstract!BagAdd(B, o)) = DOMAIN Abstract!BagAdd(A (+) B, o)
    BY <1>5, <1>6, <1>7, <1>9
  <2>2. \A e : Copies(A (+) Abstract!BagAdd(B, o), e) = Copies(Abstract!BagAdd(A (+) B, o), e)
    BY <1>1, <1>5, <1>6, <1>7, <1>9
  <2>. QED
    BY <1>3, <2>1, <2>2, SameCopies
<1>. QED
  BY <1>10, <1>11

(***************************************************************************)
(* The entries of a finite log make a bag.                                 *)
(***************************************************************************)
LEMMA ToBagType ==
  ASSUME NEW f, IsFiniteSet(DOMAIN f)
  PROVE  Counts(ToBag(f))
<1>1. \A p : Cardinality({y \in DOMAIN f : f[y] = p}) \in Nat
  BY FS_Subset, FS_CardinalityType
<1>. QED
  BY <1>1 DEF ToBag, Counts

-----------------------------------------------------------------------------
(***************************************************************************)
(* The refinement, for a client with one call at a time that resets when   *)
(* no request is in flight.  What it needs beside the invariants so far:   *)
(* the evidence still to be appended is finite, however many requests      *)
(* there are, and a delivery about to be recorded is one of its call's.    *)
(***************************************************************************)
PossibleDeliveries ==
  UNION {Deliveries(RegisteredEndpoint, input.EventID, ResponseStatuses) :
           input \in {t \in ToolCalls : t.tool = "send_webhook_event"}}

PostedIsPossible ==
  \A c \in Callers : pc[c] = "posted" => reply[c].webhooks[1] \in PossibleDeliveries

RefinementInv ==
  /\ EchoInv
  /\ SerialInv
  /\ PostedIsPossible
  /\ IsFiniteSet(PendingEvidence)

PendingLog == [r \in PendingEvidence |-> ObservationOf(r)]

(***************************************************************************)
(* What a step of a handler does to the evidence: the request is matched   *)
(* and its evidence is pending, or the evidence moves to the log, or       *)
(* neither changes.                                                        *)
(***************************************************************************)
MatchStep(r) ==
  /\ PendingEvidence' = PendingEvidence \cup {r} /\ r \notin PendingEvidence
  /\ HasResponseRule
  /\ RequestLine[r].Method = responseRule.Method
  /\ RequestLine[r].Path = responseRule.Path
  /\ rule'[r] = responseRule
  /\ \A q \in Requests \ {r} : rule'[q] = rule[q]
  /\ observations' = observations

RecordStep(r) ==
  /\ PendingEvidence' = PendingEvidence \ {r} /\ r \in PendingEvidence
  /\ rule' = rule
  /\ observations' = Append(observations, ObservationOf(r))

QuietStep ==
  /\ PendingEvidence' = PendingEvidence
  /\ rule' = rule
  /\ observations' = observations

\* A handler's step matches, records, or leaves the evidence alone.
LEMMA DataStepOnEvidence ==
  ASSUME EchoInv, NEW r \in Requests, DataStep(r)
  PROVE  MatchStep(r) \/ RecordStep(r) \/ QuietStep
<1>. USE DEF EchoInv, DataInv, TypeOK, DataTypeOK, PendingEvidence
<1>1. CASE Match(r)
  <2>1. CASE MatchResponseRule(RequestLine[r].Method, RequestLine[r].Path)
    BY <1>1, <2>1 DEF Match, MatchResponseRule, MatchStep
  <2>2. CASE ~ MatchResponseRule(RequestLine[r].Method, RequestLine[r].Path)
    BY <1>1, <2>2 DEF Match, QuietStep
  <2>. QED
    BY <2>1, <2>2
<1>2. CASE WriteResponse(r)
  <2>1. WritableStatus(rule[r].StatusCode)
    BY <1>2 DEF WriteResponse, Writable
  <2>. QED
    BY <1>2, <2>1 DEF WriteResponse, QuietStep
<1>3. CASE Record(r)
  BY <1>3 DEF Record, RecordObservation, RecordStep
<1>4. CASE Arrive(r) \/ Return(r) \/ ConnectionLost(r)
  BY <1>4 DEF Arrive, Return, ConnectionLost, QuietStep
<1>. QED
  BY <1>1, <1>2, <1>3, <1>4 DEF DataStep, Handle

(***************************************************************************)
(* What it does to the bag: nothing, or one more copy of the observation   *)
(* of the request that was matched.                                        *)
(***************************************************************************)
LEMMA LogFinite ==
  ASSUME EchoInv
  PROVE  IsFiniteSet(DOMAIN observations)
BY FS_Interval DEF EchoInv, DataInv, TypeOK, StoreTypeOK

\* A match adds one observation to the evidence.
LEMMA MatchCounts ==
  ASSUME RefinementInv, NEW r \in Requests, MatchStep(r)
  PROVE  EvidenceBag' = Abstract!BagAdd(EvidenceBag, ObservationOf(r)')
<1>. DEFINE f == PendingLog
            g == PendingLog'
<1>1. /\ DOMAIN f = PendingEvidence
      /\ DOMAIN g = PendingEvidence \cup {r}
      /\ g[r] = ObservationOf(r)'
  BY DEF MatchStep, PendingLog
<1>2. \A y \in DOMAIN f : g[y] = f[y]
  BY DEF MatchStep, PendingLog, PendingEvidence, ObservationOf
<1>3. IsFiniteSet(DOMAIN f) /\ r \notin DOMAIN f
  BY <1>1 DEF RefinementInv, MatchStep
<1>4. ToBag(g) = Abstract!BagAdd(ToBag(f), ObservationOf(r)')
  <2>. HIDE DEF f, g
  <2>. QED
    BY <1>1, <1>2, <1>3, EntryAdded
<1>5. Counts(ToBag(observations)) /\ Counts(ToBag(f))
  BY <1>3, LogFinite, ToBagType DEF RefinementInv
<1>6. /\ EvidenceBag = ToBag(observations) (+) ToBag(f)
      /\ EvidenceBag' = ToBag(observations) (+) ToBag(g)
  BY DEF EvidenceBag, PendingLog, MatchStep
<1>. HIDE DEF f, g
<1>. QED
  BY <1>4, <1>5, <1>6, SumGrows

\* A recorded observation was counted when it matched.
LEMMA RecordMoves ==
  ASSUME RefinementInv, NEW r \in Requests, RecordStep(r)
  PROVE  EvidenceBag' = EvidenceBag
<1>. DEFINE f == PendingLog
            g == PendingLog'
            o == ObservationOf(r)
<1>1. /\ DOMAIN f = DOMAIN g \cup {r} /\ r \notin DOMAIN g
      /\ f[r] = o
      /\ \A y \in DOMAIN g : f[y] = g[y]
  BY DEF RecordStep, PendingLog, PendingEvidence, ObservationOf
<1>2. IsFiniteSet(DOMAIN f) /\ IsFiniteSet(DOMAIN g)
  <2>1. DOMAIN f = PendingEvidence /\ DOMAIN g = PendingEvidence \ {r}
    BY DEF PendingLog, RecordStep
  <2>. QED
    BY <2>1, FS_RemoveElement DEF RefinementInv
<1>3. ToBag(f) = Abstract!BagAdd(ToBag(g), o)
  <2>. HIDE DEF f, g, o
  <2>. QED
    BY <1>1, <1>2, EntryAdded
<1>4. ToBag(observations') = Abstract!BagAdd(ToBag(observations), o)
  <2>1. /\ DOMAIN observations' = DOMAIN observations \cup {Len(observations) + 1}
        /\ Len(observations) + 1 \notin DOMAIN observations
        /\ observations'[Len(observations) + 1] = o
        /\ \A i \in DOMAIN observations : observations'[i] = observations[i]
    BY DEF RecordStep, RefinementInv, EchoInv, DataInv, TypeOK, StoreTypeOK
  <2>2. IsFiniteSet(DOMAIN observations)
    BY LogFinite DEF RefinementInv
  <2>. HIDE DEF o
  <2>. QED
    BY <2>1, <2>2, EntryAdded
<1>5. Counts(ToBag(observations)) /\ Counts(ToBag(g))
  BY <1>2, LogFinite, ToBagType DEF RefinementInv
<1>6. /\ EvidenceBag = ToBag(observations) (+) ToBag(f)
      /\ EvidenceBag' = ToBag(observations') (+) ToBag(g)
  BY DEF EvidenceBag, PendingLog
<1>. HIDE DEF f, g, o
<1>. QED
  BY <1>3, <1>4, <1>5, <1>6, SumGrows

\* The standing is a function of the admission.
LEMMA StandingKept ==
  ASSUME admission' = admission
  PROVE  Standing' = Standing
BY Zenon DEF Standing

(***************************************************************************)
(* Every step of a handler is a step of the Simulator or none.             *)
(***************************************************************************)
LEMMA DataStepRefines ==
  ASSUME RefinementInv, NEW r \in Requests, DataStep(r), UNCHANGED <<active, controlVars>>
  PROVE  [Abstract!Next]_Abstract!simulatorVars
<1>1. UNCHANGED <<responseRule, Standing, admission, active, webhookDeliveries>>
  BY RequestOnStore, StandingKept
<1>2. CASE MatchStep(r)
  <2>. DEFINE line == RequestLine[r]
  <2>1. EvidenceBag' = Abstract!BagAdd(EvidenceBag,
                         [RequestMethod |-> line.Method, RequestPath |-> line.Path,
                          MatchedRuleID |-> responseRule.ID,
                          OutcomeStatusCode |-> responseRule.StatusCode])
    BY <1>2, MatchCounts DEF MatchStep, ObservationOf
  <2>2. Abstract!Serve(line)
    BY <1>1, <1>2, <2>1 DEF Abstract!Serve, MatchStep, HasResponseRule
  <2>. QED
    BY <2>2 DEF Abstract!Next
<1>3. CASE RecordStep(r)
  BY <1>1, <1>3, RecordMoves DEF Abstract!simulatorVars
<1>4. CASE QuietStep
  <2>1. EvidenceBag' = EvidenceBag
    BY <1>4 DEF QuietStep, EvidenceBag, ObservationOf
  <2>. QED
    BY <1>1, <2>1 DEF Abstract!simulatorVars
<1>. QED
  BY <1>2, <1>3, <1>4, DataStepOnEvidence DEF RefinementInv

(***************************************************************************)
(* Every step of a call is a step of the Simulator or none: of its steps,  *)
(* one changes what the Simulator speaks of.                               *)
(***************************************************************************)
LEMMA EvidenceKept ==
  ASSUME UNCHANGED <<observations, dataVars>>
  PROVE  EvidenceBag' = EvidenceBag
BY DEF EvidenceBag, PendingEvidence, ObservationOf

\* A stored behavior is one that the Simulator configures.
LEMMA StoreRefines ==
  ASSUME RefinementInv, NEW c \in Callers, StoreBehavior(c), UNCHANGED dataVars
  PROVE  Abstract!Next
<1>. DEFINE new == call[c].rule
            verdict == reply[c].code
<1>1. /\ pc[c] = "validated" /\ call[c] \in ToolCalls /\ new \in Behaviors
      /\ snapshot[c] = active
      /\ Justified(new, active, verdict)
  BY ControlAssumption
  DEF StoreBehavior, At, RefinementInv, EchoInv, ControlInv, CallsInStep,
      CallInStep, HasCall, Checked, SerialInv, ReadsHold
<1>2. /\ responseRule' = new
      /\ admission' = [under |-> active, as |-> verdict, forced |-> FALSE]
      /\ UNCHANGED <<active, webhookDeliveries, EvidenceBag>>
  BY <1>1, EvidenceKept DEF StoreBehavior, ConfigureResponseRule
<1>3. /\ verdict = "manual" => Standing' = "manual"
      /\ verdict = "valid" => Standing' = "checked"
      /\ verdict \in {"skipped", "off", "warned"} => Standing' = "waived"
  <2>1. admission'.as = verdict
    BY <1>2
  <2>. QED
    BY <2>1, Zenon DEF Standing
<1>4. \E how \in {"manual", "checked", "waived"} :
        Abstract!Admits(new, how) /\ Standing' = how
  <2>1. CASE verdict = "manual"
    BY <1>1, <1>3, <2>1 DEF Justified, Abstract!Admits
  <2>2. CASE verdict = "valid"
    BY <1>1, <1>3, <2>2 DEF Justified, Abstract!Admits
  <2>3. CASE verdict \in {"skipped", "off", "warned"}
    BY <1>1, <1>3, <2>3 DEF Justified, Abstract!Admits
  <2>. QED
    BY <1>1, <2>1, <2>2, <2>3 DEF Justified, Accepted
<1>5. Abstract!Configure(new)
  BY <1>2, <1>4 DEF Abstract!Configure
<1>. QED
  BY <1>1, <1>5 DEF Abstract!Next

\* A load or an unload changes the contract as the Simulator does.
LEMMA ContractRefines ==
  ASSUME RefinementInv, NEW c \in Callers, ActivateContract(c) \/ ClearContract(c),
         UNCHANGED dataVars
  PROVE  Abstract!Next
<1>1. active' \in ActiveContract \cup {NoContract}
  BY DEF ActivateContract, ClearContract, Activate, Deactivate, At, RefinementInv,
         EchoInv, ControlInv, CallsInStep, CallInStep, Checked, Loadable, ActiveContract
<1>2. HasResponseRule => call[c].Force
  BY DEF ActivateContract, ClearContract, At, RefinementInv, SerialInv, ReadsHold
<1>3. PICK under, as : admission \in [under : under, as : as, forced : BOOLEAN]
  <2>1. admission \in Admission
    BY DEF RefinementInv, EchoInv, ControlInv, TypeOKControl, ControlTypeOK
  <2>. QED
    BY <2>1, Zenon DEF Admission
<1>4. /\ admission'.forced = (admission.forced \/ responseRule # NoRule)
      /\ admission'.as = admission.as
  BY <1>2, <1>3 DEF ActivateContract, ClearContract, DetachIfForced, HasResponseRule
<1>5. UNCHANGED <<responseRule, Standing, webhookDeliveries, EvidenceBag>>
  <2>1. Standing' = Standing
    BY <1>4, Zenon DEF Standing
  <2>. QED
    BY <2>1, EvidenceKept DEF ActivateContract, ClearContract
<1>6. Abstract!ChangeContract
  BY <1>1, <1>4, <1>5
  DEF Abstract!ChangeContract, Abstract!ContractModes, ActiveContract, ValidationModes
<1>. QED
  BY <1>6 DEF Abstract!Next

\* A reset between scenarios leaves no evidence, none pending either.
LEMMA ResetRefines ==
  ASSUME RefinementInv, NEW c \in Callers, ResetStore(c), UNCHANGED dataVars,
         ResetsBetweenScenarios
  PROVE  Abstract!Next
<1>1. InFlight = {}
  BY DEF ResetStore, Reset, ResetsBetweenScenarios, RefinementInv, EchoInv,
         DataInv, TypeOK, StoreTypeOK
<1>2. PendingEvidence' = {} /\ observations' = <<>>
  BY <1>1 DEF InFlight, PendingEvidence, ResetStore, Reset
<1>3. EvidenceBag' = [e \in {} |-> 1]
  BY <1>2 DEF EvidenceBag, ToBag, Range, (+)
<1>4. /\ responseRule' = NoRule /\ webhookDeliveries' = <<>> /\ active' = active
      /\ admission' = NoAdmission
  BY DEF ResetStore, Reset
<1>5. admission'.as = ""
  BY <1>4, Zenon DEF NoAdmission
<1>6. Standing' = "none" /\ admission'.forced = FALSE
  BY <1>4, <1>5, Zenon DEF Standing, NoAdmission
<1>7. Abstract!Reset
  BY <1>3, <1>4, <1>6 DEF Abstract!Reset, Abstract!NoEvidence
<1>. QED
  BY <1>7 DEF Abstract!Next

\* A recorded delivery is one that the Simulator may make.
LEMMA DeliveryRefines ==
  ASSUME RefinementInv, NEW c \in Callers, RecordDelivery(c), UNCHANGED dataVars
  PROVE  Abstract!Next
<1>1. reply[c].webhooks[1] \in PossibleDeliveries
  BY DEF RefinementInv, PostedIsPossible, RecordDelivery, At
<1>2. webhookDeliveries' = Append(webhookDeliveries, reply[c].webhooks[1])
  BY DEF RecordDelivery, RecordWebhookDeliveryObservation
<1>3. UNCHANGED <<responseRule, Standing, admission, active, EvidenceBag>>
  BY EvidenceKept, StandingKept DEF RecordDelivery, RecordWebhookDeliveryObservation
<1>4. Abstract!Deliver
  BY <1>1, <1>2, <1>3 DEF Abstract!Deliver, PossibleDeliveries
<1>. QED
  BY <1>4 DEF Abstract!Next

\* The other steps of a call change nothing that the Simulator speaks of.
LEMMA OtherCallStepsStutter ==
  ASSUME NEW c \in Callers, ControlStep(c), UNCHANGED dataVars,
         ~ (StoreBehavior(c) \/ ActivateContract(c) \/ ClearContract(c)
              \/ ResetStore(c) \/ RecordDelivery(c))
  PROVE  UNCHANGED Abstract!simulatorVars
<1>1. UNCHANGED <<storeVars, active, admission>>
  <2>1. CASE Begin(c) \/ Finish(c)
    BY <2>1 DEF Begin, Finish
  <2>2. CASE Configure(c)
    BY <2>2
    DEF Configure, RefuseBehavior, ValidateBehavior, DiscloseRejection,
        WarnIfManual, GuideIfValidated, GuideOtherwise, DiscloseValidation
  <2>3. CASE ChangeContract(c) \/ ReadContractStatus(c)
    BY <2>3 DEF ChangeContract, CheckLoad, CheckUnload, ReadContractStatus
  <2>4. CASE GetObservations(c)
    BY <2>4 DEF GetObservations, ListObservations, GuideEvidence, ListDeliveries
  <2>5. CASE SendWebhookEvent(c)
    BY <2>5 DEF SendWebhookEvent, CheckEvent, Post
  <2>. QED
    BY <2>1, <2>2, <2>3, <2>4, <2>5 DEF ControlStep, HandleCall
<1>. QED
  BY <1>1, EvidenceKept, StandingKept DEF Abstract!simulatorVars

(***************************************************************************)
(* The strengthening is inductive.                                         *)
(***************************************************************************)
LEMMA PostedStaysPossible ==
  ASSUME RefinementInv, NEW c \in Callers, ControlStep(c)
  PROVE  PostedIsPossible'
<1>1. TypeOKControl /\ call[c] \in ToolCall \cup {NoCall}
  BY DEF RefinementInv, EchoInv, ControlInv, TypeOKControl, ControlTypeOK
<1>2. ASSUME NEW q \in Callers, q # c, pc'[q] = "posted"
      PROVE  reply'[q].webhooks[1] \in PossibleDeliveries
  BY <1>1, <1>2, OthersUntouched DEF RefinementInv, PostedIsPossible
<1>3. ASSUME pc'[c] = "posted"
      PROVE  reply'[c].webhooks[1] \in PossibleDeliveries
  <2>1. Post(c)
    BY <1>1, <1>3
    DEF ControlStep, HandleCall, Begin, Finish, Configure, RefuseBehavior,
        ValidateBehavior, DiscloseRejection, StoreBehavior, WarnIfManual,
        GuideIfValidated, GuideOtherwise, DiscloseValidation, ChangeContract,
        CheckLoad, ActivateContract, CheckUnload, ClearContract, ResetStore,
        ReadContractStatus, GetObservations, ListObservations, GuideEvidence,
        ListDeliveries, SendWebhookEvent, CheckEvent, RecordDelivery, Goto,
        TypeOKControl, ControlTypeOK
  <2>2. call[c] \in ToolCalls /\ call[c].tool = "send_webhook_event"
    BY <2>1 DEF Post, At, RefinementInv, EchoInv, ControlInv, CallsInStep,
                CallInStep, HasCall
  <2>3. PICK delivery \in Deliveries(RegisteredEndpoint, call[c].EventID, ResponseStatuses) :
          reply' = [reply EXCEPT ![c].webhooks = <<delivery>>]
    BY <2>1 DEF Post
  <2>4. reply'[c].webhooks[1] = delivery
    <3>1. reply \in [Callers -> Reply]
      BY <1>1 DEF TypeOKControl, ControlTypeOK
    <3>2. PICK code, warning, guidance, status, rest, webhooks :
            reply[c] \in [code : code, manualWarning : warning, guidance : guidance,
                          status : status, rest : rest, webhooks : webhooks]
      BY <3>1, Zenon DEF Reply
    <3>. QED
      BY <2>3, <3>1, <3>2
  <2>. QED
    BY <2>2, <2>4 DEF PossibleDeliveries
<1>. QED
  BY <1>2, <1>3 DEF PostedIsPossible, PossibleDeliveries

\* Only finitely many requests have matched and not recorded.
LEMMA PendingStaysFinite ==
  ASSUME RefinementInv, NEW r \in Requests, DataStep(r)
  PROVE  IsFiniteSet(PendingEvidence)'
BY DataStepOnEvidence, FS_AddElement, FS_RemoveElement
DEF RefinementInv, MatchStep, RecordStep, QuietStep

\* The first states are first states of the Simulator.
LEMMA RefinementInit ==
  ASSUME EchoInit
  PROVE  RefinementInv /\ Abstract!Init
<1>1. EchoInv /\ SerialInv
  BY EchoInitEstablishes, SerialInit DEF EchoInit, InitControl
<1>2. PostedIsPossible
  BY DEF EchoInit, ControlInit, PostedIsPossible
<1>3. PendingEvidence = {}
  BY DEF EchoInit, DataInit, PendingEvidence
<1>4. IsFiniteSet(PendingEvidence)
  BY <1>3, FS_EmptySet
<1>5. EvidenceBag = [e \in {} |-> 1]
  BY <1>3 DEF EvidenceBag, ToBag, Range, (+), EchoInit, StoreInit
<1>6. admission.as = ""
  BY Zenon DEF EchoInit, ControlInit, NoAdmission
<1>7. Standing = "none" /\ admission.forced = FALSE
  BY <1>6, Zenon DEF Standing, EchoInit, ControlInit, NoAdmission
<1>8. active \in ActiveContract \cup {NoContract}
  BY DEF EchoInit, ContractInit, ActiveContract, ValidationModes
<1>9. Abstract!Init
  BY <1>5, <1>7, <1>8
  DEF Abstract!Init, Abstract!ContractModes, Abstract!NoEvidence,
      EchoInit, StoreInit, ActiveContract, ValidationModes
<1>. QED
  BY <1>1, <1>2, <1>4, <1>9 DEF RefinementInv

\* A step of the program is a step of the Simulator or none.
LEMMA RefinementStep ==
  ASSUME \A c, d \in Callers : c = d, RefinementInv,
         [EchoNext /\ ResetsBetweenScenarios]_echoVars
  PROVE  RefinementInv' /\ [Abstract!Next]_Abstract!simulatorVars
<1>1. EchoInv'
  BY EchoNextPreserves DEF RefinementInv
<1>2. ASSUME NEW c \in Callers, ControlStep(c), UNCHANGED dataVars,
             ResetsBetweenScenarios
      PROVE  RefinementInv' /\ [Abstract!Next]_Abstract!simulatorVars
  <2>1. SerialInv'
    BY <1>2, SerialStep DEF RefinementInv, EchoInv, NextControl
  <2>2. PostedIsPossible'
    BY <1>2, PostedStaysPossible
  <2>3. IsFiniteSet(PendingEvidence)'
    BY <1>2 DEF RefinementInv, PendingEvidence
  <2>4. [Abstract!Next]_Abstract!simulatorVars
    BY <1>2, StoreRefines, ContractRefines, ResetRefines, DeliveryRefines,
       OtherCallStepsStutter
  <2>. QED
    BY <1>1, <2>1, <2>2, <2>3, <2>4 DEF RefinementInv
<1>3. ASSUME NEW r \in Requests, DataStep(r), UNCHANGED <<active, controlVars>>
      PROVE  RefinementInv' /\ [Abstract!Next]_Abstract!simulatorVars
  <2>1. SerialInv'
    BY <1>3, RequestOnStore, SerialUntouched DEF RefinementInv
  <2>2. PostedIsPossible'
    BY <1>3 DEF RefinementInv, PostedIsPossible, PossibleDeliveries
  <2>. QED
    BY <1>1, <1>3, <2>1, <2>2, PendingStaysFinite, DataStepRefines DEF RefinementInv
<1>4. CASE UNCHANGED echoVars
  <2>1. SerialInv'
    BY <1>4, SerialUntouched DEF RefinementInv, echoVars
  <2>2. UNCHANGED <<storeVars, active, admission, dataVars>>
    BY <1>4 DEF echoVars
  <2>3. PostedIsPossible'
    BY <1>4 DEF RefinementInv, PostedIsPossible, PossibleDeliveries, echoVars
  <2>4. IsFiniteSet(PendingEvidence)'
    BY <2>2 DEF RefinementInv, PendingEvidence
  <2>5. UNCHANGED Abstract!simulatorVars
    BY <2>2, EvidenceKept, StandingKept DEF Abstract!simulatorVars
  <2>. QED
    BY <1>1, <2>1, <2>3, <2>4, <2>5 DEF RefinementInv
<1>. QED
  BY <1>2, <1>3, <1>4 DEF EchoNext

(***************************************************************************)
(* To a client with one call at a time that resets between scenarios, Echo *)
(* MCP is the Simulator, for any number of requests served meanwhile: each *)
(* call and each request takes effect at once, whatever the steps of their *)
(* handlers interleave with.                                               *)
(***************************************************************************)
THEOREM SimulatorRefinement ==
  ASSUME \A c, d \in Callers : c = d
  PROVE  DisciplinedSpec => ImplementsSimulator
BY RefinementInit, RefinementStep, PTL
DEF DisciplinedSpec, ImplementsSimulator, Abstract!Spec

(***************************************************************************)
(* A behavior has a standing exactly while there is one, and a contract    *)
(* with a behavior in place is exchanged only by detaching the behavior.   *)
(***************************************************************************)
StandingInv ==
  /\ responseRule = NoRule => Standing = "none"
  /\ Abstract!CheckedBehaviorConforms

(***************************************************************************)
(* The Simulator keeps a checked behavior with its contract, whatever the  *)
(* contracts and behaviors are.                                            *)
(***************************************************************************)
LEMMA SimulatorConforms == Abstract!Spec => []Abstract!CheckedBehaviorConforms
<1>. USE DEF StandingInv, Abstract!CheckedBehaviorConforms
<1>1. Abstract!Init => StandingInv
  BY DEF Abstract!Init
<1>2. StandingInv /\ [Abstract!Next]_Abstract!simulatorVars => StandingInv'
  <2>. SUFFICES ASSUME StandingInv, [Abstract!Next]_Abstract!simulatorVars
                PROVE  StandingInv'
    OBVIOUS
  <2>1. ASSUME NEW configured \in Behaviors, Abstract!Configure(configured)
        PROVE  StandingInv'
    <3>1. configured # NoRule
      BY StoreAssumption
    <3>. QED
      BY <2>1, <3>1 DEF Abstract!Configure, Abstract!Admits
  <2>2. CASE Abstract!ChangeContract
    <3>1. CASE responseRule = NoRule
      BY <2>2, <3>1 DEF Abstract!ChangeContract
    <3>2. CASE responseRule # NoRule
      BY <2>2, <3>2 DEF Abstract!ChangeContract
    <3>. QED
      BY <3>1, <3>2
  <2>3. CASE Abstract!Reset
    BY <2>3 DEF Abstract!Reset
  <2>4. CASE Abstract!Deliver
    BY <2>4 DEF Abstract!Deliver
  <2>5. ASSUME NEW line \in {RequestLine[r] : r \in Requests}, Abstract!Serve(line)
        PROVE  StandingInv'
    BY <2>5 DEF Abstract!Serve
  <2>6. CASE UNCHANGED Abstract!simulatorVars
    BY <2>6 DEF Abstract!simulatorVars
  <2>. QED
    BY <2>1, <2>2, <2>3, <2>4, <2>5, <2>6 DEF Abstract!Next
<1>3. StandingInv => Abstract!CheckedBehaviorConforms
  OBVIOUS
<1>. QED
  BY <1>1, <1>2, <1>3, PTL DEF Abstract!Spec

(***************************************************************************)
(* To a client with one call at a time that resets between scenarios, a    *)
(* behavior that passed the check of a contract (contract_manager.go,      *)
(* ValidateHTTPBehavior) conforms to the contract that is active, until a  *)
(* forced change detaches it.                                              *)
(***************************************************************************)
THEOREM CheckedCorrectness ==
  ASSUME \A c, d \in Callers : c = d
  PROVE  DisciplinedSpec => []Abstract!CheckedBehaviorConforms
BY SimulatorRefinement, SimulatorConforms, PTL DEF ImplementsSimulator

=============================================================================
