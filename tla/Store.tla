------------------------------- MODULE Store -------------------------------
(***************************************************************************)
(* The in-memory runtime state of Echo MCP (internal/state/store.go): one  *)
(* optional response rule, the REST observations, the webhook delivery     *)
(* observations and a generation counter, all behind one RWMutex.  Every   *)
(* method takes the lock once and calls nothing else, so each is a single  *)
(* step; the read methods are predicates and expressions over the state.   *)
(*                                                                         *)
(* The module is the shared memory of the control plane (ControlPlane) and *)
(* of the data plane (DataPlane); it has no specification of its own.      *)
(***************************************************************************)
EXTENDS Integers, Sequences

CONSTANTS
  Behaviors,     \* the response rules clients ask for: a set of ResponseRule
  NoRule,        \* the nil *ResponseRule
  MaxGeneration  \* bound: resets clients ask for

(***************************************************************************)
(* The blank string "" stands for every string that is empty once spaces   *)
(* are trimmed.                                                            *)
(***************************************************************************)
ResponseRule ==
  [ID : STRING, Method : STRING, Path : STRING,
   StatusCode : Int, ContentType : STRING, Body : STRING]

Observation ==
  [RequestMethod : STRING, RequestPath : STRING,
   MatchedRuleID : STRING, OutcomeStatusCode : Int]

(***************************************************************************)
(* The method of a delivery is always POST and the text of a transport     *)
(* error is abstracted to the outcome that reports it.                     *)
(***************************************************************************)
WebhookDeliveryObservation ==
  [EventID : STRING, EndpointName : STRING,
   Outcome : {"response_received", "transport_error"}, StatusCode : Int]

ASSUME StoreAssumption ==
  /\ Behaviors \subseteq ResponseRule
  /\ NoRule \notin ResponseRule
  /\ MaxGeneration \in Nat

VARIABLES
  generation,         \* number of resets so far
  responseRule,       \* the configured rule, or NoRule
  observations,       \* REST evidence, oldest first
  webhookDeliveries   \* webhook evidence, oldest first

storeVars == <<generation, responseRule, observations, webhookDeliveries>>

StoreTypeOK ==
  /\ generation \in Nat
  /\ responseRule \in ResponseRule \cup {NoRule}
  /\ observations \in Seq(Observation)
  /\ webhookDeliveries \in Seq(WebhookDeliveryObservation)

StoreInit ==
  /\ generation = 0
  /\ responseRule = NoRule
  /\ observations = <<>>
  /\ webhookDeliveries = <<>>

-----------------------------------------------------------------------------
(***************************************************************************)
(* Methods that write.  The generation is a uint64 that nothing reads but  *)
(* the request log line; 2^64 resets are out of reach, so it is a natural. *)
(***************************************************************************)

\* Mutant of Reset: the generation runs backwards.
ResetBackwards ==
  /\ responseRule' = NoRule
  /\ observations' = <<>>
  /\ webhookDeliveries' = <<>>
  /\ generation' = generation - 1

Reset ==
  /\ responseRule' = NoRule
  /\ observations' = <<>>
  /\ webhookDeliveries' = <<>>
  /\ generation' = generation + 1

ConfigureResponseRule(rule) ==
  /\ responseRule' = rule
  /\ UNCHANGED <<generation, observations, webhookDeliveries>>

\* Mutant of RecordObservation: newest first.
RecordObservationInFront(observation) ==
  /\ observations' = <<observation>> \o observations
  /\ UNCHANGED <<generation, responseRule, webhookDeliveries>>

RecordObservation(observation) ==
  /\ observations' = Append(observations, observation)
  /\ UNCHANGED <<generation, responseRule, webhookDeliveries>>

\* Mutant of RecordWebhookDeliveryObservation: newest first.
RecordWebhookDeliveryInFront(observation) ==
  /\ webhookDeliveries' = <<observation>> \o webhookDeliveries
  /\ UNCHANGED <<generation, responseRule, observations>>

RecordWebhookDeliveryObservation(observation) ==
  /\ webhookDeliveries' = Append(webhookDeliveries, observation)
  /\ UNCHANGED <<generation, responseRule, observations>>

(***************************************************************************)
(* Methods that read.                                                      *)
(***************************************************************************)
HasResponseRule == responseRule # NoRule

MatchResponseRule(method, path) ==
  /\ HasResponseRule
  /\ responseRule.Method = method
  /\ responseRule.Path = path

=============================================================================
