----------------------------- MODULE Simulator -----------------------------
(***************************************************************************)
(* What Echo MCP promises a client that makes one call at a time and does  *)
(* not reset while requests are being served: every tool call and every    *)
(* REST request happens at once.  The state is the configured behavior and *)
(* its standing, the active contract, and the evidence.                    *)
(***************************************************************************)
EXTENDS BagsExt, Sequences

CONSTANTS
  Behaviors, NoRule,       \* as in Store
  Contracts, NoContract,   \* as in ContractManager
  Conforms,
  RequestLines,            \* the method and path of requests
  DeliveryObservations     \* what a webhook delivery may leave in the log

VARIABLES
  behavior,    \* the rule that answers, or NoRule
  standing,    \* how the behavior was admitted
  detached,    \* a forced change of contract left the behavior behind
  contract,    \* the active contract with its mode, or NoContract
  evidence,    \* the bag of observations
  deliveries   \* the webhook evidence, oldest first

simulatorVars == <<behavior, standing, detached, contract, evidence, deliveries>>

NoEvidence == [observation \in {} |-> 1]   \* the empty bag

ContractModes ==
  [contract : Contracts, validationMode : {"strict", "warn", "off"}]

Init ==
  /\ behavior = NoRule
  /\ standing = "none"
  /\ detached = FALSE
  /\ contract \in ContractModes \cup {NoContract}
  /\ evidence = NoEvidence
  /\ deliveries = <<>>

-----------------------------------------------------------------------------
(***************************************************************************)
(* Without a contract a behavior is a manual mock; with one it conforms,   *)
(* or the mode or the caller waived the check.                             *)
(***************************************************************************)
Admits(rule, how) ==
  \/ how = "manual" /\ contract = NoContract
  \/ how = "checked" /\ contract # NoContract
       /\ rule \in Conforms[contract.contract]
  \/ how = "waived" /\ contract # NoContract

Configure(rule) ==
  /\ \E how \in {"manual", "checked", "waived"} :
       Admits(rule, how) /\ standing' = how
  /\ behavior' = rule
  /\ detached' = FALSE
  /\ UNCHANGED <<contract, evidence, deliveries>>

ChangeContract ==
  /\ contract' \in ContractModes \cup {NoContract}
  /\ detached' = (detached \/ behavior # NoRule)
  /\ UNCHANGED <<behavior, standing, evidence, deliveries>>

Reset ==
  /\ behavior' = NoRule
  /\ standing' = "none"
  /\ detached' = FALSE
  /\ evidence' = NoEvidence
  /\ deliveries' = <<>>
  /\ UNCHANGED contract

Deliver ==
  /\ \E observation \in DeliveryObservations :
       deliveries' = Append(deliveries, observation)
  /\ UNCHANGED <<behavior, standing, detached, contract, evidence>>

\* A request that matches nothing leaves no trace: it is a stuttering step.
Serve(line) ==
  /\ behavior # NoRule
  /\ behavior.Method = line.Method
  /\ behavior.Path = line.Path
  /\ evidence' = BagAdd(evidence, [RequestMethod |-> line.Method,
                                   RequestPath |-> line.Path,
                                   MatchedRuleID |-> behavior.ID,
                                   OutcomeStatusCode |-> behavior.StatusCode])
  /\ UNCHANGED <<behavior, standing, detached, contract, deliveries>>

Next ==
  \/ \E rule \in Behaviors : Configure(rule)
  \/ ChangeContract
  \/ Reset
  \/ Deliver
  \/ \E line \in RequestLines : Serve(line)

Spec == Init /\ [][Next]_simulatorVars

-----------------------------------------------------------------------------
(***************************************************************************)
(* A behavior that passed the check of a contract conforms to the contract *)
(* that is active, until a forced change detaches it.                      *)
(***************************************************************************)
CheckedBehaviorConforms ==
  (standing = "checked" /\ ~ detached) =>
    /\ contract # NoContract
    /\ behavior \in Conforms[contract.contract]

=============================================================================
