------------------------------ MODULE EchoMCP ------------------------------
(***************************************************************************)
(* The whole program (cmd/echo-mcp/main.go): the control plane and the     *)
(* data plane run side by side in one process and meet in the store; the   *)
(* contract manager belongs to the control plane alone.                    *)
(***************************************************************************)
EXTENDS ControlPlane, DataPlane, SequencesExt, Bags

echoVars == <<storeVars, active, controlVars, dataVars>>

EchoInit == StoreInit /\ ContractInit /\ ControlInit /\ DataInit

EchoNext ==
  \/ (\E c \in Callers : ControlStep(c)) /\ UNCHANGED dataVars
  \/ (\E r \in Requests : DataStep(r)) /\ UNCHANGED <<active, controlVars>>

EchoFairness ==
  /\ \A c \in Callers : WF_echoVars(HandleCall(c) /\ UNCHANGED dataVars)
  /\ \A r \in Requests :
       WF_echoVars(Handle(r) /\ UNCHANGED <<active, controlVars>>)

EchoSpec == EchoInit /\ [][EchoNext]_echoVars /\ EchoFairness

-----------------------------------------------------------------------------
(***************************************************************************)
(* A disciplined test: the client resets between scenarios, when the       *)
(* application has the answers to its requests                             *)
(* (docs/guides/ai-agent-usage.md, "Reset Before the Next Scenario").      *)
(***************************************************************************)
InFlight ==
  {r \in Requests : handler[r] \notin {"unsent", "returned", "panicked"}}

ResetsBetweenScenarios == generation' # generation => InFlight = {}

DisciplinedSpec ==
  EchoInit /\ [][EchoNext /\ ResetsBetweenScenarios]_echoVars

-----------------------------------------------------------------------------
(***************************************************************************)
(* The refinement.  A request is served at once when it is matched: its    *)
(* evidence counts from then on, although the handler appends it later.    *)
(***************************************************************************)
PendingEvidence ==
  {r \in Requests : handler[r] \in {"matched", "written"}}

EvidenceBag ==
  ToBag(observations) (+) ToBag([r \in PendingEvidence |-> ObservationOf(r)])

Standing ==
  CASE admission.as = "" -> "none"
    [] admission.as = "manual" -> "manual"
    [] admission.as = "valid" -> "checked"
    [] admission.as \in {"skipped", "off", "warned"} -> "waived"
    [] OTHER -> "rejected"

Abstract == INSTANCE Simulator WITH
  RequestLines <- {RequestLine[r] : r \in Requests},
  DeliveryObservations <-
    UNION {Deliveries(RegisteredEndpoint, input.EventID, ResponseStatuses) :
             input \in {t \in ToolCalls : t.tool = "send_webhook_event"}},
  behavior <- responseRule,
  standing <- Standing,
  detached <- admission.forced,
  contract <- active,
  evidence <- EvidenceBag,
  deliveries <- webhookDeliveries

(***************************************************************************)
(* To a disciplined client with one call at a time, the program is the     *)
(* Simulator: calls and requests are atomic.                               *)
(***************************************************************************)
ImplementsSimulator == Abstract!Spec

(***************************************************************************)
(* No tool call can make the data plane panic: what net/http refuses, the  *)
(* control plane refused before.                                           *)
(***************************************************************************)
NoHandlerPanics == \A r \in Requests : handler[r] # "panicked"

=============================================================================
