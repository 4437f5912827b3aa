---------------------------- MODULE ControlPlane ----------------------------
(***************************************************************************)
(* The MCP control plane (internal/control/mcp_server.go, control.go): the *)
(* seven tools over the store and the contract manager.  The SDK runs each *)
(* tool call in a goroutine of its own and the handlers share no lock: a   *)
(* handler takes the store's lock or the manager's once per step, and what *)
(* it read in one step it uses in a later one.                             *)
(*                                                                         *)
(* A caller is an MCP client that waits for its replies; two callers are   *)
(* two calls in flight, of one client or of two.                           *)
(***************************************************************************)
EXTENDS ContractManager, WebhookDelivery, FiniteSets

CONSTANTS
  Callers,            \* the calls that may be in flight at once
  ToolCalls,          \* the calls clients make: a set of ToolCall
  NoCall,             \* no call in flight
  RegisteredEndpoint, \* the webhook endpoint of the environment, "" if none
  ResponseStatuses,   \* statuses the application's webhook endpoint sends
  MaxDeliveries       \* bound: webhook deliveries clients ask for

-----------------------------------------------------------------------------
(***************************************************************************)
(* The calls.  outcomeType is outcome.type; body says whether request.body *)
(* is there.                                                               *)
(***************************************************************************)
ConfigureCall ==
  [tool : {"configure_behavior"}, rule : ResponseRule, outcomeType : STRING,
   override : Override]

LoadCall ==
  [tool : {"load_openapi_contract"}, Path : STRING, ValidationMode : STRING,
   Force : BOOLEAN]

UnloadCall == [tool : {"unload_openapi_contract"}, Force : BOOLEAN]

SendCall ==
  [tool : {"send_webhook_event"}, EventID : STRING, EndpointName : STRING,
   body : BOOLEAN]

PlainCall == [tool : {"reset", "get_contract_status", "get_observations"}]

ToolCall == ConfigureCall \cup LoadCall \cup UnloadCall \cup SendCall \cup PlainCall

ASSUME ControlAssumption ==
  /\ ToolCalls \subseteq ToolCall
  /\ \A input \in ToolCalls :
       input.tool = "configure_behavior" => input.rule \in Behaviors
  /\ NoCall \notin ToolCall
  /\ RegisteredEndpoint \in STRING
  /\ ResponseStatuses \subseteq Nat
  /\ MaxDeliveries \in Nat

VARIABLES
  pc,        \* the step each caller's handler is at
  call,      \* its input
  snapshot,  \* the contract its validation copied
  reply,     \* what it has put in its reply so far
  wrote,     \* history: whether the call changed the runtime state
  admission  \* history: how the stored rule got there

controlVars == <<pc, call, snapshot, reply, wrote, admission>>

sharedVars == <<storeVars, active>>

Steps ==
  {"idle", "called", "validated", "stored", "warned", "guiding", "guided",
   "checked", "cleared", "posting", "posted", "listed", "counted",
   "rejected", "replied"}

Guidance == {"", "validation_active", "validation_off", "manual", "none", "some"}

Successes == Accepted \cup {"loaded", "unloaded", "reset", "attempted"}

Refusals ==
  {"invalid_input", "invalid_validation_mode", "validation_reason_required",
   "contract_validation_failed", "missing_path", "reset_required",
   "no_endpoint", "unknown_endpoint"} \cup LoadErrors

(***************************************************************************)
(* code is the verdict on the call, status the contract disclosed, rest    *)
(* and webhooks the evidence listed.                                       *)
(***************************************************************************)
Reply ==
  [code : Successes \cup Refusals \cup {""}, manualWarning : BOOLEAN, guidance : Guidance,
   status : ActiveContract \cup {NoContract},
   rest : Seq(Observation), webhooks : Seq(WebhookDeliveryObservation)]

EmptyReply ==
  [code |-> "", manualWarning |-> FALSE, guidance |-> "",
   status |-> NoContract, rest |-> <<>>, webhooks |-> <<>>]

Admission ==
  [under : ActiveContract \cup {NoContract}, as : Accepted \cup {""},
   forced : BOOLEAN]

NoAdmission == [under |-> NoContract, as |-> "", forced |-> FALSE]

ControlTypeOK ==
  /\ pc \in [Callers -> Steps]
  /\ call \in [Callers -> ToolCall \cup {NoCall}]
  /\ snapshot \in [Callers -> ActiveContract \cup {NoContract}]
  /\ reply \in [Callers -> Reply]
  /\ wrote \in [Callers -> BOOLEAN]
  /\ admission \in Admission

ControlInit ==
  /\ pc = [c \in Callers |-> "idle"]
  /\ call = [c \in Callers |-> NoCall]
  /\ snapshot = [c \in Callers |-> NoContract]
  /\ reply = [c \in Callers |-> EmptyReply]
  /\ wrote = [c \in Callers |-> FALSE]
  /\ admission = NoAdmission

-----------------------------------------------------------------------------
(***************************************************************************)
(* Steps of a caller: Goto moves its handler, the other operators fill its *)
(* locals.                                                                 *)
(***************************************************************************)
Goto(c, step) == pc' = [pc EXCEPT ![c] = step]

At(c, tool, step) == pc[c] = step /\ call[c].tool = tool

Code(c, verdict) == reply' = [reply EXCEPT ![c].code = verdict]

Wrote(c) == wrote' = [wrote EXCEPT ![c] = TRUE]

\* The bounds keep a client from asking for more, they stop no handler.
WithinBounds(input) ==
  /\ input.tool = "reset" => generation < MaxGeneration
  /\ input.tool = "send_webhook_event" =>
       Len(webhookDeliveries) < MaxDeliveries

Begin(c) ==
  /\ pc[c] = "idle"
  /\ \E input \in ToolCalls :
       /\ WithinBounds(input)
       /\ call' = [call EXCEPT ![c] = input]
  /\ Goto(c, "called")
  /\ UNCHANGED <<sharedVars, snapshot, reply, wrote, admission>>

\* The client takes the reply; the locals of the handler are gone.
Finish(c) ==
  /\ pc[c] = "replied"
  /\ Goto(c, "idle")
  /\ call' = [call EXCEPT ![c] = NoCall]
  /\ snapshot' = [snapshot EXCEPT ![c] = NoContract]
  /\ reply' = [reply EXCEPT ![c] = EmptyReply]
  /\ wrote' = [wrote EXCEPT ![c] = FALSE]
  /\ UNCHANGED <<sharedVars, admission>>

-----------------------------------------------------------------------------
(***************************************************************************)
(* configure_behavior.  The rule is validated against the contract that is *)
(* active now and stored in a later step; the reply then reads the         *)
(* contract manager three or four times more.                              *)
(***************************************************************************)
OutcomeHTTPResponse == "http_response"

\* Mutant of ValidConfigureBehavior: the range of the status is not checked.
ValidConfigureWithoutRange(input) ==
  /\ input.rule.ID # ""
  /\ input.rule.Method # ""
  /\ input.rule.Path # ""
  /\ input.outcomeType = OutcomeHTTPResponse

ValidConfigureBehavior(input) ==
  /\ input.rule.ID # ""
  /\ input.rule.Method # ""
  /\ input.rule.Path # ""
  /\ input.outcomeType = OutcomeHTTPResponse
  /\ input.rule.StatusCode \in 100 .. 999

RefuseBehavior(c) ==
  /\ At(c, "configure_behavior", "called")
  /\ ~ ValidConfigureBehavior(call[c])
  /\ Code(c, "invalid_input")
  /\ Goto(c, "replied")
  /\ UNCHANGED <<sharedVars, call, snapshot, wrote, admission>>

ValidateBehavior(c) ==
  /\ At(c, "configure_behavior", "called")
  /\ ValidConfigureBehavior(call[c])
  /\ snapshot' = [snapshot EXCEPT ![c] = active]
  /\ LET verdict == ValidateResponseRule(active, call[c].rule, call[c].override)
     IN  /\ Code(c, verdict)
         /\ Goto(c, IF verdict \in Accepted THEN "validated" ELSE "rejected")
  /\ UNCHANGED <<sharedVars, call, wrote, admission>>

\* Mutant of DiscloseRejection: the rejected rule is stored all the same.
DiscloseRejectionAndStore(c) ==
  /\ At(c, "configure_behavior", "rejected")
  /\ reply' = [reply EXCEPT ![c].status = active]
  /\ ConfigureResponseRule(call[c].rule)
  /\ admission' = [under |-> snapshot[c], as |-> reply[c].code, forced |-> FALSE]
  /\ Wrote(c)
  /\ Goto(c, "replied")
  /\ UNCHANGED <<active, call, snapshot>>

DiscloseRejection(c) ==
  /\ At(c, "configure_behavior", "rejected")
  /\ reply' = [reply EXCEPT ![c].status = active]
  /\ Goto(c, "replied")
  /\ UNCHANGED <<sharedVars, call, snapshot, wrote, admission>>

StoreBehavior(c) ==
  /\ At(c, "configure_behavior", "validated")
  /\ ConfigureResponseRule(call[c].rule)
  /\ admission' = [under |-> snapshot[c], as |-> reply[c].code, forced |-> FALSE]
  /\ Wrote(c)
  /\ Goto(c, "stored")
  /\ UNCHANGED <<active, call, snapshot, reply>>

WarnIfManual(c) ==
  /\ At(c, "configure_behavior", "stored")
  /\ reply' = [reply EXCEPT ![c].manualWarning = active = NoContract]
  /\ Goto(c, "warned")
  /\ UNCHANGED <<sharedVars, call, snapshot, wrote, admission>>

ValidationActive == active # NoContract /\ active.validationMode # "off"

GuideIfValidated(c) ==
  /\ At(c, "configure_behavior", "warned")
  /\ \/ /\ ValidationActive
        /\ reply' = [reply EXCEPT ![c].guidance = "validation_active"]
        /\ Goto(c, "guided")
     \/ /\ ~ ValidationActive
        /\ Goto(c, "guiding")
        /\ UNCHANGED reply
  /\ UNCHANGED <<sharedVars, call, snapshot, wrote, admission>>

\* Mutant of GuideOtherwise: it does not look again.
GuideManual(c) ==
  /\ At(c, "configure_behavior", "guiding")
  /\ reply' = [reply EXCEPT ![c].guidance = "manual"]
  /\ Goto(c, "guided")
  /\ UNCHANGED <<sharedVars, call, snapshot, wrote, admission>>

GuideOtherwise(c) ==
  /\ At(c, "configure_behavior", "guiding")
  /\ reply' = [reply EXCEPT
       ![c].guidance = IF active = NoContract THEN "manual" ELSE "validation_off"]
  /\ Goto(c, "guided")
  /\ UNCHANGED <<sharedVars, call, snapshot, wrote, admission>>

DiscloseValidation(c) ==
  /\ At(c, "configure_behavior", "guided")
  /\ reply' = [reply EXCEPT ![c].status = active]
  /\ Goto(c, "replied")
  /\ UNCHANGED <<sharedVars, call, snapshot, wrote, admission>>

Configure(c) ==
  \/ RefuseBehavior(c)
  \/ ValidateBehavior(c)
  \/ DiscloseRejection(c)
  \/ StoreBehavior(c)
  \/ WarnIfManual(c)
  \/ GuideIfValidated(c)
  \/ GuideOtherwise(c)
  \/ DiscloseValidation(c)

-----------------------------------------------------------------------------
(***************************************************************************)
(* load_openapi_contract and unload_openapi_contract.  The store is asked  *)
(* for a behavior first; the contract changes in a later step, under the   *)
(* manager's own lock.  A forced change leaves the stored behavior alone.  *)
(***************************************************************************)
DetachIfForced(c) ==
  admission' = [admission EXCEPT
    !.forced = @ \/ (HasResponseRule /\ call[c].Force)]

\* Mutant of CheckLoad: a stored behavior is no reason to refuse.
CheckLoadIgnoringBehavior(c) ==
  /\ At(c, "load_openapi_contract", "called")
  /\ LET verdict == LoadVerdict(call[c], FALSE)
     IN  /\ Code(c, verdict)
         /\ Goto(c, IF verdict = "loaded" THEN "checked" ELSE "replied")
  /\ UNCHANGED <<sharedVars, call, snapshot, wrote, admission>>

CheckLoad(c) ==
  /\ At(c, "load_openapi_contract", "called")
  /\ LET verdict == LoadVerdict(call[c], HasResponseRule)
     IN  /\ Code(c, verdict)
         /\ Goto(c, IF verdict = "loaded" THEN "checked" ELSE "replied")
  /\ UNCHANGED <<sharedVars, call, snapshot, wrote, admission>>

\* Mutant of ActivateContract: it waits for the behavior to be reset.
ActivateContractWhenFree(c) ==
  /\ At(c, "load_openapi_contract", "checked")
  /\ ~ HasResponseRule
  /\ Activate(call[c])
  /\ Wrote(c)
  /\ Goto(c, "replied")
  /\ UNCHANGED <<storeVars, call, snapshot, reply, admission>>

ActivateContract(c) ==
  /\ At(c, "load_openapi_contract", "checked")
  /\ Activate(call[c])
  /\ DetachIfForced(c)
  /\ Wrote(c)
  /\ Goto(c, "replied")
  /\ UNCHANGED <<storeVars, call, snapshot, reply>>

CheckUnload(c) ==
  /\ At(c, "unload_openapi_contract", "called")
  /\ LET verdict == UnloadVerdict(call[c], HasResponseRule)
     IN  /\ Code(c, verdict)
         /\ Goto(c, IF verdict = "unloaded" THEN "checked" ELSE "replied")
  /\ UNCHANGED <<sharedVars, call, snapshot, wrote, admission>>

ClearContract(c) ==
  /\ At(c, "unload_openapi_contract", "checked")
  /\ Deactivate
  /\ DetachIfForced(c)
  /\ Wrote(c)
  /\ Goto(c, "replied")
  /\ UNCHANGED <<storeVars, call, snapshot, reply>>

ChangeContract(c) ==
  CheckLoad(c) \/ ActivateContract(c) \/ CheckUnload(c) \/ ClearContract(c)

-----------------------------------------------------------------------------
(***************************************************************************)
(* reset and get_contract_status.                                          *)
(***************************************************************************)
ResetStore(c) ==
  /\ At(c, "reset", "called")
  /\ Reset
  /\ admission' = NoAdmission
  /\ Code(c, "reset")
  /\ Wrote(c)
  /\ Goto(c, "cleared")
  /\ UNCHANGED <<active, call, snapshot>>

ReadContractStatus(c) ==
  /\ \/ At(c, "reset", "cleared")
     \/ At(c, "get_contract_status", "called")
  /\ reply' = [reply EXCEPT ![c].status = active]
  /\ Goto(c, "replied")
  /\ UNCHANGED <<sharedVars, call, snapshot, wrote, admission>>

-----------------------------------------------------------------------------
(***************************************************************************)
(* get_observations copies the REST log, then counts the deliveries for    *)
(* the guidance, then copies them.  (A count of the deliveries made before *)
(* that only sizes a slice.)                                               *)
(***************************************************************************)
ListObservations(c) ==
  /\ At(c, "get_observations", "called")
  /\ reply' = [reply EXCEPT ![c].rest = observations]
  /\ Goto(c, "listed")
  /\ UNCHANGED <<sharedVars, call, snapshot, wrote, admission>>

EvidenceGuidance(rest, webhooks) ==
  IF rest = <<>> /\ webhooks = <<>> THEN "none" ELSE "some"

\* Mutant of GuideEvidence: the log is read again for the guidance.
GuideEvidenceOfNow(c) ==
  /\ At(c, "get_observations", "listed")
  /\ reply' = [reply EXCEPT
       ![c].guidance = EvidenceGuidance(observations, webhookDeliveries)]
  /\ Goto(c, "counted")
  /\ UNCHANGED <<sharedVars, call, snapshot, wrote, admission>>

GuideEvidence(c) ==
  /\ At(c, "get_observations", "listed")
  /\ reply' = [reply EXCEPT
       ![c].guidance = EvidenceGuidance(reply[c].rest, webhookDeliveries)]
  /\ Goto(c, "counted")
  /\ UNCHANGED <<sharedVars, call, snapshot, wrote, admission>>

ListDeliveries(c) ==
  /\ At(c, "get_observations", "counted")
  /\ reply' = [reply EXCEPT ![c].webhooks = webhookDeliveries]
  /\ Goto(c, "replied")
  /\ UNCHANGED <<sharedVars, call, snapshot, wrote, admission>>

GetObservations(c) ==
  ListObservations(c) \/ GuideEvidence(c) \/ ListDeliveries(c)

-----------------------------------------------------------------------------
(***************************************************************************)
(* send_webhook_event.  The POST takes as long as the client's timeout     *)
(* allows and holds no lock.                                               *)
(***************************************************************************)
CheckEvent(c) ==
  /\ At(c, "send_webhook_event", "called")
  /\ Code(c, SendVerdict(RegisteredEndpoint, call[c]))
  /\ Goto(c, IF SendVerdict(RegisteredEndpoint, call[c]) = "attempted"
               THEN "posting" ELSE "replied")
  /\ UNCHANGED <<sharedVars, call, snapshot, wrote, admission>>

Post(c) ==
  /\ At(c, "send_webhook_event", "posting")
  /\ \E delivery \in
       Deliveries(RegisteredEndpoint, call[c].EventID, ResponseStatuses) :
       reply' = [reply EXCEPT ![c].webhooks = <<delivery>>]
  /\ Goto(c, "posted")
  /\ UNCHANGED <<sharedVars, call, snapshot, wrote, admission>>

\* Mutant of RecordDelivery: a delivery that failed leaves no evidence.
RecordSuccessfulDelivery(c) ==
  /\ At(c, "send_webhook_event", "posted")
  /\ IF reply[c].webhooks[1].Outcome = "response_received"
       THEN RecordWebhookDeliveryObservation(reply[c].webhooks[1]) /\ Wrote(c)
       ELSE UNCHANGED <<storeVars, wrote>>
  /\ Goto(c, "replied")
  /\ UNCHANGED <<active, call, snapshot, reply, admission>>

RecordDelivery(c) ==
  /\ At(c, "send_webhook_event", "posted")
  /\ RecordWebhookDeliveryObservation(reply[c].webhooks[1])
  /\ Wrote(c)
  /\ Goto(c, "replied")
  /\ UNCHANGED <<active, call, snapshot, reply, admission>>

SendWebhookEvent(c) == CheckEvent(c) \/ Post(c) \/ RecordDelivery(c)

-----------------------------------------------------------------------------
HandleCall(c) ==
  \/ Configure(c)
  \/ ChangeContract(c)
  \/ ResetStore(c)
  \/ ReadContractStatus(c)
  \/ GetObservations(c)
  \/ SendWebhookEvent(c)

ControlStep(c) == Begin(c) \/ HandleCall(c) \/ Finish(c)

controlPlaneVars == <<sharedVars, controlVars>>

InitControl == StoreInit /\ ContractInit /\ ControlInit

NextControl == \E c \in Callers : ControlStep(c)

\* Every handler runs on; the webhook client's timeout ends a POST.
ControlFairness == \A c \in Callers : WF_controlPlaneVars(HandleCall(c))

SpecControl ==
  InitControl /\ [][NextControl]_controlPlaneVars /\ ControlFairness

-----------------------------------------------------------------------------
(***************************************************************************)
(* Types of the store, the contract and the calls in flight.               *)
(***************************************************************************)
TypeOKControl == StoreTypeOK /\ ContractTypeOK /\ ControlTypeOK

(***************************************************************************)
(* However calls interleave, a call has changed the runtime state by the   *)
(* time it replies exactly when the reply reports success: a refused       *)
(* configuration leaves the rule that was there (ADR-0004:138, "Rejection  *)
(* should happen before replacing the currently configured behavior"), and *)
(* an attempted delivery is in the log whatever its outcome.               *)
(***************************************************************************)
ReplyTellsEffect ==
  \A c \in Callers : pc[c] = "replied" =>
    (wrote[c] <=> reply[c].code \in Successes)

(***************************************************************************)
(* The stored rule got past the tool's checks, so net/http will take its   *)
(* status, and past the contract its validation saw: it conforms to it, or *)
(* the mode or the caller, with a reason, let it through.                  *)
(***************************************************************************)
StoredRuleIsJustified ==
  HasResponseRule =>
    /\ responseRule.StatusCode \in 100 .. 999
    /\ admission.as \in Accepted
    /\ (admission.as = "manual") <=> (admission.under = NoContract)
    /\ admission.as = "valid" =>
         responseRule \in Conforms[admission.under.contract]
    /\ admission.as = "off" => admission.under.validationMode = "off"

(***************************************************************************)
(* Between two resets webhook evidence only grows at its end.              *)
(***************************************************************************)
DeliveriesOnlyGrow ==
  [][generation' = generation =>
       /\ Len(webhookDeliveries) <= Len(webhookDeliveries')
       /\ \A i \in 1 .. Len(webhookDeliveries) :
            webhookDeliveries'[i] = webhookDeliveries[i]]_controlPlaneVars

(***************************************************************************)
(* Every call is answered: no handler waits for another.                   *)
(***************************************************************************)
CallsAreAnswered == \A c \in Callers : pc[c] = "called" ~> pc[c] = "replied"

(***************************************************************************)
(* A behavior that is stored belongs to the contract that is active, with  *)
(* the mode it has, unless a forced call detached it: an unforced change   *)
(* of contract is refused, because the behavior "would otherwise be        *)
(* silently associated with a different contract state"                    *)
(* (internal/control/contract_manager.go:506).  With one call at a time    *)
(* this holds; two calls break it, since checks and writes are separate    *)
(* steps.                                                                  *)
(***************************************************************************)
BehaviorBelongsToContract ==
  HasResponseRule => admission.under = active \/ admission.forced

(***************************************************************************)
(* With one call at a time, what a reply says of the runtime is what the   *)
(* runtime is when the client reads it: the contract it names or does not, *)
(* the manual-mode warning, the guidance and the verdict go together.      *)
(***************************************************************************)
DisclosesContract(c) ==
  \/ call[c].tool \in {"reset", "get_contract_status"}
  \/ call[c].tool = "configure_behavior" /\ reply[c].code # "invalid_input"

ConfiguredReply(c) ==
  call[c].tool = "configure_behavior" /\ reply[c].code \in Accepted

ReplyIsCoherent ==
  \A c \in Callers : pc[c] = "replied" =>
    /\ DisclosesContract(c) => reply[c].status = active
    /\ ConfiguredReply(c) =>
         /\ responseRule = call[c].rule
         /\ reply[c].manualWarning <=> (reply[c].code = "manual")
         /\ reply[c].guidance =
              IF active = NoContract THEN "manual"
              ELSE IF active.validationMode = "off" THEN "validation_off"
              ELSE "validation_active"

(***************************************************************************)
(* With one call at a time, get_observations says there is no evidence     *)
(* exactly when it lists none, although requests are served meanwhile.     *)
(***************************************************************************)
EvidenceReplyIsCoherent ==
  \A c \in Callers :
    (pc[c] = "replied" /\ call[c].tool = "get_observations") =>
      reply[c].guidance = EvidenceGuidance(reply[c].rest, reply[c].webhooks)

=============================================================================
