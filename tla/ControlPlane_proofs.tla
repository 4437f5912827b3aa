------------------------- MODULE ControlPlane_proofs -------------------------
(***************************************************************************)
(* The invariants of ControlPlane, for any number of calls in flight, any  *)
(* contracts and any rules.                                                *)
(***************************************************************************)
EXTENDS ControlPlane, TLAPS

USE DEF storeVars, controlVars, sharedVars, controlPlaneVars

-----------------------------------------------------------------------------
(***************************************************************************)
(* What the verdicts mean.                                                 *)
(***************************************************************************)

(***************************************************************************)
(* A call has the fields of its tool.                                      *)
(***************************************************************************)
LEMMA CallShape ==
  ASSUME NEW input \in ToolCall
  PROVE  /\ input.tool = "configure_behavior" => input \in ConfigureCall
         /\ input.tool = "load_openapi_contract" => input \in LoadCall
         /\ input.tool = "unload_openapi_contract" => input \in UnloadCall
         /\ input.tool = "send_webhook_event" => input \in SendCall
BY DEF ToolCall, ConfigureCall, LoadCall, UnloadCall, SendCall, PlainCall

(***************************************************************************)
(* normalizeValidationMode returns a mode or its error.                    *)
(***************************************************************************)
LEMMA ModeType ==
  ASSUME NEW mode
  PROVE  NormalizeValidationMode(mode)
           \in ValidationModes \cup {"invalid_validation_mode"}
BY DEF NormalizeValidationMode

(***************************************************************************)
(* An active contract is not the absent one.                               *)
(***************************************************************************)
LEMMA ActiveIsContract ==
  ASSUME NEW contract \in ActiveContract
  PROVE  contract # NoContract
BY ContractAssumption

(***************************************************************************)
(* Why a rule may be stored after a verdict on it.                         *)
(***************************************************************************)
Justified(rule, under, as) ==
  /\ as \in Accepted
  /\ (as = "manual") <=> (under = NoContract)
  /\ as = "valid" => rule \in Conforms[under.contract]
  /\ as = "off" => under.validationMode = "off"

(***************************************************************************)
(* ContractManager.ValidateResponseRule justifies what it accepts.         *)
(***************************************************************************)
LEMMA VerdictMeaning ==
  ASSUME NEW contract \in ActiveContract \cup {NoContract}, NEW rule,
         NEW override \in Override
  PROVE  LET verdict == ValidateResponseRule(contract, rule, override)
         IN  \/ verdict \in Refusals
             \/ Justified(rule, contract, verdict)
<1>. DEFINE verdict == ValidateResponseRule(contract, rule, override)
            mode == EffectiveMode(contract, override)
            asked == override.Mode # ""
            valid == rule \in Conforms[contract.contract]
<1>1. CASE contract = NoContract
  BY <1>1 DEF ValidateResponseRule, Justified, Accepted
<1>2. CASE contract # NoContract
  <2>1. contract.validationMode \in ValidationModes
    BY <1>2 DEF ActiveContract
  <2>2. mode \in ValidationModes \cup {"invalid_validation_mode"}
    BY <2>1, ModeType DEF EffectiveMode
  <2>3. ~ asked => mode = contract.validationMode
    BY DEF EffectiveMode
  <2>4. verdict =
          CASE mode = "invalid_validation_mode" -> mode
            [] mode = "off" /\ asked /\ override.Reason = "" ->
                 "validation_reason_required"
            [] mode = "off" /\ asked -> "skipped"
            [] mode = "off" /\ ~ asked -> "off"
            [] mode \in {"strict", "warn"} /\ valid -> "valid"
            [] mode = "warn" /\ ~ valid -> "warned"
            [] mode = "strict" /\ ~ valid -> "contract_validation_failed"
    BY <1>2 DEF ValidateResponseRule
  <2>. HIDE DEF verdict, mode
  <2>5. CASE mode = "invalid_validation_mode"
    <3>1. verdict = "invalid_validation_mode"
      BY <2>4, <2>5
    <3>. QED
      BY <3>1 DEF Refusals, verdict
  <2>6. CASE mode = "off"
    <3>1. \/ asked /\ verdict \in {"validation_reason_required", "skipped"}
          \/ ~ asked /\ verdict = "off"
      BY <2>4, <2>6
    <3>2. verdict = "off" => contract.validationMode = "off"
      BY <2>3, <2>6, <3>1
    <3>. QED
      BY <1>2, <3>1, <3>2 DEF Refusals, Justified, Accepted, verdict
  <2>7. CASE mode = "warn"
    <3>1. \/ valid /\ verdict = "valid"
          \/ ~ valid /\ verdict = "warned"
      BY <2>4, <2>7
    <3>. QED
      BY <1>2, <3>1 DEF Justified, Accepted, verdict
  <2>8. CASE mode = "strict"
    <3>1. \/ valid /\ verdict = "valid"
          \/ ~ valid /\ verdict = "contract_validation_failed"
      BY <2>4, <2>8
    <3>. QED
      BY <1>2, <3>1 DEF Refusals, Justified, Accepted, verdict
  <2>. QED
    BY <2>2, <2>5, <2>6, <2>7, <2>8 DEF ValidationModes
<1>. QED
  BY <1>1, <1>2

(***************************************************************************)
(* What a load that is let through will activate.                          *)
(***************************************************************************)
Loadable(command) ==
  /\ command.Path \in DOMAIN ContractAt
  /\ ContractAt[command.Path] \in Contracts
  /\ NormalizeValidationMode(command.ValidationMode) \in ValidationModes

(***************************************************************************)
(* LoadOpenAPIContract refuses, or has a contract and a mode to activate.  *)
(***************************************************************************)
LEMMA LoadVerdictMeaning ==
  ASSUME NEW command, NEW behaviorActive \in BOOLEAN
  PROVE  \/ LoadVerdict(command, behaviorActive) \in Refusals
         \/ /\ LoadVerdict(command, behaviorActive) = "loaded"
            /\ Loadable(command)
<1>. DEFINE mode == NormalizeValidationMode(command.ValidationMode)
<1>1. mode \in ValidationModes \cup {"invalid_validation_mode"}
  BY ModeType
<1>2. command.Path \in DOMAIN ContractAt =>
        ContractAt[command.Path] \in Contracts \cup LoadErrors
  BY ContractAssumption
<1>3. LoadVerdict(command, behaviorActive) =
        CASE command.Path = "" -> "missing_path"
          [] command.Path # "" /\ behaviorActive /\ ~ command.Force ->
               "reset_required"
          [] OTHER ->
               IF mode = "invalid_validation_mode" THEN mode
               ELSE IF command.Path \notin DOMAIN ContractAt THEN "load_failed"
               ELSE IF ContractAt[command.Path] \in Contracts THEN "loaded"
               ELSE ContractAt[command.Path]
  BY DEF LoadVerdict
<1>. QED
  BY <1>1, <1>2, <1>3 DEF Refusals, Loadable, LoadErrors

-----------------------------------------------------------------------------
(***************************************************************************)
(* Where a handler is tells what it has done: the strengthening that makes *)
(* the invariants inductive.  It speaks of the handler's locals only, so   *)
(* the steps of other callers leave it alone.                              *)
(***************************************************************************)
BeforeWrite ==
  {"idle", "called", "validated", "rejected", "checked", "posting", "posted",
   "listed", "counted"}

AfterWrite == {"stored", "warned", "guiding", "guided", "cleared"}

HasCall(c) == pc[c] # "idle" => call[c] \in ToolCalls

WritesOnce(c) ==
  /\ pc[c] \in BeforeWrite => ~ wrote[c]
  /\ pc[c] \in AfterWrite => wrote[c]
  /\ pc[c] = "replied" => (wrote[c] <=> reply[c].code \in Successes)

CodeInStep(c) ==
  /\ pc[c] \in {"idle", "called", "listed", "counted"} => reply[c].code = ""
  /\ pc[c] \in {"checked", "posting", "posted"} \cup AfterWrite =>
       reply[c].code \in Successes
  /\ pc[c] = "rejected" => reply[c].code \in Refusals

Checked(c) ==
  /\ pc[c] = "validated" =>
       /\ ValidConfigureBehavior(call[c])
       /\ Justified(call[c].rule, snapshot[c], reply[c].code)
  /\ (pc[c] = "checked" /\ call[c].tool = "load_openapi_contract") =>
       Loadable(call[c])
  /\ pc[c] = "posted" =>
       /\ reply[c].webhooks # <<>>
       /\ reply[c].webhooks[1] \in WebhookDeliveryObservation

CallInStep(c) == HasCall(c) /\ WritesOnce(c) /\ CodeInStep(c) /\ Checked(c)

CallsInStep == \A c \in Callers : CallInStep(c)

(***************************************************************************)
(* A call that a step does not touch stays in step.                        *)
(***************************************************************************)
LEMMA CallUntouched ==
  ASSUME NEW q, CallInStep(q), pc'[q] = pc[q], call'[q] = call[q],
         snapshot'[q] = snapshot[q], reply'[q] = reply[q],
         wrote'[q] = wrote[q]
  PROVE  CallInStep(q)'
<1>1. HasCall(q)' /\ WritesOnce(q)' /\ CodeInStep(q)'
  BY DEF CallInStep, HasCall, WritesOnce, CodeInStep
<1>2. Checked(q)'
  <2>1. ValidConfigureBehavior(call[q]) => ValidConfigureBehavior(call[q])'
    BY ZenonT(60) DEF ValidConfigureBehavior
  <2>2. Justified(call[q].rule, snapshot[q], reply[q].code)
          => Justified(call[q].rule, snapshot[q], reply[q].code)'
    BY DEF Justified
  <2>3. Loadable(call[q]) => Loadable(call[q])'
    BY DEF Loadable
  <2>. QED
    BY <2>1, <2>2, <2>3 DEF CallInStep, Checked
<1>. QED
  BY <1>1, <1>2 DEF CallInStep

(***************************************************************************)
(* Successes, refusals and the code of a call that has none do not mix.    *)
(***************************************************************************)
LEMMA CodesAreDisjoint ==
  /\ Successes \cap Refusals = {}
  /\ "" \notin Successes \cup Refusals
BY DEF Successes, Refusals, Accepted, LoadErrors

(***************************************************************************)
(* A step of one caller touches no other caller's locals.                  *)
(***************************************************************************)
LEMMA OthersUntouched ==
  ASSUME TypeOKControl, NEW c \in Callers, ControlStep(c),
         NEW q \in Callers, q # c
  PROVE  /\ pc'[q] = pc[q]
         /\ call'[q] = call[q]
         /\ snapshot'[q] = snapshot[q]
         /\ reply'[q] = reply[q]
         /\ wrote'[q] = wrote[q]
<1>. USE DEF TypeOKControl, ControlTypeOK, Goto, Code, Wrote
<1>1. CASE Begin(c) \/ Finish(c)
  BY <1>1 DEF Begin, Finish
<1>2. CASE Configure(c)
  BY <1>2
  DEF Configure, RefuseBehavior, ValidateBehavior, DiscloseRejection,
      StoreBehavior, WarnIfManual, GuideIfValidated, GuideOtherwise,
      DiscloseValidation
<1>3. CASE ChangeContract(c)
  BY <1>3 DEF ChangeContract, CheckLoad, ActivateContract, CheckUnload, ClearContract
<1>4. CASE ResetStore(c) \/ ReadContractStatus(c)
  BY <1>4 DEF ResetStore, ReadContractStatus
<1>5. CASE GetObservations(c)
  BY <1>5 DEF GetObservations, ListObservations, GuideEvidence, ListDeliveries
<1>6. CASE SendWebhookEvent(c)
  BY <1>6 DEF SendWebhookEvent, CheckEvent, Post, RecordDelivery
<1>. QED
  BY <1>1, <1>2, <1>3, <1>4, <1>5, <1>6 DEF ControlStep, HandleCall

(***************************************************************************)
(* configure_behavior: the verdict is a refusal, or justifies the rule.    *)
(***************************************************************************)
LEMMA ConfigureStep ==
  ASSUME TypeOKControl, NEW c \in Callers, CallInStep(c), Configure(c)
  PROVE  CallInStep(c)'
<1>. USE DEF TypeOKControl, ControlTypeOK, Goto, Code, Wrote, At,
             HasCall, WritesOnce, CodeInStep, Checked, BeforeWrite, AfterWrite
<1>0. /\ HasCall(c)
      /\ WritesOnce(c)
      /\ CodeInStep(c)
      /\ Checked(c)
  BY DEF CallInStep
<1>1. CASE RefuseBehavior(c)
  <2>1. /\ pc'[c] = "replied"
        /\ call'[c] = call[c]
        /\ reply'[c].code = "invalid_input"
        /\ wrote'[c] = wrote[c]
        /\ ~ wrote[c]
        /\ call[c] \in ToolCalls
    BY <1>0, <1>1 DEF RefuseBehavior, Reply
  <2>2. "invalid_input" \notin Successes
    BY CodesAreDisjoint DEF Refusals
  <2>. QED
    BY <2>1, <2>2 DEF CallInStep
<1>2. CASE ValidateBehavior(c)
  <2>. DEFINE verdict == ValidateResponseRule(active, call[c].rule, call[c].override)
  <2>1. /\ pc'[c] = IF verdict \in Accepted THEN "validated" ELSE "rejected"
        /\ call'[c] = call[c]
        /\ snapshot'[c] = active
        /\ reply'[c].code = verdict
        /\ wrote'[c] = wrote[c]
        /\ ~ wrote[c]
        /\ call[c] \in ToolCalls
        /\ call[c].tool = "configure_behavior"
        /\ ValidConfigureBehavior(call[c])
    BY <1>0, <1>2 DEF ValidateBehavior, Reply
  <2>2. call[c] \in ConfigureCall
    BY <2>1, CallShape, ControlAssumption
  <2>3. verdict \in Refusals \/ Justified(call[c].rule, active, verdict)
    BY <2>2, VerdictMeaning DEF ConfigureCall, ContractTypeOK
  <2>4. ValidConfigureBehavior(call[c])'
    BY <2>1, ZenonT(60) DEF ValidConfigureBehavior
  <2>5. CASE verdict \in Accepted
    <3>1. verdict \notin Refusals
      BY <2>5, CodesAreDisjoint DEF Successes
    <3>2. Justified(call[c].rule, snapshot[c], reply[c].code)'
      BY <2>1, <2>3, <3>1 DEF Justified
    <3>. QED
      BY <2>1, <2>4, <2>5, <3>2 DEF CallInStep
  <2>6. CASE verdict \notin Accepted
    <3>1. verdict \in Refusals
      BY <2>3, <2>6 DEF Justified
    <3>. QED
      BY <2>1, <2>6, <3>1 DEF CallInStep
  <2>. QED
    BY <2>5, <2>6
<1>3. CASE DiscloseRejection(c)
  <2>1. /\ pc'[c] = "replied"
        /\ call'[c] = call[c]
        /\ reply'[c].code = reply[c].code
        /\ reply[c].code \in Refusals
        /\ wrote'[c] = wrote[c]
        /\ ~ wrote[c]
        /\ call[c] \in ToolCalls
    BY <1>0, <1>3 DEF DiscloseRejection, Reply
  <2>. QED
    BY <2>1, CodesAreDisjoint DEF CallInStep
<1>4. CASE StoreBehavior(c)
  <2>1. /\ pc'[c] = "stored"
        /\ call'[c] = call[c]
        /\ reply'[c] = reply[c]
        /\ reply[c].code \in Accepted
        /\ wrote'[c]
        /\ call[c] \in ToolCalls
    BY <1>0, <1>4 DEF StoreBehavior, Justified
  <2>. QED
    BY <2>1 DEF CallInStep, Successes
<1>5. CASE WarnIfManual(c) \/ GuideIfValidated(c) \/ GuideOtherwise(c)
             \/ DiscloseValidation(c)
  <2>1. pc[c] \in AfterWrite
    BY <1>5 DEF WarnIfManual, GuideIfValidated, GuideOtherwise, DiscloseValidation
  <2>2. pc'[c] \in {"warned", "guiding", "guided", "replied"}
    BY <1>5 DEF WarnIfManual, GuideIfValidated, GuideOtherwise, DiscloseValidation
  <2>3. call'[c] = call[c] /\ wrote'[c] = wrote[c]
    BY <1>5 DEF WarnIfManual, GuideIfValidated, GuideOtherwise, DiscloseValidation
  <2>4. reply'[c].code = reply[c].code
    <3>1. CASE WarnIfManual(c)
      BY <3>1 DEF WarnIfManual, Reply
    <3>2. CASE GuideIfValidated(c)
      BY <3>2 DEF GuideIfValidated, Reply
    <3>3. CASE GuideOtherwise(c)
      BY <3>3 DEF GuideOtherwise, Reply
    <3>4. CASE DiscloseValidation(c)
      BY <3>4 DEF DiscloseValidation, Reply
    <3>. QED
      BY <1>5, <3>1, <3>2, <3>3, <3>4
  <2>5. reply[c].code \in Successes /\ wrote[c] /\ call[c] \in ToolCalls
    BY <1>0, <2>1
  <2>. QED
    BY <2>2, <2>3, <2>4, <2>5 DEF CallInStep
<1>. QED
  BY <1>1, <1>2, <1>3, <1>4, <1>5 DEF Configure

(***************************************************************************)
(* load_openapi_contract and unload_openapi_contract: what is let through  *)
(* is written in the next step.                                            *)
(***************************************************************************)
LEMMA ChangeContractStep ==
  ASSUME TypeOKControl, NEW c \in Callers, CallInStep(c), ChangeContract(c)
  PROVE  CallInStep(c)'
<1>. USE DEF TypeOKControl, ControlTypeOK, Goto, Code, Wrote, At,
             HasCall, WritesOnce, CodeInStep, Checked, BeforeWrite, AfterWrite
<1>0. /\ HasCall(c)
      /\ WritesOnce(c)
      /\ CodeInStep(c)
  BY DEF CallInStep
<1>1. CASE CheckLoad(c)
  <2>. DEFINE verdict == LoadVerdict(call[c], HasResponseRule)
  <2>1. /\ pc'[c] = IF verdict = "loaded" THEN "checked" ELSE "replied"
        /\ call'[c] = call[c]
        /\ reply'[c].code = verdict
        /\ wrote'[c] = wrote[c]
        /\ ~ wrote[c]
        /\ call[c] \in ToolCalls
    BY <1>0, <1>1 DEF CheckLoad, Reply
  <2>2. \/ verdict \in Refusals
        \/ verdict = "loaded" /\ Loadable(call[c])
    BY LoadVerdictMeaning DEF HasResponseRule
  <2>3. "loaded" \in Successes
    BY DEF Successes
  <2>4. Loadable(call[c]) => Loadable(call[c])'
    BY <2>1 DEF Loadable
  <2>. HIDE DEF verdict
  <2>5. CASE verdict = "loaded"
    <3>1. Loadable(call[c])'
      BY <2>2, <2>3, <2>4, <2>5, CodesAreDisjoint
    <3>. QED
      BY <2>1, <2>3, <2>5, <3>1 DEF CallInStep
  <2>6. CASE verdict # "loaded"
    BY <2>1, <2>2, <2>6, CodesAreDisjoint DEF CallInStep
  <2>. QED
    BY <2>5, <2>6
<1>2. CASE CheckUnload(c)
  <2>1. /\ call'[c] = call[c]
        /\ call[c].tool = "unload_openapi_contract"
        /\ wrote'[c] = wrote[c]
        /\ ~ wrote[c]
        /\ call[c] \in ToolCalls
    BY <1>0, <1>2 DEF CheckUnload
  <2>2. \/ pc'[c] = "checked" /\ reply'[c].code = "unloaded"
        \/ pc'[c] = "replied" /\ reply'[c].code = "reset_required"
    BY <1>2 DEF CheckUnload, UnloadVerdict, Reply
  <2>3. "unloaded" \in Successes /\ "reset_required" \notin Successes
    BY CodesAreDisjoint DEF Successes, Refusals
  <2>. QED
    BY <2>1, <2>2, <2>3 DEF CallInStep
<1>3. CASE ActivateContract(c) \/ ClearContract(c)
  <2>1. /\ pc'[c] = "replied"
        /\ call'[c] = call[c]
        /\ reply'[c] = reply[c]
        /\ reply[c].code \in Successes
        /\ wrote'[c]
        /\ call[c] \in ToolCalls
    BY <1>0, <1>3 DEF ActivateContract, ClearContract
  <2>. QED
    BY <2>1 DEF CallInStep
<1>. QED
  BY <1>1, <1>2, <1>3 DEF ChangeContract

(***************************************************************************)
(* reset, get_contract_status and get_observations: only reset writes.     *)
(***************************************************************************)
LEMMA PlainStep ==
  ASSUME TypeOKControl, NEW c \in Callers, CallInStep(c),
         ResetStore(c) \/ ReadContractStatus(c) \/ GetObservations(c)
  PROVE  CallInStep(c)'
<1>. USE DEF TypeOKControl, ControlTypeOK, Goto, Code, Wrote, At,
             HasCall, WritesOnce, CodeInStep, Checked, BeforeWrite, AfterWrite
<1>0. /\ HasCall(c)
      /\ WritesOnce(c)
      /\ CodeInStep(c)
  BY DEF CallInStep
<1>1. CASE ResetStore(c)
  <2>1. /\ pc'[c] = "cleared"
        /\ call'[c] = call[c]
        /\ reply'[c].code = "reset"
        /\ wrote'[c]
        /\ call[c] \in ToolCalls
    BY <1>0, <1>1 DEF ResetStore, Reply
  <2>. QED
    BY <2>1 DEF CallInStep, Successes
<1>2. CASE ReadContractStatus(c)
  <2>1. /\ pc'[c] = "replied"
        /\ call'[c] = call[c]
        /\ wrote'[c] = wrote[c]
        /\ call[c] \in ToolCalls
    BY <1>0, <1>2 DEF ReadContractStatus
  <2>2. reply'[c].code = reply[c].code
    BY <1>2 DEF ReadContractStatus, Reply
  <2>3. wrote[c] <=> reply[c].code \in Successes
    BY <1>0, <1>2, CodesAreDisjoint DEF ReadContractStatus
  <2>. QED
    BY <2>1, <2>2, <2>3 DEF CallInStep
<1>3. CASE GetObservations(c)
  <2>1. pc'[c] \in {"listed", "counted", "replied"}
    BY <1>3 DEF GetObservations, ListObservations, GuideEvidence, ListDeliveries
  <2>2. /\ call'[c] = call[c]
        /\ wrote'[c] = wrote[c]
    BY <1>3 DEF GetObservations, ListObservations, GuideEvidence, ListDeliveries
  <2>3. reply'[c].code = reply[c].code
    BY <1>3, ZenonT(60)
    DEF GetObservations, ListObservations, GuideEvidence, ListDeliveries, Reply
  <2>4. /\ reply[c].code = ""
        /\ ~ wrote[c]
        /\ call[c] \in ToolCalls
    BY <1>0, <1>3
    DEF GetObservations, ListObservations, GuideEvidence, ListDeliveries
  <2>. QED
    BY <2>1, <2>2, <2>3, <2>4, CodesAreDisjoint DEF CallInStep
<1>. QED
  BY <1>1, <1>2, <1>3

(***************************************************************************)
(* What a POST may come to has the type of the webhook evidence.           *)
(***************************************************************************)
LEMMA DeliveryType ==
  ASSUME NEW eventID \in STRING, NEW delivery \in Deliveries(RegisteredEndpoint, eventID, ResponseStatuses)
  PROVE  delivery \in WebhookDeliveryObservation
BY ControlAssumption DEF Deliveries, WebhookDeliveryObservation

(***************************************************************************)
(* send_webhook_event: an attempt is recorded before it is reported.       *)
(***************************************************************************)
LEMMA SendStep ==
  ASSUME TypeOKControl, NEW c \in Callers, CallInStep(c), SendWebhookEvent(c)
  PROVE  CallInStep(c)'
<1>. USE DEF TypeOKControl, ControlTypeOK, Goto, Code, Wrote, At,
             HasCall, WritesOnce, CodeInStep, Checked, BeforeWrite, AfterWrite
<1>0. /\ HasCall(c)
      /\ WritesOnce(c)
      /\ CodeInStep(c)
  BY DEF CallInStep
<1>1. CASE CheckEvent(c)
  <2>1. /\ call'[c] = call[c]
        /\ wrote'[c] = wrote[c]
        /\ ~ wrote[c]
        /\ call[c] \in ToolCalls
    BY <1>0, <1>1 DEF CheckEvent
  <2>2. \/ pc'[c] = "posting" /\ reply'[c].code = "attempted"
        \/ /\ pc'[c] = "replied"
           /\ reply'[c].code \in {"invalid_input", "no_endpoint", "unknown_endpoint"}
    BY <1>1 DEF CheckEvent, SendVerdict, Reply
  <2>3. /\ "attempted" \in Successes
        /\ {"invalid_input", "no_endpoint", "unknown_endpoint"} \cap Successes = {}
    BY CodesAreDisjoint DEF Successes, Refusals
  <2>. QED
    BY <2>1, <2>2, <2>3 DEF CallInStep
<1>2. CASE Post(c)
  <2>1. /\ pc'[c] = "posted"
        /\ call'[c] = call[c]
        /\ wrote'[c] = wrote[c]
        /\ ~ wrote[c]
        /\ reply[c].code \in Successes
        /\ call[c] \in ToolCalls
        /\ call[c].tool = "send_webhook_event"
    BY <1>0, <1>2 DEF Post
  <2>2. call[c].EventID \in STRING
    BY <2>1, CallShape, ControlAssumption DEF SendCall
  <2>3. PICK delivery \in Deliveries(RegisteredEndpoint, call[c].EventID, ResponseStatuses) :
          reply' = [reply EXCEPT ![c].webhooks = <<delivery>>]
    BY <1>2 DEF Post
  <2>4. /\ reply'[c].code = reply[c].code
        /\ reply'[c].webhooks = <<delivery>>
    BY <2>3 DEF Reply
  <2>5. delivery \in WebhookDeliveryObservation
    BY <2>2, DeliveryType
  <2>6. /\ reply'[c].webhooks # <<>>
        /\ reply'[c].webhooks[1] \in WebhookDeliveryObservation
    BY <2>4, <2>5
  <2>. QED
    BY <2>1, <2>4, <2>6 DEF CallInStep
<1>3. CASE RecordDelivery(c)
  <2>1. /\ pc'[c] = "replied"
        /\ call'[c] = call[c]
        /\ reply'[c] = reply[c]
        /\ reply[c].code \in Successes
        /\ wrote'[c]
        /\ call[c] \in ToolCalls
    BY <1>0, <1>3 DEF RecordDelivery
  <2>. QED
    BY <2>1 DEF CallInStep
<1>. QED
  BY <1>1, <1>2, <1>3 DEF SendWebhookEvent

(***************************************************************************)
(* Every step keeps every call in step.                                    *)
(***************************************************************************)
LEMMA CallsStep ==
  ASSUME TypeOKControl, CallsInStep, [NextControl]_controlPlaneVars
  PROVE  CallsInStep'
<1>1. ASSUME NEW c \in Callers, ControlStep(c)
      PROVE  CallsInStep'
  <2>1. CallInStep(c)
    BY DEF CallsInStep
  <2>0. ASSUME CallInStep(c)'
        PROVE  CallsInStep'
    <3>. SUFFICES ASSUME NEW q \in Callers, q # c
                  PROVE  CallInStep(q)'
      BY <2>0 DEF CallsInStep
    <3>1. CallInStep(q)
      BY DEF CallsInStep
    <3>. QED
      BY <1>1, <3>1, OthersUntouched, CallUntouched
  <2>2. CASE Begin(c)
    <3>1. /\ pc[c] = "idle"
          /\ pc'[c] = "called"
          /\ call'[c] \in ToolCalls
          /\ reply'[c] = reply[c]
          /\ wrote'[c] = wrote[c]
      BY <2>2 DEF Begin, Goto, TypeOKControl, ControlTypeOK
    <3>2. ~ wrote'[c]
      BY <2>1, <3>1 DEF CallInStep, WritesOnce, BeforeWrite
    <3>3. reply'[c].code = ""
      BY <2>1, <3>1 DEF CallInStep, CodeInStep
    <3>. QED
      BY <2>0, <3>1, <3>2, <3>3
      DEF CallInStep, HasCall, WritesOnce, CodeInStep, Checked, AfterWrite
  <2>4. CASE Finish(c)
    <3>1. pc'[c] = "idle" /\ wrote'[c] = FALSE /\ reply'[c].code = ""
      BY <2>4 DEF Finish, Goto, TypeOKControl, ControlTypeOK, EmptyReply
    <3>. QED
      BY <2>0, <3>1
      DEF CallInStep, HasCall, WritesOnce, CodeInStep, Checked, AfterWrite
  <2>3. CASE HandleCall(c)
    <3>1. CASE Configure(c)
      BY <2>0, <2>1, <3>1, ConfigureStep
    <3>2. CASE ChangeContract(c)
      BY <2>0, <2>1, <3>2, ChangeContractStep
    <3>3. CASE ResetStore(c) \/ ReadContractStatus(c) \/ GetObservations(c)
      BY <2>0, <2>1, <3>3, PlainStep
    <3>4. CASE SendWebhookEvent(c)
      BY <2>0, <2>1, <3>4, SendStep
    <3>. QED
      BY <2>3, <3>1, <3>2, <3>3, <3>4 DEF HandleCall
  <2>. QED
    BY <1>1, <2>2, <2>3, <2>4 DEF ControlStep
<1>2. CASE UNCHANGED controlPlaneVars
  BY <1>2, CallUntouched DEF CallsInStep
<1>. QED
  BY <1>1, <1>2 DEF NextControl

-----------------------------------------------------------------------------
(***************************************************************************)
(* Types.                                                                  *)
(***************************************************************************)

(***************************************************************************)
(* The store changes where a behavior is stored, a reset clears it and a   *)
(* delivery is recorded; the contract where it is activated or cleared.    *)
(***************************************************************************)
LEMMA SharedTypeStep ==
  ASSUME TypeOKControl, NEW c \in Callers, CallInStep(c), ControlStep(c)
  PROVE  StoreTypeOK' /\ ContractTypeOK'
<1>. USE DEF TypeOKControl, StoreTypeOK, ContractTypeOK, At
<1>0. call[c] \in ToolCall \cup {NoCall}
  BY DEF ControlTypeOK
<1>1. CASE StoreBehavior(c)
  <2>1. call[c] \in ConfigureCall
    BY <1>1, CallShape, ControlAssumption
    DEF StoreBehavior, CallInStep, HasCall
  <2>2. call[c].rule \in ResponseRule
    BY <2>1 DEF ConfigureCall
  <2>. QED
    BY <1>1, <2>2 DEF StoreBehavior, ConfigureResponseRule
<1>2. CASE ResetStore(c)
  BY <1>2 DEF ResetStore, Reset
<1>3. CASE RecordDelivery(c)
  <2>1. reply[c].webhooks[1] \in WebhookDeliveryObservation
    BY <1>3 DEF RecordDelivery, CallInStep, Checked
  <2>2. webhookDeliveries' \in Seq(WebhookDeliveryObservation)
    BY <1>3, <2>1 DEF RecordDelivery, RecordWebhookDeliveryObservation
  <2>. QED
    BY <1>3, <2>2 DEF RecordDelivery, RecordWebhookDeliveryObservation
<1>4. CASE ActivateContract(c)
  <2>1. Loadable(call[c])
    BY <1>4 DEF ActivateContract, CallInStep, Checked
  <2>2. active' \in ActiveContract
    BY <1>4, <2>1 DEF ActivateContract, Activate, Loadable, ActiveContract
  <2>. QED
    BY <1>4, <2>2 DEF ActivateContract
<1>5. CASE ClearContract(c)
  BY <1>5 DEF ClearContract, Deactivate
<1>6. CASE Begin(c) \/ Finish(c)
  BY <1>6 DEF Begin, Finish
<1>7. ASSUME Configure(c), ~ StoreBehavior(c)
      PROVE  UNCHANGED sharedVars
  BY <1>7
  DEF Configure, RefuseBehavior, ValidateBehavior, DiscloseRejection,
      WarnIfManual, GuideIfValidated, GuideOtherwise, DiscloseValidation
<1>8. CASE CheckLoad(c) \/ CheckUnload(c)
  BY <1>8 DEF CheckLoad, CheckUnload
<1>9. CASE ReadContractStatus(c) \/ GetObservations(c)
  BY <1>9
  DEF ReadContractStatus, GetObservations, ListObservations, GuideEvidence,
      ListDeliveries
<1>10. CASE CheckEvent(c) \/ Post(c)
  BY <1>10 DEF CheckEvent, Post
<1>. QED
  BY <1>1, <1>2, <1>3, <1>4, <1>5, <1>6, <1>7, <1>8, <1>9, <1>10
  DEF ControlStep, HandleCall, ChangeContract, SendWebhookEvent

(***************************************************************************)
(* The locals of the caller.                                               *)
(***************************************************************************)
LEMMA LocalsTypeStep ==
  ASSUME TypeOKControl, NEW c \in Callers, CallInStep(c), ControlStep(c)
  PROVE  /\ pc' \in [Callers -> Steps]
         /\ call' \in [Callers -> ToolCall \cup {NoCall}]
         /\ snapshot' \in [Callers -> ActiveContract \cup {NoContract}]
         /\ wrote' \in [Callers -> BOOLEAN]
         /\ admission' \in Admission
<1>. USE DEF TypeOKControl, ControlTypeOK, ContractTypeOK, Steps, Goto, Wrote, At
<1>1. CASE Begin(c) \/ Finish(c)
  BY <1>1, ControlAssumption, ZenonT(60) DEF Begin, Finish
<1>2. CASE StoreBehavior(c)
  <2>1. reply[c].code \in Accepted
    BY <1>2 DEF StoreBehavior, CallInStep, Checked, Justified
  <2>2. admission' \in Admission
    BY <1>2, <2>1 DEF StoreBehavior, Admission
  <2>. QED
    BY <1>2, <2>2 DEF StoreBehavior
<1>3. CASE RefuseBehavior(c) \/ ValidateBehavior(c) \/ DiscloseRejection(c)
  BY <1>3 DEF RefuseBehavior, ValidateBehavior, DiscloseRejection
<1>4. CASE WarnIfManual(c) \/ GuideIfValidated(c) \/ GuideOtherwise(c)
             \/ DiscloseValidation(c)
  BY <1>4
  DEF WarnIfManual, GuideIfValidated, GuideOtherwise, DiscloseValidation
<1>5. CASE CheckLoad(c) \/ CheckUnload(c)
  BY <1>5 DEF CheckLoad, CheckUnload
<1>6. CASE ActivateContract(c) \/ ClearContract(c)
  <2>1. admission' \in Admission
    BY <1>6, CallShape, ControlAssumption
    DEF ActivateContract, ClearContract, DetachIfForced, Admission,
        CallInStep, HasCall, LoadCall, UnloadCall
  <2>. QED
    BY <1>6, <2>1 DEF ActivateContract, ClearContract
<1>7. CASE ResetStore(c) \/ ReadContractStatus(c)
  <2>1. NoAdmission \in Admission
    BY DEF NoAdmission, Admission
  <2>. QED
    BY <1>7, <2>1 DEF ResetStore, ReadContractStatus
<1>8. CASE GetObservations(c)
  BY <1>8 DEF GetObservations, ListObservations, GuideEvidence, ListDeliveries
<1>9. CASE SendWebhookEvent(c)
  BY <1>9 DEF SendWebhookEvent, CheckEvent, Post, RecordDelivery
<1>. QED
  BY <1>1, <1>2, <1>3, <1>4, <1>5, <1>6, <1>7, <1>8, <1>9
  DEF ControlStep, HandleCall, Configure, ChangeContract

(***************************************************************************)
(* The verdicts are codes of a reply.                                      *)
(***************************************************************************)
LEMMA ReplyTypeStep ==
  ASSUME TypeOKControl, NEW c \in Callers, CallInStep(c), ControlStep(c)
  PROVE  reply' \in [Callers -> Reply]
<1>. USE DEF TypeOKControl, ControlTypeOK, ContractTypeOK, At
<1>0. /\ reply \in [Callers -> Reply]
      /\ active \in ActiveContract \cup {NoContract}
  OBVIOUS
<1>1. ASSUME NEW code \in Successes \cup Refusals, Code(c, code)
      PROVE  reply' \in [Callers -> Reply]
  BY <1>0, <1>1, ZenonT(60) DEF Code, Reply
<1>2. CASE UNCHANGED reply
  BY <1>0, <1>2
<1>3. CASE Finish(c)
  <2>1. /\ <<>> \in Seq(Observation)
        /\ <<>> \in Seq(WebhookDeliveryObservation)
        /\ "" \in Guidance
    BY DEF Guidance
  <2>2. EmptyReply \in Reply
    BY <2>1 DEF EmptyReply, Reply
  <2>. QED
    BY <1>0, <1>3, <2>2 DEF Finish
<1>4. CASE RefuseBehavior(c)
  BY <1>1, <1>4 DEF RefuseBehavior, Refusals
<1>5. CASE ValidateBehavior(c)
  <2>1. call[c] \in ConfigureCall
    BY <1>5, CallShape, ControlAssumption DEF ValidateBehavior, CallInStep, HasCall
  <2>2. ValidateResponseRule(active, call[c].rule, call[c].override)
          \in Successes \cup Refusals
    BY <1>0, <2>1, VerdictMeaning DEF ConfigureCall, Justified, Successes
  <2>. QED
    BY <1>1, <1>5, <2>2 DEF ValidateBehavior
<1>6. CASE DiscloseRejection(c) \/ DiscloseValidation(c) \/ ReadContractStatus(c)
  <2>1. reply' = [reply EXCEPT ![c].status = active]
    BY <1>6 DEF DiscloseRejection, DiscloseValidation, ReadContractStatus
  <2>. QED
    BY <1>0, <2>1, ZenonT(60) DEF Reply
<1>7. CASE WarnIfManual(c)
  <2>1. ASSUME NEW warning \in BOOLEAN,
               reply' = [reply EXCEPT ![c].manualWarning = warning]
        PROVE  reply' \in [Callers -> Reply]
    BY <1>0, <2>1, ZenonT(60) DEF Reply
  <2>. QED
    BY <1>7, <2>1 DEF WarnIfManual
<1>8. ASSUME NEW guidance \in Guidance, reply' = [reply EXCEPT ![c].guidance = guidance]
      PROVE  reply' \in [Callers -> Reply]
  BY <1>0, <1>8, ZenonT(60) DEF Reply
<1>9. CASE GuideIfValidated(c)
  BY <1>2, <1>8, <1>9 DEF GuideIfValidated, Guidance
<1>10. CASE GuideOtherwise(c)
  BY <1>8, <1>10 DEF GuideOtherwise, Guidance
<1>11. CASE CheckLoad(c)
  <2>1. LoadVerdict(call[c], HasResponseRule) \in Successes \cup Refusals
    BY LoadVerdictMeaning DEF HasResponseRule, Successes
  <2>. QED
    BY <1>1, <1>11, <2>1 DEF CheckLoad
<1>12. CASE CheckUnload(c)
  <2>1. UnloadVerdict(call[c], HasResponseRule) \in Successes \cup Refusals
    BY DEF UnloadVerdict, Successes, Refusals
  <2>. QED
    BY <1>1, <1>12, <2>1 DEF CheckUnload
<1>13. CASE ResetStore(c)
  BY <1>1, <1>13 DEF ResetStore, Successes
<1>14. CASE ListObservations(c) \/ ListDeliveries(c)
  <2>1. CASE ListObservations(c)
    BY <1>0, <2>1, ZenonT(60) DEF ListObservations, StoreTypeOK, Reply
  <2>2. CASE ListDeliveries(c)
    BY <1>0, <2>2, ZenonT(60) DEF ListDeliveries, StoreTypeOK, Reply
  <2>. QED
    BY <1>14, <2>1, <2>2
<1>15. CASE GuideEvidence(c)
  BY <1>8, <1>15 DEF GuideEvidence, EvidenceGuidance, Guidance
<1>16. CASE CheckEvent(c)
  <2>1. SendVerdict(RegisteredEndpoint, call[c]) \in Successes \cup Refusals
    BY DEF SendVerdict, Successes, Refusals
  <2>. QED
    BY <1>1, <1>16, <2>1 DEF CheckEvent
<1>17. CASE Post(c)
  <2>1. call[c].EventID \in STRING
    BY <1>17, CallShape, ControlAssumption DEF Post, CallInStep, HasCall, SendCall
  <2>2. PICK delivery \in Deliveries(RegisteredEndpoint, call[c].EventID, ResponseStatuses) :
          reply' = [reply EXCEPT ![c].webhooks = <<delivery>>]
    BY <1>17 DEF Post
  <2>3. <<delivery>> \in Seq(WebhookDeliveryObservation)
    BY <2>1, <2>2, DeliveryType
  <2>. QED
    BY <1>0, <2>2, <2>3, ZenonT(60) DEF Reply
<1>18. CASE Begin(c) \/ StoreBehavior(c) \/ ActivateContract(c)
              \/ ClearContract(c) \/ RecordDelivery(c)
  BY <1>2, <1>18
  DEF Begin, StoreBehavior, ActivateContract, ClearContract, RecordDelivery
<1>. QED
  BY <1>3, <1>4, <1>5, <1>6, <1>7, <1>9, <1>10, <1>11, <1>12, <1>13, <1>14,
     <1>15, <1>16, <1>17, <1>18
  DEF ControlStep, HandleCall, Configure, ChangeContract, GetObservations,
      SendWebhookEvent

(***************************************************************************)
(* Every step keeps the types.                                             *)
(***************************************************************************)
LEMMA ControlTypeStep ==
  ASSUME TypeOKControl, CallsInStep, [NextControl]_controlPlaneVars
  PROVE  TypeOKControl'
<1>1. ASSUME NEW c \in Callers, ControlStep(c)
      PROVE  TypeOKControl'
  <2>1. CallInStep(c)
    BY DEF CallsInStep
  <2>. QED
    BY <1>1, <2>1, SharedTypeStep, LocalsTypeStep, ReplyTypeStep
    DEF TypeOKControl, ControlTypeOK
<1>2. CASE UNCHANGED controlPlaneVars
  BY <1>2 DEF TypeOKControl, StoreTypeOK, ContractTypeOK, ControlTypeOK
<1>. QED
  BY <1>1, <1>2 DEF NextControl

-----------------------------------------------------------------------------
(***************************************************************************)
(* The stored rule stays justified until it is replaced or cleared: a      *)
(* change of contract touches only the mark that it was forced.            *)
(***************************************************************************)
LEMMA JustifiedUntouched ==
  ASSUME StoredRuleIsJustified, responseRule' = responseRule,
         admission'.under = admission.under, admission'.as = admission.as
  PROVE  StoredRuleIsJustified'
BY DEF StoredRuleIsJustified, HasResponseRule

(***************************************************************************)
(* A rule is stored with the verdict its validation gave.                  *)
(***************************************************************************)
LEMMA JustifiedStep ==
  ASSUME TypeOKControl, CallsInStep, StoredRuleIsJustified,
         [NextControl]_controlPlaneVars
  PROVE  StoredRuleIsJustified'
<1>1. ASSUME NEW c \in Callers, StoreBehavior(c)
      PROVE  StoredRuleIsJustified'
  <2>1. /\ ValidConfigureBehavior(call[c])
        /\ Justified(call[c].rule, snapshot[c], reply[c].code)
    BY <1>1 DEF StoreBehavior, At, CallsInStep, CallInStep, Checked
  <2>2. /\ responseRule' = call[c].rule
        /\ admission'.under = snapshot[c]
        /\ admission'.as = reply[c].code
    BY <1>1 DEF StoreBehavior, ConfigureResponseRule
  <2>3. responseRule'.StatusCode \in 100 .. 999
    BY <2>1, <2>2 DEF ValidConfigureBehavior
  <2>4. Justified(responseRule', admission'.under, admission'.as)
    BY <2>1, <2>2
  <2>. QED
    BY <2>3, <2>4 DEF StoredRuleIsJustified, Justified
<1>2. ASSUME NEW c \in Callers, ResetStore(c)
      PROVE  StoredRuleIsJustified'
  BY <1>2 DEF ResetStore, Reset, StoredRuleIsJustified, HasResponseRule
<1>3. ASSUME NEW c \in Callers, ActivateContract(c) \/ ClearContract(c)
      PROVE  StoredRuleIsJustified'
  <2>1. admission \in Admission
    BY DEF TypeOKControl, ControlTypeOK
  <2>2. responseRule' = responseRule /\ DetachIfForced(c)
    BY <1>3 DEF ActivateContract, ClearContract
  <2>3. admission'.under = admission.under /\ admission'.as = admission.as
    BY <2>1, <2>2 DEF DetachIfForced, Admission
  <2>. QED
    BY <2>2, <2>3, JustifiedUntouched
<1>4. ASSUME UNCHANGED <<responseRule, admission>>
      PROVE  StoredRuleIsJustified'
  BY <1>4, JustifiedUntouched
<1>5. ASSUME NEW c \in Callers, Begin(c) \/ Finish(c)
      PROVE  StoredRuleIsJustified'
  BY <1>4, <1>5 DEF Begin, Finish
<1>6. ASSUME NEW c \in Callers, Configure(c), ~ StoreBehavior(c)
      PROVE  StoredRuleIsJustified'
  BY <1>4, <1>6
  DEF Configure, RefuseBehavior, ValidateBehavior, DiscloseRejection,
      WarnIfManual, GuideIfValidated, GuideOtherwise, DiscloseValidation
<1>7. ASSUME NEW c \in Callers, CheckLoad(c) \/ CheckUnload(c)
      PROVE  StoredRuleIsJustified'
  BY <1>4, <1>7 DEF CheckLoad, CheckUnload
<1>8. ASSUME NEW c \in Callers, ReadContractStatus(c) \/ GetObservations(c)
      PROVE  StoredRuleIsJustified'
  BY <1>4, <1>8
  DEF ReadContractStatus, GetObservations, ListObservations, GuideEvidence,
      ListDeliveries
<1>9. ASSUME NEW c \in Callers, SendWebhookEvent(c)
      PROVE  StoredRuleIsJustified'
  BY <1>4, <1>9
  DEF SendWebhookEvent, CheckEvent, Post, RecordDelivery,
      RecordWebhookDeliveryObservation
<1>10. CASE UNCHANGED controlPlaneVars
  BY <1>4, <1>10
<1>. QED
  BY <1>1, <1>2, <1>3, <1>5, <1>6, <1>7, <1>8, <1>9, <1>10
  DEF NextControl, ControlStep, HandleCall, ChangeContract

-----------------------------------------------------------------------------
(***************************************************************************)
(* The inductive invariant: what a handler has read and not yet written is *)
(* in its locals, so they carry the justification from step to step.       *)
(***************************************************************************)
ControlInv == TypeOKControl /\ CallsInStep /\ StoredRuleIsJustified

(***************************************************************************)
(* At the start no call is in flight and no rule is stored.                *)
(***************************************************************************)
LEMMA InitControlEstablishes == InitControl => ControlInv
<1>. SUFFICES ASSUME InitControl
              PROVE  ControlInv
  OBVIOUS
<1>. USE DEF InitControl, StoreInit, ContractInit, ControlInit
<1>1. StoreTypeOK
  BY DEF StoreTypeOK
<1>2. ContractTypeOK
  BY DEF ContractTypeOK, ActiveContract, ValidationModes
<1>3. ControlTypeOK
  <2>1. /\ <<>> \in Seq(Observation)
        /\ <<>> \in Seq(WebhookDeliveryObservation)
        /\ "" \in Guidance
    BY DEF Guidance
  <2>2. EmptyReply \in Reply
    BY <2>1 DEF EmptyReply, Reply
  <2>3. NoAdmission \in Admission
    BY DEF NoAdmission, Admission
  <2>. QED
    BY <2>2, <2>3 DEF ControlTypeOK, Steps
<1>4. CallsInStep
  BY DEF CallsInStep, CallInStep, HasCall, WritesOnce, CodeInStep, Checked,
         AfterWrite, EmptyReply
<1>5. StoredRuleIsJustified
  BY DEF StoredRuleIsJustified, HasResponseRule
<1>. QED
  BY <1>1, <1>2, <1>3, <1>4, <1>5 DEF ControlInv, TypeOKControl

(***************************************************************************)
(* Every step of every call keeps it.                                      *)
(***************************************************************************)
LEMMA NextControlPreserves ==
  ControlInv /\ [NextControl]_controlPlaneVars => ControlInv'
BY ControlTypeStep, CallsStep, JustifiedStep DEF ControlInv

(***************************************************************************)
(* The invariant of every behavior of the control plane.                   *)
(***************************************************************************)
THEOREM ControlInvariance == SpecControl => []ControlInv
BY InitControlEstablishes, NextControlPreserves, PTL DEF SpecControl

(***************************************************************************)
(* Type correctness of the control plane.                                  *)
(***************************************************************************)
THEOREM ControlTypeCorrectness == SpecControl => []TypeOKControl
<1>1. ControlInv => TypeOKControl
  BY DEF ControlInv
<1>. QED
  BY <1>1, ControlInvariance, PTL

(***************************************************************************)
(* However many calls interleave, a rule gets into the store only past the *)
(* tool's checks and with a verdict that accepts it, and stays with the    *)
(* contract that gave the verdict on record.                               *)
(***************************************************************************)
THEOREM JustificationCorrectness == SpecControl => []StoredRuleIsJustified
<1>1. ControlInv => StoredRuleIsJustified
  BY DEF ControlInv
<1>. QED
  BY <1>1, ControlInvariance, PTL

(***************************************************************************)
(* A reply reports success exactly when its call changed the state.        *)
(***************************************************************************)
THEOREM ReplyCorrectness == SpecControl => []ReplyTellsEffect
<1>1. ControlInv => ReplyTellsEffect
  BY DEF ControlInv, CallsInStep, CallInStep, WritesOnce, ReplyTellsEffect
<1>. QED
  BY <1>1, ControlInvariance, PTL

(***************************************************************************)
(* Between two resets no webhook evidence disappears, changes or moves.    *)
(***************************************************************************)
THEOREM DeliveryGrowth == SpecControl => DeliveriesOnlyGrow
<1>. DEFINE Grows ==
        /\ Len(webhookDeliveries) <= Len(webhookDeliveries')
        /\ \A i \in 1 .. Len(webhookDeliveries) :
             webhookDeliveries'[i] = webhookDeliveries[i]
<1>1. ASSUME ControlInv, [NextControl]_controlPlaneVars, generation' = generation
      PROVE  Grows
  <2>. USE DEF ControlInv, TypeOKControl, StoreTypeOK
  <2>1. CASE webhookDeliveries' = webhookDeliveries
    BY <1>1, <2>1
  <2>2. ASSUME NEW c \in Callers, RecordDelivery(c)
        PROVE  Grows
    <3>1. reply[c].webhooks[1] \in WebhookDeliveryObservation
      BY <1>1, <2>2 DEF RecordDelivery, At, CallsInStep, CallInStep, Checked
    <3>. QED
      BY <1>1, <2>2, <3>1 DEF RecordDelivery, RecordWebhookDeliveryObservation
  <2>3. ASSUME NEW c \in Callers, ResetStore(c)
        PROVE  Grows
    <3>1. generation' = generation + 1 /\ generation \in Nat
      BY <1>1, <2>3 DEF ResetStore, Reset
    <3>. QED
      BY <1>1, <3>1
  <2>4. ASSUME NEW c \in Callers, Begin(c) \/ Finish(c) \/ Configure(c)
        PROVE  webhookDeliveries' = webhookDeliveries
    BY <2>4
    DEF Begin, Finish, Configure, RefuseBehavior, ValidateBehavior,
        DiscloseRejection, StoreBehavior, ConfigureResponseRule, WarnIfManual,
        GuideIfValidated, GuideOtherwise, DiscloseValidation
  <2>5. ASSUME NEW c \in Callers,
               ChangeContract(c) \/ ReadContractStatus(c) \/ GetObservations(c)
                 \/ CheckEvent(c) \/ Post(c)
        PROVE  webhookDeliveries' = webhookDeliveries
    BY <2>5
    DEF ChangeContract, CheckLoad, ActivateContract, CheckUnload, ClearContract,
        ReadContractStatus, GetObservations, ListObservations, GuideEvidence,
        ListDeliveries, CheckEvent, Post
  <2>. QED
    BY <1>1, <2>1, <2>2, <2>3, <2>4, <2>5
    DEF NextControl, ControlStep, HandleCall, SendWebhookEvent
<1>2. ControlInv /\ [NextControl]_controlPlaneVars
        => [generation' = generation => Grows]_controlPlaneVars
  BY <1>1
<1>. QED
  BY <1>2, ControlInvariance, PTL DEF SpecControl, DeliveriesOnlyGrow

-----------------------------------------------------------------------------
(***************************************************************************)
(* What holds when a client makes one call at a time: the checks and the   *)
(* writes of a call are separate steps, and the replies read the contract  *)
(* several times over, but nothing comes between.                          *)
(***************************************************************************)
GuidanceFor(contract) ==
  IF contract = NoContract THEN "manual"
  ELSE IF contract.validationMode = "off" THEN "validation_off"
  ELSE "validation_active"

(***************************************************************************)
(* What the handler of the only call has read is still so: the contract it *)
(* validated against, the absence of a behavior, the answers it has put in *)
(* its reply.                                                              *)
(***************************************************************************)
ReadsHold(c) ==
  /\ pc[c] = "validated" => snapshot[c] = active
  /\ pc[c] = "checked" => ~ HasResponseRule \/ call[c].Force
  /\ pc[c] = "guiding" => ~ ValidationActive
  /\ pc[c] = "counted" =>
       reply[c].guidance = EvidenceGuidance(reply[c].rest, webhookDeliveries)

Configured(c, steps) == pc[c] \in steps \/ (pc[c] = "replied" /\ ConfiguredReply(c))

ReplyHolds(c) ==
  /\ Configured(c, {"stored", "warned", "guiding", "guided"}) =>
       /\ responseRule = call[c].rule
       /\ (reply[c].code = "manual") <=> (active = NoContract)
  /\ Configured(c, {"warned", "guiding", "guided"}) =>
       (reply[c].manualWarning <=> active = NoContract)
  /\ Configured(c, {"guided"}) => reply[c].guidance = GuidanceFor(active)
  /\ (pc[c] = "replied" /\ DisclosesContract(c)) => reply[c].status = active
  /\ (pc[c] = "replied" /\ call[c].tool = "get_observations") =>
       reply[c].guidance = EvidenceGuidance(reply[c].rest, reply[c].webhooks)

SerialInv ==
  /\ BehaviorBelongsToContract
  /\ \A c \in Callers : ReadsHold(c) /\ ReplyHolds(c)

-----------------------------------------------------------------------------
(***************************************************************************)
(* configure_behavior, up to the write and after it.                       *)
(***************************************************************************)
LEMMA SerialConfigure ==
  ASSUME TypeOKControl, NEW c \in Callers, CallInStep(c), Configure(c),
         BehaviorBelongsToContract, ReadsHold(c), ReplyHolds(c)
  PROVE  BehaviorBelongsToContract' /\ ReadsHold(c)' /\ ReplyHolds(c)'
<1>. USE DEF TypeOKControl, ControlTypeOK, Goto, Code, Wrote, At, ReadsHold,
             ReplyHolds, Configured, ConfiguredReply, DisclosesContract
<1>1. CASE RefuseBehavior(c)
  <2>1. /\ pc'[c] = "replied" /\ call' = call /\ reply'[c].code = "invalid_input"
        /\ call[c].tool = "configure_behavior"
        /\ UNCHANGED <<sharedVars, admission>>
    BY <1>1 DEF RefuseBehavior, Reply
  <2>2. "invalid_input" \notin Accepted
    BY DEF Accepted
  <2>. QED
    BY <2>1, <2>2 DEF BehaviorBelongsToContract, HasResponseRule
<1>2. CASE ValidateBehavior(c)
  <2>1. /\ pc'[c] \in {"validated", "rejected"} /\ snapshot'[c] = active
        /\ UNCHANGED <<sharedVars, admission>>
    BY <1>2 DEF ValidateBehavior
  <2>. QED
    BY <2>1 DEF BehaviorBelongsToContract, HasResponseRule
<1>3. CASE DiscloseRejection(c)
  <2>1. /\ pc'[c] = "replied" /\ call' = call
        /\ reply'[c].code = reply[c].code /\ reply'[c].status = active
        /\ call[c].tool = "configure_behavior" /\ pc[c] = "rejected"
        /\ UNCHANGED <<sharedVars, admission>>
    BY <1>3 DEF DiscloseRejection, Reply
  <2>2. reply[c].code \notin Accepted
    BY <2>1, CodesAreDisjoint DEF CallInStep, CodeInStep, Successes
  <2>. QED
    BY <2>1, <2>2 DEF BehaviorBelongsToContract, HasResponseRule
<1>4. CASE StoreBehavior(c)
  <2>1. /\ pc[c] = "validated" /\ pc'[c] = "stored" /\ call' = call
        /\ reply' = reply /\ active' = active
        /\ responseRule' = call[c].rule /\ admission'.under = snapshot[c]
    BY <1>4 DEF StoreBehavior, ConfigureResponseRule
  <2>2. (reply[c].code = "manual") <=> (snapshot[c] = NoContract)
    BY <2>1 DEF CallInStep, Checked, Justified
  <2>. QED
    BY <2>1, <2>2 DEF BehaviorBelongsToContract
<1>5. CASE WarnIfManual(c)
  <2>1. /\ pc[c] = "stored" /\ pc'[c] = "warned" /\ call' = call
        /\ reply'[c].code = reply[c].code
        /\ reply'[c].manualWarning <=> (active = NoContract)
        /\ UNCHANGED <<sharedVars, admission>>
    BY <1>5 DEF WarnIfManual, Reply
  <2>. QED
    BY <2>1 DEF BehaviorBelongsToContract, HasResponseRule
<1>6. CASE GuideIfValidated(c) \/ GuideOtherwise(c)
  <2>1. /\ pc[c] \in {"warned", "guiding"} /\ call' = call
        /\ UNCHANGED <<sharedVars, admission>>
    BY <1>6 DEF GuideIfValidated, GuideOtherwise
  <2>2. \/ /\ reply' = reply /\ pc' = [pc EXCEPT ![c] = "guiding"]
           /\ ~ ValidationActive
        \/ /\ reply' = [reply EXCEPT ![c].guidance = GuidanceFor(active)]
           /\ pc' = [pc EXCEPT ![c] = "guided"]
    <3>1. CASE GuideIfValidated(c) /\ ValidationActive
      <4>1. GuidanceFor(active) = "validation_active"
        BY <3>1 DEF GuidanceFor, ValidationActive
      <4>2. /\ reply' = [reply EXCEPT ![c].guidance = "validation_active"]
            /\ pc' = [pc EXCEPT ![c] = "guided"]
        BY <3>1, Zenon DEF GuideIfValidated
      <4>. QED
        BY <4>1, <4>2, Zenon
    <3>2. CASE GuideIfValidated(c) /\ ~ ValidationActive
      BY <3>2, Zenon DEF GuideIfValidated
    <3>3. CASE GuideOtherwise(c)
      <4>1. GuidanceFor(active) = IF active = NoContract THEN "manual" ELSE "validation_off"
        <5>1. ~ ValidationActive
          BY <3>3 DEF GuideOtherwise
        <5>. QED
          BY <5>1 DEF GuidanceFor, ValidationActive
      <4>2. /\ reply' = [reply EXCEPT ![c].guidance =
                           IF active = NoContract THEN "manual" ELSE "validation_off"]
            /\ pc' = [pc EXCEPT ![c] = "guided"]
        BY <3>3, Zenon DEF GuideOtherwise
      <4>. QED
        BY <4>1, <4>2, Zenon
    <3>. QED
      BY <1>6, <3>1, <3>2, <3>3
  <2>3. /\ pc'[c] \in {"guiding", "guided"}
        /\ pc'[c] = "guiding" => ~ ValidationActive
        /\ pc'[c] = "guided" => reply'[c].guidance = GuidanceFor(active)
        /\ reply'[c].code = reply[c].code
        /\ reply'[c].manualWarning = reply[c].manualWarning
    <3>1. CASE pc' = [pc EXCEPT ![c] = "guiding"] /\ reply' = reply
      BY <2>2, <3>1
    <3>2. CASE /\ pc' = [pc EXCEPT ![c] = "guided"]
               /\ reply' = [reply EXCEPT ![c].guidance = GuidanceFor(active)]
      <4>1. pc'[c] = "guided"
        BY <3>2
      <4>2. reply[c] \in Reply /\ reply'[c] = [reply[c] EXCEPT !.guidance = GuidanceFor(active)]
        BY <3>2
      <4>. QED
        BY <4>1, <4>2 DEF Reply
    <3>. QED
      BY <2>2, <3>1, <3>2
  <2>4. GuidanceFor(active)' = GuidanceFor(active) /\ ValidationActive' = ValidationActive
    BY <2>1 DEF GuidanceFor, ValidationActive
  <2>5. BehaviorBelongsToContract'
    BY <2>1 DEF BehaviorBelongsToContract, HasResponseRule
  <2>6. ReadsHold(c)'
    BY <2>1, <2>3, <2>4
  <2>7. ReplyHolds(c)'
    BY <2>1, <2>3, <2>4
  <2>. QED
    BY <2>5, <2>6, <2>7
<1>7. CASE DiscloseValidation(c)
  <2>1. /\ pc[c] = "guided" /\ pc'[c] = "replied" /\ call' = call
        /\ reply'[c].code = reply[c].code
        /\ reply'[c].manualWarning = reply[c].manualWarning
        /\ reply'[c].guidance = reply[c].guidance
        /\ reply'[c].status = active
        /\ call[c].tool = "configure_behavior"
        /\ UNCHANGED <<sharedVars, admission>>
    BY <1>7 DEF DiscloseValidation, Reply
  <2>. QED
    BY <2>1 DEF BehaviorBelongsToContract, HasResponseRule, GuidanceFor
<1>. QED
  BY <1>1, <1>2, <1>3, <1>4, <1>5, <1>6, <1>7 DEF Configure

(***************************************************************************)
(* A contract changes only if no behavior is stored or the call is forced. *)
(***************************************************************************)
LEMMA SerialContract ==
  ASSUME TypeOKControl, NEW c \in Callers, CallInStep(c), ChangeContract(c),
         BehaviorBelongsToContract, ReadsHold(c), ReplyHolds(c)
  PROVE  BehaviorBelongsToContract' /\ ReadsHold(c)' /\ ReplyHolds(c)'
<1>. USE DEF TypeOKControl, ControlTypeOK, Goto, Code, Wrote, At, ReadsHold,
             ReplyHolds, Configured, ConfiguredReply, DisclosesContract
<1>1. /\ call' = call /\ responseRule' = responseRule
      /\ pc'[c] \in {"checked", "replied"}
      /\ call[c].tool \in {"load_openapi_contract", "unload_openapi_contract"}
  BY DEF ChangeContract, CheckLoad, ActivateContract, CheckUnload, ClearContract
<1>2. ReplyHolds(c)'
  BY <1>1
<1>3. CASE CheckLoad(c) \/ CheckUnload(c)
  <2>1. pc'[c] = "checked" => ~ HasResponseRule \/ call[c].Force
    <3>1. \/ LoadVerdict(call[c], HasResponseRule) = "loaded" /\ CheckLoad(c)
          \/ UnloadVerdict(call[c], HasResponseRule) = "unloaded" /\ CheckUnload(c)
          \/ pc'[c] # "checked"
      BY <1>3 DEF CheckLoad, CheckUnload
    <3>2. LoadVerdict(call[c], HasResponseRule) = "loaded" =>
            ~ HasResponseRule \/ call[c].Force
      BY Zenon DEF LoadVerdict
    <3>3. UnloadVerdict(call[c], HasResponseRule) = "unloaded" =>
            ~ HasResponseRule \/ call[c].Force
      BY Zenon DEF UnloadVerdict
    <3>. QED
      BY <3>1, <3>2, <3>3
  <2>2. UNCHANGED <<sharedVars, admission>>
    BY <1>3 DEF CheckLoad, CheckUnload
  <2>. QED
    BY <1>1, <1>2, <2>1, <2>2 DEF BehaviorBelongsToContract, HasResponseRule
<1>4. CASE ActivateContract(c) \/ ClearContract(c)
  <2>1. pc[c] = "checked" /\ pc'[c] = "replied" /\ DetachIfForced(c)
    BY <1>4 DEF ActivateContract, ClearContract
  <2>2. HasResponseRule => call[c].Force
    BY <2>1
  <2>3. HasResponseRule => admission'.forced
    BY <2>1, <2>2 DEF DetachIfForced, Admission
  <2>. QED
    BY <1>1, <1>2, <2>1, <2>3 DEF BehaviorBelongsToContract, HasResponseRule
<1>. QED
  BY <1>3, <1>4 DEF ChangeContract

(***************************************************************************)
(* The tools that configure nothing.                                       *)
(***************************************************************************)
LEMMA SerialOther ==
  ASSUME TypeOKControl, NEW c \in Callers, CallInStep(c),
         Begin(c) \/ Finish(c) \/ ResetStore(c) \/ ReadContractStatus(c)
           \/ GetObservations(c) \/ SendWebhookEvent(c),
         BehaviorBelongsToContract, ReadsHold(c), ReplyHolds(c)
  PROVE  BehaviorBelongsToContract' /\ ReadsHold(c)' /\ ReplyHolds(c)'
<1>. USE DEF TypeOKControl, ControlTypeOK, Goto, Code, Wrote, At, ReadsHold,
             ReplyHolds, Configured, ConfiguredReply, DisclosesContract
<1>1. CASE Begin(c) \/ Finish(c)
  <2>1. pc'[c] \in {"called", "idle"} /\ UNCHANGED <<sharedVars, admission>>
    BY <1>1 DEF Begin, Finish
  <2>. QED
    BY <2>1 DEF BehaviorBelongsToContract, HasResponseRule
<1>2. CASE ResetStore(c)
  <2>1. pc'[c] = "cleared" /\ responseRule' = NoRule
    BY <1>2 DEF ResetStore, Reset
  <2>. QED
    BY <2>1 DEF BehaviorBelongsToContract, HasResponseRule
<1>3. CASE ReadContractStatus(c)
  <2>1. /\ pc'[c] = "replied" /\ call' = call /\ reply'[c].status = active
        /\ call[c].tool \in {"reset", "get_contract_status"}
        /\ UNCHANGED <<sharedVars, admission>>
    BY <1>3 DEF ReadContractStatus, Reply
  <2>. QED
    BY <2>1 DEF BehaviorBelongsToContract, HasResponseRule
<1>4. CASE GetObservations(c)
  <2>1. /\ call' = call /\ call[c].tool = "get_observations"
        /\ UNCHANGED <<sharedVars, admission>>
    BY <1>4 DEF GetObservations, ListObservations, GuideEvidence, ListDeliveries
  <2>2. BehaviorBelongsToContract'
    BY <2>1 DEF BehaviorBelongsToContract, HasResponseRule
  <2>3. CASE ListObservations(c)
    BY <2>1, <2>2, <2>3 DEF ListObservations
  <2>4. CASE GuideEvidence(c)
    <3>1. /\ pc'[c] = "counted" /\ reply'[c].rest = reply[c].rest
          /\ reply'[c].guidance = EvidenceGuidance(reply[c].rest, webhookDeliveries)
      BY <2>4 DEF GuideEvidence, Reply
    <3>. QED
      BY <2>1, <2>2, <3>1
  <2>5. CASE ListDeliveries(c)
    <3>1. /\ pc[c] = "counted" /\ pc'[c] = "replied" /\ reply'[c].rest = reply[c].rest
          /\ reply'[c].guidance = reply[c].guidance
          /\ reply'[c].webhooks = webhookDeliveries
      BY <2>5 DEF ListDeliveries, Reply
    <3>. QED
      BY <2>1, <2>2, <3>1
  <2>. QED
    BY <1>4, <2>3, <2>4, <2>5 DEF GetObservations
<1>5. CASE SendWebhookEvent(c)
  <2>1. /\ call' = call /\ call[c].tool = "send_webhook_event"
        /\ pc'[c] \in {"posting", "posted", "replied"}
        /\ UNCHANGED <<responseRule, active, admission>>
    BY <1>5 DEF SendWebhookEvent, CheckEvent, Post, RecordDelivery,
       RecordWebhookDeliveryObservation
  <2>. QED
    BY <2>1 DEF BehaviorBelongsToContract, HasResponseRule
<1>. QED
  BY <1>1, <1>2, <1>3, <1>4, <1>5

-----------------------------------------------------------------------------
\* At first no call is in flight.
LEMMA SerialInit == InitControl => SerialInv
BY DEF InitControl, StoreInit, ControlInit, SerialInv, BehaviorBelongsToContract,
       HasResponseRule, ReadsHold, ReplyHolds, Configured

\* Every step of the only call in flight keeps it serial.
LEMMA SerialStep ==
  ASSUME \A c, d \in Callers : c = d, ControlInv, SerialInv,
         [NextControl]_controlPlaneVars
  PROVE  SerialInv'
<1>1. ASSUME NEW c \in Callers, ControlStep(c)
      PROVE  SerialInv'
  <2>1. BehaviorBelongsToContract' /\ ReadsHold(c)' /\ ReplyHolds(c)'
    BY <1>1, SerialConfigure, SerialContract, SerialOther
    DEF SerialInv, ControlInv, CallsInStep, ControlStep, HandleCall
  <2>. QED
    BY <2>1 DEF SerialInv
<1>2. CASE UNCHANGED controlPlaneVars
  BY <1>2
  DEF SerialInv, BehaviorBelongsToContract, HasResponseRule, ReadsHold,
      ReplyHolds, Configured, ConfiguredReply, DisclosesContract,
      ValidationActive, GuidanceFor, EvidenceGuidance
<1>. QED
  BY <1>1, <1>2 DEF NextControl

\* What the invariant says of replies and of the behavior.
LEMMA SerialMeaning ==
  SerialInv =>
    BehaviorBelongsToContract /\ ReplyIsCoherent /\ EvidenceReplyIsCoherent
BY DEF SerialInv, ReplyHolds, Configured, GuidanceFor, ReplyIsCoherent,
       EvidenceReplyIsCoherent

(***************************************************************************)
(* To a client with one call at a time, a stored behavior belongs to the   *)
(* active contract unless it forced a change, and a reply that tells of a  *)
(* contract or a new behavior agrees with the runtime and with itself.     *)
(***************************************************************************)
THEOREM SerialCorrectness ==
  ASSUME \A c, d \in Callers : c = d
  PROVE  SpecControl => [](BehaviorBelongsToContract /\ ReplyIsCoherent)
<1>1. ControlInv /\ SerialInv /\ [NextControl]_controlPlaneVars => SerialInv'
  BY SerialStep
<1>. QED
  BY ControlInvariance, SerialInit, <1>1, SerialMeaning, PTL DEF SpecControl

=============================================================================
