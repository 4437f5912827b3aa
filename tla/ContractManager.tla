-------------------------- MODULE ContractManager --------------------------
(***************************************************************************)
(* The active OpenAPI contract (internal/control/contract_manager.go): at  *)
(* most one per process, with the validation mode it was loaded with,      *)
(* behind an RWMutex of its own, not the store's.                          *)
(*                                                                         *)
(* What a contract says is abstracted to the set of rules that conform to  *)
(* it, and what a path leads to (the contract root boundary, the file, its *)
(* parsing) to a function that stays the same while the process runs.  The *)
(* contract's id, load time and metadata decide nothing and are left out.  *)
(***************************************************************************)
EXTENDS Store

CONSTANTS
  Contracts,   \* the contracts that load
  NoContract,  \* the nil *activeOpenAPIContract
  Conforms,    \* the rules that contract.ValidateResponseRule accepts
  ContractAt   \* where a path leads: a contract, or a diagnosis

ValidationModes == {"strict", "warn", "off"}

ActiveContract == [contract : Contracts, validationMode : ValidationModes]

LoadErrors == {"missing_path", "path_not_allowed", "load_failed"}

ASSUME ContractAssumption ==
  /\ NoContract \notin ActiveContract
  /\ Conforms \in [Contracts -> SUBSET ResponseRule]
  /\ Contracts \cap LoadErrors = {}
  /\ \A path \in DOMAIN ContractAt :
       path # "" /\ ContractAt[path] \in Contracts \cup LoadErrors

VARIABLE
  active  \* the active contract and its mode, or NoContract

ContractTypeOK == active \in ActiveContract \cup {NoContract}

\* ECHO_MCP_OPENAPI_FILE makes the process start with a contract in strict mode.
ContractInit ==
  active \in {NoContract}
    \cup [contract : Contracts, validationMode : {"strict"}]

-----------------------------------------------------------------------------
(***************************************************************************)
(* The mode is trimmed and lower-cased before it is compared; "" stands    *)
(* for blank, and the sets for the spellings of a mode.                    *)
(***************************************************************************)
Spellings ==
  [strict |-> {"", "strict", "Strict"}, warn |-> {"warn", "WARN"},
   off |-> {"off", "Off"}]

NormalizeValidationMode(mode) ==
  IF \E m \in ValidationModes : mode \in Spellings[m]
    THEN CHOOSE m \in ValidationModes : mode \in Spellings[m]
    ELSE "invalid_validation_mode"

(***************************************************************************)
(* The verdict of ValidateResponseRule on a rule, given the contract it    *)
(* copied under the lock and the caller's override (its mode is blank when *)
(* it is not set).  The verdicts of Accepted store the rule, with a        *)
(* warning for all but "manual" and "valid"; the others are error codes.   *)
(***************************************************************************)
Override == [Mode : STRING, Reason : STRING]

Accepted == {"manual", "skipped", "off", "valid", "warned"}

EffectiveMode(contract, override) ==
  IF override.Mode = ""
    THEN contract.validationMode
    ELSE NormalizeValidationMode(override.Mode)

ValidateResponseRule(contract, rule, override) ==
  IF contract = NoContract
    THEN "manual"
    ELSE LET mode == EffectiveMode(contract, override)
             asked == override.Mode # ""
             valid == rule \in Conforms[contract.contract]
         IN  CASE mode = "invalid_validation_mode" -> mode
               [] mode = "off" /\ asked /\ override.Reason = "" ->
                    "validation_reason_required"
               [] mode = "off" /\ asked -> "skipped"
               [] mode = "off" /\ ~ asked -> "off"
               [] mode \in {"strict", "warn"} /\ valid -> "valid"
               [] mode = "warn" /\ ~ valid -> "warned"
               [] mode = "strict" /\ ~ valid -> "contract_validation_failed"

(***************************************************************************)
(* LoadOpenAPIContract up to its lock, given what the store said of the    *)
(* behavior when the caller asked it: the first check that fails.          *)
(***************************************************************************)
LoadVerdict(command, behaviorActive) ==
  LET mode == NormalizeValidationMode(command.ValidationMode)
  IN  CASE command.Path = "" -> "missing_path"
        [] command.Path # "" /\ behaviorActive /\ ~ command.Force ->
             "reset_required"
        [] OTHER ->
             IF mode = "invalid_validation_mode" THEN mode
             ELSE IF command.Path \notin DOMAIN ContractAt THEN "load_failed"
             ELSE IF ContractAt[command.Path] \in Contracts THEN "loaded"
             ELSE ContractAt[command.Path]

UnloadVerdict(command, behaviorActive) ==
  IF behaviorActive /\ ~ command.Force THEN "reset_required" ELSE "unloaded"

(***************************************************************************)
(* The two writes of active, each under the manager's lock.                *)
(***************************************************************************)
\* Mutant of Activate: the mode is kept as it was spelled.
ActivateAsSpelled(command) ==
  active' = [contract |-> ContractAt[command.Path],
             validationMode |-> command.ValidationMode]

Activate(command) ==
  active' = [contract |-> ContractAt[command.Path],
             validationMode |-> NormalizeValidationMode(command.ValidationMode)]

Deactivate == active' = NoContract

=============================================================================
