-------------------------- MODULE MCControlPlane --------------------------
(***************************************************************************)
(* ControlPlane with two calls in flight and two contracts that disagree:  *)
(* one describes the order API, the other the payment API, and each rule   *)
(* conforms to one of them, so that a change of contract under a behavior  *)
(* shows.                                                                  *)
(***************************************************************************)
EXTENDS ControlPlane, TLC

CONSTANTS a, b, orders, payments

MCRule(id, path, status) ==
  [ID |-> id, Method |-> "GET", Path |-> path, StatusCode |-> status,
   ContentType |-> "application/json", Body |-> "{}"]

Paid == MCRule("paid", "/payments", 200)
Placed == MCRule("placed", "/orders", 201)
TooLow == MCRule("low", "/orders", 99)

MCBehaviors == {Paid, Placed, TooLow}

MCContracts == {orders, payments}

MCConforms ==
  [c \in MCContracts |-> IF c = orders THEN {Placed} ELSE {Paid}]

MCContractAt ==
  [path \in {"orders.json", "payments.json", "../secret.json"} |->
     CASE path = "orders.json" -> orders
       [] path = "payments.json" -> payments
       [] OTHER -> "path_not_allowed"]

Conf(r, mode, reason) ==
  [tool |-> "configure_behavior", rule |-> r, outcomeType |-> "http_response",
   override |-> [Mode |-> mode, Reason |-> reason]]

Load(path, mode, force) ==
  [tool |-> "load_openapi_contract", Path |-> path, ValidationMode |-> mode,
   Force |-> force]

Unload(force) == [tool |-> "unload_openapi_contract", Force |-> force]

Send(event, endpoint) ==
  [tool |-> "send_webhook_event", EventID |-> event, EndpointName |-> endpoint,
   body |-> TRUE]

Plain(tool) == [tool |-> tool]

(***************************************************************************)
(* Two callers: the calls that race over the rule and the contract, with   *)
(* every way to be refused; those that race over the webhook evidence next *)
(* to one of each other kind; and an unforced change of contract that      *)
(* races a configuration.                                                  *)
(***************************************************************************)
MCRefusedCalls ==
  {Conf(TooLow, "", ""), Conf(Paid, "off", ""), Conf(Placed, "lax", ""),
   Load("", "", TRUE), Load("orders.json", "lax", TRUE),
   Load("../secret.json", "", TRUE), Load("missing.json", "", TRUE)}

MCContractCalls ==
  MCRefusedCalls \cup
  {Conf(Paid, "", ""), Conf(Placed, "off", "drill"), Conf(Placed, "warn", ""),
   Load("orders.json", "", FALSE), Load("payments.json", "off", TRUE),
   Unload(FALSE), Plain("reset"), Plain("get_contract_status")}

MCEvidenceCalls ==
  {Conf(Paid, "", ""), Load("orders.json", "", TRUE), Send("paid", "app"),
   Send("paid", "other"), Send("", "app"),
   Plain("get_observations"), Plain("reset")}

MCRaceCalls ==
  {Conf(Paid, "", ""), Load("orders.json", "", FALSE), Unload(FALSE)}

MCSymmetry == Permutations({a, b})

MCCallers == {a, b}

=============================================================================
