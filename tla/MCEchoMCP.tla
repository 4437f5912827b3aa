----------------------------- MODULE MCEchoMCP -----------------------------
(***************************************************************************)
(* EchoMCP with one caller, who waits for each reply, and two requests of  *)
(* the application for the endpoint of one of the two rules.               *)
(***************************************************************************)
EXTENDS EchoMCP

CONSTANTS a, orders, payments, get1, get2

MCRule(id, path, status) ==
  [ID |-> id, Method |-> "GET", Path |-> path, StatusCode |-> status,
   ContentType |-> "application/json", Body |-> "{}"]

Paid == MCRule("paid", "/payments", 200)
Placed == MCRule("placed", "/orders", 201)
TooLow == MCRule("low", "/orders", 99)

MCBehaviors == {Paid, Placed, TooLow}

MCContracts == {orders, payments}

MCConforms ==
  [c \in MCContracts |-> IF c = orders THEN {Placed} ELSE {Paid}]

MCContractAt ==
  [path \in {"orders.json", "payments.json", "../secret.json"} |->
     CASE path = "orders.json" -> orders
       [] path = "payments.json" -> payments
       [] OTHER -> "path_not_allowed"]

Conf(r, mode, reason) ==
  [tool |-> "configure_behavior", rule |-> r, outcomeType |-> "http_response",
   override |-> [Mode |-> mode, Reason |-> reason]]

Load(path, mode, force) ==
  [tool |-> "load_openapi_contract", Path |-> path, ValidationMode |-> mode,
   Force |-> force]

Unload(force) == [tool |-> "unload_openapi_contract", Force |-> force]

Send(event, endpoint) ==
  [tool |-> "send_webhook_event", EventID |-> event, EndpointName |-> endpoint,
   body |-> TRUE]

Plain(tool) == [tool |-> tool]

MCCalls ==
  {Conf(Paid, "", ""), Conf(Placed, "", ""), Conf(Placed, "off", "drill"),
   Conf(TooLow, "", ""), Load("orders.json", "", FALSE),
   Load("payments.json", "off", TRUE), Unload(FALSE), Unload(TRUE), Plain("reset"),
   Plain("get_observations"), Send("paid", "app")}

\* A scenario that is reset early.
MCResetCalls == {Conf(Placed, "", ""), Plain("reset")}

MCCaller == {a}

MCRequests == {get1, get2}

MCRequestLine == [r \in MCRequests |-> [Method |-> "GET", Path |-> "/orders"]]

=============================================================================
