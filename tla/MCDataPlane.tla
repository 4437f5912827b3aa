---------------------------- MODULE MCDataPlane ----------------------------
(***************************************************************************)
(* DataPlane on two requests for one endpoint, with rules that differ in   *)
(* outcome: a final status, an informational one, one net/http refuses     *)
(* (the store takes it: only the MCP tool checks the range, and            *)
(* internal/control/adapter.go configures the store without it), and a     *)
(* rule for another method, which these requests do not match.             *)
(***************************************************************************)
EXTENDS DataPlane

CONSTANTS get1, get2

MCRule(id, method, status) ==
  [ID |-> id, Method |-> method, Path |-> "/orders", StatusCode |-> status,
   ContentType |-> "application/json", Body |-> "ok"]

MCBehaviors ==
  {MCRule("ok", "GET", 200), MCRule("early", "GET", 103),
   MCRule("bad", "GET", 42), MCRule("created", "POST", 201)}

MCRequests == {get1, get2}

MCRequestLine == [r \in MCRequests |-> [Method |-> "GET", Path |-> "/orders"]]

=============================================================================
