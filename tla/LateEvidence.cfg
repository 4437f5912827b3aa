CONSTANTS
  a = a
  get1 = get1
  get2 = get2
  orders = orders
  payments = payments
  NoRule = NoRule
  NoContract = NoContract
  NoCall = NoCall
  RegisteredEndpoint = "app"
  ResponseStatuses = {200}
  MaxGeneration = 1
  MaxDeliveries = 1
  Behaviors <- MCBehaviors
  Contracts <- MCContracts
  Conforms <- MCConforms
  ContractAt <- MCContractAt
  Callers <- MCCaller
  ToolCalls <- MCResetCalls
  Requests <- MCRequests
  RequestLine <- MCRequestLine

SPECIFICATION EchoSpec

INVARIANTS
  EvidenceIsOfThisScenario
