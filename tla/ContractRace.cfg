CONSTANTS
  a = a
  b = b
  orders = orders
  payments = payments
  NoRule = NoRule
  NoContract = NoContract
  NoCall = NoCall
  RegisteredEndpoint = "app"
  ResponseStatuses = {200}
  MaxGeneration = 1
  MaxDeliveries = 1
  Behaviors <- MCBehaviors
  Contracts <- MCContracts
  Conforms <- MCConforms
  ContractAt <- MCContractAt
  Callers <- MCCallers
  ToolCalls <- MCRaceCalls

SPECIFICATION SpecControl

INVARIANTS
  BehaviorBelongsToContract
