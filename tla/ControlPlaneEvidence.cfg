CONSTANTS
  a = a
  b = b
  orders = orders
  payments = payments
  NoRule = NoRule
  NoContract = NoContract
  NoCall = NoCall
  RegisteredEndpoint = "app"
  ResponseStatuses = {200}
  MaxGeneration = 1
  MaxDeliveries = 2
  Behaviors <- MCBehaviors
  Contracts <- MCContracts
  Conforms <- MCConforms
  ContractAt <- MCContractAt
  Callers <- MCCallers
  ToolCalls <- MCEvidenceCalls

SPECIFICATION SpecControl

INVARIANTS
  ReplyTellsEffect

PROPERTIES
  DeliveriesOnlyGrow
  CallsAreAnswered
