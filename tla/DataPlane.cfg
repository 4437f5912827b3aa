CONSTANTS
  get1 = get1
  get2 = get2
  NoRule = NoRule
  MaxGeneration = 2
  Behaviors <- MCBehaviors
  Requests <- MCRequests
  RequestLine <- MCRequestLine

SPECIFICATION Spec

INVARIANTS
  TypeOK
  EvidenceIsExact
  AnswerImpliesEvidence
  OutcomeIsResponseWhenFinal
  HandlersInStep

PROPERTIES
  EvidenceOnlyGrows
  MatchedIsRecorded
