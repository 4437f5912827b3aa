CONSTANTS
  Schemas <- MCSchemas
  Values <- MCValues
  Depth <- MCDepth
  LocalRefs <- MCLocalRefs
  NameOrder <- MCNameOrder
  Components <- MCComponents
  SameNumber <- MCSameNumber
  Inputs <- MCReferencedResponse

SPECIFICATION Spec

INVARIANTS
  ReferencedResponseIsChecked

\* A behavior validates one rule and ends.
CHECK_DEADLOCK FALSE
