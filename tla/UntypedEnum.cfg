CONSTANTS
  Schemas <- MCSchemas
  Values <- MCValues
  Depth <- MCDepth
  LocalRefs <- MCLocalRefs
  NameOrder <- MCNameOrder
  Components <- MCComponents
  SameNumber <- MCSameNumber
  Inputs <- MCUntypedEnum

SPECIFICATION Spec

INVARIANTS
  EnumIsEnforced

\* A behavior validates one rule and ends.
CHECK_DEADLOCK FALSE
