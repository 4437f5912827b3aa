CONSTANTS
  Schemas <- MCSchemas
  Values <- MCValues
  Depth <- MCDepth
  LocalRefs <- MCLocalRefs
  NameOrder <- MCNameOrder
  Components <- MCComponents
  SameNumber <- MCSameNumber
  Inputs <- MCInputs

SPECIFICATION Spec

INVARIANTS
  AcceptsOnlyAdmitted
  AdmittedIsNoViolation
  RoutesAreUnambiguous
  RefusedFeatureIsAnnounced

\* A behavior validates one rule and ends.
CHECK_DEADLOCK FALSE
