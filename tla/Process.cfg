CONSTANTS
  MaxLinks = 4
  MaxRequests = 1
  Trees <- MCTrees
  Paths <- MCPaths
  Environments <- MCEnvironments

SPECIFICATION Spec

INVARIANTS
  TypeOK
  ContractIsTheFileNamed
  SourcePathLeadsBack
  RefusedIsOutside
  ExitTellsCause

PROPERTIES
  StartsAsConfigured
  ProcessEnds

\* The process ends.
CHECK_DEADLOCK FALSE
