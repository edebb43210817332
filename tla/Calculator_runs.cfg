CONSTANTS
  Inputs <- MCInputs
  MaxText = 8
  MaxRoom = 3
  MaxFaults = 2
SPECIFICATION Spec
CHECK_DEADLOCK FALSE
INVARIANTS
  ParserFollowsGrammar
  CodeMeansText
  CleanRunIsSafe
PROPERTIES
  RunsEnd
