SPECIFICATION Spec
CONSTANTS
  Objects <- MCObjects
  Files = {"mist"}
  FileOf <- MCFileOf
  ParamLists = {"A=1", "A="}
  Refused <- MCRefused
  Strings = {"a=(", "c=1-Zsun"}
  SwitchIn <- MCSwitchIn
  Modifiers = {"skyglow"}
  Widths = {0, 2}
  Procs = {0, 2}
  UserArgs <- Some
  Lists <- None
  MaxRays = 4
  MaxDepth = 2
INVARIANT TypeOK
INVARIANT EvaluatesAsked
INVARIANT RefsAreUsers
INVARIANT DefinitionsPresent
INVARIANT WidthIsWritten
INVARIANT FeaturesDescribeResult
INVARIANT DocumentedUseSurvives
\* The process may end.
CHECK_DEADLOCK FALSE
