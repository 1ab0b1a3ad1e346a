SPECIFICATION Spec
CONSTANTS
  Objects <- MCObjects
  Files = {"mist"}
  FileOf <- MCFileOf
  ParamLists = {"A=1"}
  Refused <- MCRefused
  Strings = {"a=(", "c=1-Zsun"}
  SwitchIn <- MCSwitchIn
  Modifiers = {"skyglow"}
  Widths = {2}
  Procs = {1}
  UserArgs <- None
  Lists <- WithParams
  MaxRays = 2
  MaxDepth = 2
INVARIANT ParamsInForce
\* The process may end.
CHECK_DEADLOCK FALSE
