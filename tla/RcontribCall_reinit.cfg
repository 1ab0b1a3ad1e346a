SPECIFICATION Spec
CONSTANTS
  MAXPROCESS = 2
  MAXIQ = 3
  Nprocs = {2}
  Accumulates = {1, 2}
  Kinds = {"ray"}
  MayFail = FALSE
  MaxRows = 2
  MaxCalls = 2
INVARIANT ReturnsAnswers
