SPECIFICATION Spec
CONSTANTS
  MAXPROCESS = 2
  MAXIQ = 3
  Nprocs = {2}
  Accumulates = {2}
  Kinds = {"ray", "zero"}
  MayFail = FALSE
  MaxRows = 2
  MaxCalls = 1
INVARIANT ReturnsAnswers
