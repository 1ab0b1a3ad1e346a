SPECIFICATION FairSpec
CONSTANTS
  MAXPROCESS = 2
  MAXIQ = 3
  Nprocs = {2}
  Accumulates = {2}
  Kinds = {"ray"}
  MayFail = TRUE
  MaxRows = 3
  MaxCalls = 1
INVARIANT SendsToWaitingChild InStep
PROPERTY KeepsPromise ChildrenEnd
