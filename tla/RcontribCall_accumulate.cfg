SPECIFICATION FairSpec
CONSTANTS
  MAXPROCESS = 2
  MAXIQ = 3
  Nprocs = {1, 2}
  Accumulates = {3}
  Kinds = {"ray"}
  MayFail = FALSE
  MaxRows = 3
  MaxCalls = 2
INVARIANT QueueSorted RecordMatchesAssignment AssignmentFits Numbered
PROPERTY KeepsPromise
