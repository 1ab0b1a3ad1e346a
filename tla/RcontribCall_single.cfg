SPECIFICATION FairSpec
CONSTANTS
  MAXPROCESS = 2
  MAXIQ = 3
  Nprocs = {1, 3}
  Accumulates = {1}
  Kinds = {"ray", "zero", "tiny"}
  MayFail = FALSE
  MaxRows = 4
  MaxCalls = 2
INVARIANT TypeOK ClearedBeforeBlocking RaysAccountedFor
PROPERTY KeepsPromise
