CONSTANTS
  c1 = c1
  c2 = c2
  c3 = c3
  c4 = c4
  k1 = k1
  k2 = k2
  k3 = k3
  d1 = d1
  d2 = d2
  z1 = z1
  Caller = {c1, c2, c3}
  Key = {k1, k2, k3}
  NumPartitions = 2
  Inputs <- InputsShared
  Cancellable = {c1, c2}
  Res = {"weight"}
  Size <- Unit
  MaxBatch <- NoLimit
  QueueMax <- NoLimit
  MaxItems = 1
  MaxWaiters = 0
  MaxPartitions = 0
  MaxBatchSize = 1
  MaxConcurrency = 1
  MaxWait = 0
  DeadlineMargin = 0
  FlushMode = "immediate"
  Overflow = "reject"
  Dedup = TRUE
  Ctl = {}
  CtlKind <- Kinds
  Impatient = {}
  ItemOutcomes = {"found"}
  BatchErrors = {}
  Tunings = {}
  MaxTime = 0
SPECIFICATION Spec
INVARIANTS
  PartitionsIsolated
  OneItemPerKey
  OwnAnswer
  NoCallerLost
  UsageExact
