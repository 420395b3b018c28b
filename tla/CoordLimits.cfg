CONSTANTS
  c1 = c1
  c2 = c2
  c3 = c3
  c4 = c4
  k1 = k1
  k2 = k2
  k3 = k3
  d1 = d1
  d2 = d2
  z1 = z1
  Caller = {c1, c2, c3, c4}
  Key = {k1, k2, k3}
  NumPartitions = 2
  Inputs <- InputsLimits
  Cancellable = {c4}
  Res = {"weight"}
  Size <- Sizes
  MaxBatch <- BatchOf3
  QueueMax <- QueueOf4
  MaxItems = 2
  MaxWaiters = 0
  MaxPartitions = 1
  MaxBatchSize = 2
  MaxConcurrency = 1
  MaxWait = 0
  DeadlineMargin = 0
  FlushMode = "immediate"
  Overflow = "block"
  Dedup = FALSE
  Ctl = {}
  CtlKind <- Kinds
  Impatient = {}
  ItemOutcomes = {"found"}
  BatchErrors = {}
  Tunings = {}
  MaxTime = 0
SPECIFICATION Spec
INVARIANTS
  ProviderBounded
CHECK_DEADLOCK FALSE
