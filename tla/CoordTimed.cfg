CONSTANTS
  c1 = c1
  c2 = c2
  c3 = c3
  c4 = c4
  k1 = k1
  k2 = k2
  k3 = k3
  d1 = d1
  d2 = d2
  z1 = z1
  Caller = {c1, c2, c3}
  Key = {k1}
  NumPartitions = 1
  Inputs <- InputsDeadline
  Cancellable = {c1}
  Res = {"weight"}
  Size <- Unit
  MaxBatch <- NoLimit
  QueueMax <- NoLimit
  MaxItems = 0
  MaxWaiters = 2
  MaxPartitions = 0
  MaxBatchSize = 2
  MaxConcurrency = 1
  MaxWait = 2
  DeadlineMargin = 1
  FlushMode = "deadline"
  Overflow = "fallback"
  Dedup = FALSE
  Ctl = {}
  CtlKind <- Kinds
  Impatient = {}
  ItemOutcomes = {"found"}
  BatchErrors = {}
  Tunings <- Faster
  MaxTime = 3
SPECIFICATION Spec
INVARIANTS
  TimerCoversQueue
  NoShorterDeadline
