CONSTANTS
  c1 = c1
  c2 = c2
  c3 = c3
  c4 = c4
  k1 = k1
  k2 = k2
  k3 = k3
  d1 = d1
  d2 = d2
  z1 = z1
  Caller = {c1, c2}
  Key = {k1}
  NumPartitions = 1
  Inputs <- InputsDup
  Cancellable = {c1}
  Res = {"weight"}
  Size <- Unit
  MaxBatch <- NoLimit
  QueueMax <- NoLimit
  MaxItems = 0
  MaxWaiters = 0
  MaxPartitions = 0
  MaxBatchSize = 2
  MaxConcurrency = 1
  MaxWait = 0
  DeadlineMargin = 0
  FlushMode = "manual"
  Overflow = "reject"
  Dedup = FALSE
  Ctl = {d1, z1}
  CtlKind <- Kinds
  Impatient = {z1}
  ItemOutcomes = {"found", "missing", "failed"}
  BatchErrors = {"panic", "contract"}
  Tunings = {}
  MaxTime = 0
SPECIFICATION Spec
INVARIANTS
  StopLeavesNothing
PROPERTIES
  BarriersHold
  KeepsPromise
CHECK_DEADLOCK FALSE
