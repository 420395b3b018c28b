CONSTANTS
  b1 = b1
  b2 = b2
  e1 = e1
  e2 = e2
  r1 = r1
  r2 = r2
  c1 = c1
  c2 = c2
  c3 = c3
  c4 = c4
  NumOps = 1
  Binder = {b1}
  BindOp <- Binds
  Closer = {e1, e2}
  Impatient = {e2}
  Run = {r1, r2}
  Parent <- Inner
  Nested <- Shared
  Call = {c1, c4}
  In <- Where
  Asks <- TwoKeys
  Cancellable = {}
  Broken = {c1}
  Fallback = TRUE
  MemoNegative = TRUE
  MemoMaxItems = 1
SPECIFICATION FairSpec
PROPERTIES
  CloseReturns
CHECK_DEADLOCK FALSE
