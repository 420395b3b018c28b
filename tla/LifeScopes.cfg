CONSTANTS
  b1 = b1
  b2 = b2
  e1 = e1
  e2 = e2
  r1 = r1
  r2 = r2
  c1 = c1
  c2 = c2
  c3 = c3
  c4 = c4
  NumOps = 2
  Binder = {b1, b2}
  BindOp <- Binds
  Closer = {e1}
  Impatient = {}
  Run = {r1, r2}
  Parent <- Inner
  Nested <- Separate
  Call = {c1, c2, c3}
  In <- Together
  Asks <- TwoKeys
  Cancellable = {c3}
  Broken = {}
  Fallback = FALSE
  MemoNegative = TRUE
  MemoMaxItems = 1
SPECIFICATION Spec
INVARIANTS
  CloseLeavesNothing
  
PROPERTIES
  HitsRepeat
CHECK_DEADLOCK FALSE
