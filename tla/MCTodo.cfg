SPECIFICATION Spec
CONSTANTS
  Scope <- MCScope
  Limit <- MCLimit
  User = {u1}
  Call = {c1, c2}
  Item = {i1}
  Retention = 1
  MaxDelay = 1
  BatchSize = 1
  MaxRequests = 4
  Horizon = 2
  NoKey = NoKey
  None = None
SYMMETRY Calls
INVARIANT LimitIsExact
PROPERTY CompletionIsKept
CHECK_DEADLOCK FALSE
