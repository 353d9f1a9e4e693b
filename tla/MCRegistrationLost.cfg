SPECIFICATION Spec
SYMMETRY Symmetry
CONSTANTS
  Email = {e1}
  Request = {r1}
  NoRequest = NoRequest
  NoEmail = NoEmail
  Worker = {w1, w2}
  OutlivesClaim = FALSE
  LosesAnswers = TRUE
  MaxClaims = 1
  MaxCrashes = 0
CHECK_DEADLOCK FALSE
INVARIANTS
  ApprovedHasAccount
