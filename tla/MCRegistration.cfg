SPECIFICATION FairSpec
CONSTANTS
  Email = {e1}
  Request = {r1, r2}
  NoRequest = NoRequest
  NoEmail = NoEmail
  Worker = {w1, w2}
  OutlivesClaim = FALSE
  LosesAnswers = TRUE
  MaxClaims = 2
  MaxCrashes = 1
CHECK_DEADLOCK FALSE
INVARIANTS
  AcknowledgedHasAccount
  LinkMeansApproval
PROPERTIES
  DecisionIsFinal
  RetentionIsKept
  ClaimsAreResolved
