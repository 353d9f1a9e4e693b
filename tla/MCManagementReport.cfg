SPECIFICATION Spec
CONSTANTS
  c1 = c1
  c2 = c2
  unfinished = unfinished
  Report = {r1}
  NoReport = NoReport
  Content <- MCContent
  Complete <- MCComplete
  NoContent = NoContent
  Caller = {p1, p2}
  MaxAttempts = 3
  MaxVersion = 3
INVARIANTS
  ReportIsItsVersion
PROPERTIES
  VersionsAreImmutable
  ImplementsReviewCycle
