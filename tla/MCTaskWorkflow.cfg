SPECIFICATION Spec
CONSTANTS
  s1 = s1
  a1 = a1
  a2 = a2
  m1 = m1
  m2 = m2
  SuperAdmin <- MCSuperAdmin
  Admin <- MCAdmin
  Member <- MCMember
  Team = {team1}
  NoTeam = NoTeam
  NoKind = NoKind
  Task = {t1}
  MaxVersion = 3
INVARIANTS
  TypeOK
  OneResponsible
  HistoryIsThePath
  ReviewLedger
  ReviewerExists
  WorkCanGoOn
  RevisionsAreOwn
  PagesAgree
PROPERTIES
  FinishedIsFinal
  WorkGoesToActiveUsers
  ImplementsReviewCycle
