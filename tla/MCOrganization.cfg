SPECIFICATION Spec
SYMMETRY Symmetry
CONSTANTS
  t1 = t1
  t2 = t2
  m1 = m1
  m2 = m2
  e1 = e1
  e2 = e2
  d1 = d1
  d2 = d2
  a1 = a1
  c1 = c1
  c2 = c2
  Admin = {a1, a2}
  SuperAdmin = SuperAdmin
  NoAdmin = NoAdmin
  Member = {m1, m2}
  NoMember = NoMember
  Team = {t1, t2}
  NoTeam = NoTeam
  Employee = {e1, e2}
  NoEmployee = NoEmployee
  Designation = {d1, d2}
  NoDesignation = NoDesignation
  Keep = Keep
  Request = {r1, r2}
  MaxCalls = 2
  MaxAttempts = 3
  Import = {i1, i2}
  Workbook <- Workbooks
  Reference = {c1, c2}
  NoTask = NoTask
CHECK_DEADLOCK FALSE
INVARIANTS
  MovesAreAPath
  EveryTeamHasAnActiveAdmin
  ImportedMeansPresent
PROPERTY
  ImportReplacesWhatItSaw
