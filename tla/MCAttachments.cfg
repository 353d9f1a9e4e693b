SPECIFICATION Spec
SYMMETRY Symmetry
CHECK_DEADLOCK FALSE
CONSTANTS
  Member = {m1, m2}
  Admin = {a1}
  SuperAdmin = SuperAdmin
  Owner = SuperAdmin
  TeamAdmin = a1
  Teammate = {m1}
  Nobody = Nobody
  Call = {c1, c2}
  Earlier = Earlier
  MaxFiles = 2
  MaxCrashes = 1
INVARIANTS
  RecordedFilesAreServed
  NothingIsLeftBehind
PROPERTY
  LockedFilesStay
