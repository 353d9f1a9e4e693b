SPECIFICATION Spec
SYMMETRY CronSymmetry
CONSTANTS
  Series = {r1}
  Global = {}
  Cron = {c1, c2}
  Request = {q1}
  BatchSize = 1
  ReminderLead = 1
  BroadcastLead = 0
  Horizon = 4
  MaxFailures = 0
INVARIANTS
  OneOccurrenceAhead
  NoticesMatch
PROPERTIES
  NewOccurrenceIsWanted
