SPECIFICATION Spec
CONSTANTS
  Series = {r1}
  Global = {}
  Cron = {c1}
  Request = {q1}
  BatchSize = 1
  ReminderLead = 1
  BroadcastLead = 0
  Horizon = 3
  MaxFailures = 1
INVARIANTS
  MailMatchesOccurrence
