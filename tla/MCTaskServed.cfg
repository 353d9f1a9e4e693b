SPECIFICATION FairSpec
CONSTANTS
  Series = {r1, r2}
  Global = {r1}
  Cron = {c1}
  Request = {}
  BatchSize = 1
  ReminderLead = 1
  BroadcastLead = 0
  Horizon = 3
  MaxFailures = 1
PROPERTIES
  DueNoticesAreSettled
  DueSeriesIsServed
