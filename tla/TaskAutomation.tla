--------------------------- MODULE TaskAutomation ---------------------------
(***************************************************************************)
(* Recurring task series and what time does to them: the cron run          *)
(* (reminders, then recurrences, then distributions), the reconciliation   *)
(* that follows a completion, and the requests that change a series or a   *)
(* distribution meanwhile.                                                 *)
(*                                                                         *)
(* A run reads `now` once, reads the ids that are due in batches, and then *)
(* handles each id in a transaction of its own, so every batch may be      *)
(* stale and two runs may overlap.  Time is counted in periods of a series *)
(* (a week or a month): the occurrence with key d is due at time d.        *)
(***************************************************************************)
EXTENDS Integers, Sequences, SequencesExt, FiniteSets

CONSTANTS
  Series,           \* the recurring series
  Global,           \* the series that may broadcast
  Cron,             \* the cron runs that may overlap
  Request,          \* the requests that may be under way at once
  BatchSize,        \* RECURRENCE_, REMINDER_ and DISTRIBUTION_BATCH_SIZE
  ReminderLead, BroadcastLead,
  Horizon,          \* bound: the last occurrence
  MaxFailures       \* bound: how often a run or a request is cut short

ASSUME GlobalAssumption == Global \subseteq Series
ASSUME WorkerAssumption == Cron \cap Request = {}
ASSUME BoundsAssumption ==
  /\ BatchSize \in Nat \ {0} /\ Horizon \in Nat \ {0} /\ MaxFailures \in Nat
  /\ ReminderLead \in Nat /\ BroadcastLead \in Nat

VARIABLES
  clock,
  ready,       \* the series whose default responsible user is ACTIVE
  series,      \* isActive, nextOccurrenceAt, broadcastAll, lastBlockedOccurrenceKey
  occurrence,  \* the tasks of each series, by occurrence key
  reminder,    \* the status of each occurrence's reminder
  broadcast,   \* the status of each occurrence's distribution ...
  sendAt,      \* ... and its scheduledAt
  told,        \* notifications and mails that left for each occurrence
  worker,      \* the cron runs and requests under way
  failures

vars == <<clock, ready, series, occurrence, reminder, broadcast, sendAt, told, worker, failures>>

Worker == Cron \cup Request
Key == 1..Horizon
MaxAttempts == 3      \* MAX_TRANSACTION_RETRIES
None == 0             \* no blocked key, no mail

Idle == [phase |-> "idle", now |-> 0, batch |-> << >>, attempt |-> 1, mail |-> None]
Busy(phase, batch) ==
  [phase |-> phase, now |-> clock, batch |-> batch, attempt |-> 1, mail |-> None]
ItemDone(w) == [worker[w] EXCEPT !.batch = Tail(@), !.attempt = 1, !.mail = None]

(* findMany with orderBy (at, id) and take: BATCH_SIZE                     *)
Oldest(items, Earlier(_, _)) ==
  LET all == SetToSortSeq(items, Earlier)
  IN  SubSeq(all, 1, IF Len(all) < BatchSize THEN Len(all) ELSE BatchSize)

(* The series just created, each with its first occurrence.                *)
Init ==
  /\ clock = 0
  /\ ready = Series
  /\ series = [s \in Series |->
       [isActive |-> TRUE, next |-> 2, broadcastAll |-> s \in Global, blockedKey |-> None]]
  /\ occurrence = [s \in Series |-> [d \in Key |-> IF d = 1 THEN "OPEN" ELSE "NONE"]]
  /\ reminder = [s \in Series |-> [d \in Key |-> IF d = 1 THEN "PENDING" ELSE "NONE"]]
  /\ broadcast = [s \in Series |->
       [d \in Key |-> IF d = 1 /\ s \in Global THEN "PENDING" ELSE "NONE"]]
  /\ sendAt = [s \in Series |-> [d \in Key |-> d - BroadcastLead]]
  /\ told = [s \in Series |-> [d \in Key |-> [reminders |-> 0, broadcasts |-> 0, mails |-> 0]]]
  /\ worker = [w \in Worker |-> Idle]
  /\ failures = 0

(* Mistakes: each is a definition below with one plausible error, put in   *)
(* its place to see the property that catches it.                          *)
MayMaterializeAfterAny(s, now) ==
  series[s].next <= now \/ \E d \in Key : occurrence[s][d] = "COMPLETED"
WantedWhenLoaded(s) == TRUE
RemindableWhenLoaded(s, d) == TRUE
WantedUnlessSent(s, d) == reminder[s][d] # "SENT"
BroadcastDueWhenLoaded(s, d, now) == TRUE
DueSeriesPausedToo(now) ==
  Oldest({s \in Series : series[s].next <= now},
         LAMBDA s, o : series[s].next < series[o].next)
RemindersOfNow(now) ==
  Oldest({x \in Series \X Key : reminder[x[1]][x[2]] = "PENDING" /\ x[2] - ReminderLead = now},
         LAMBDA x, y : x[2] < y[2])
BroadcastsOfNow(now) ==
  Oldest({x \in Series \X Key : broadcast[x[1]][x[2]] = "PENDING" /\ sendAt[x[1]][x[2]] = now},
         LAMBDA x, y : x[2] < y[2])
-----------------------------------------------------------------------------
Tick ==
  /\ clock < Horizon - 1
  /\ clock' = clock + 1
  /\ UNCHANGED <<ready, series, occurrence, reminder, broadcast, sendAt, told, worker, failures>>

(* The default responsible user is suspended or activated.                 *)
ResponsibleChangesStatus(s) ==
  /\ ready' = IF s \in ready THEN ready \ {s} ELSE ready \cup {s}
  /\ UNCHANGED <<clock, series, occurrence, reminder, broadcast, sendAt, told, worker, failures>>

-----------------------------------------------------------------------------
(* Reminders: TaskAutomationService                                        *)

DueReminders(now) ==
  Oldest({x \in Series \X Key : reminder[x[1]][x[2]] = "PENDING" /\ x[2] - ReminderLead <= now},
         LAMBDA x, y : x[2] < y[2])

(* The cron endpoint: a run takes its `now` and its first batch.           *)
StartRun(w) ==
  /\ worker[w].phase = "idle"
  /\ worker' = [worker EXCEPT ![w] = Busy("reminders", DueReminders(clock))]
  /\ UNCHANGED <<clock, ready, series, occurrence, reminder, broadcast, sendAt, told, failures>>

Remindable(s, d) == reminder[s][d] = "PENDING"
StillWanted(s, d) == Remindable(s, d) /\ occurrence[s][d] # "COMPLETED"

(* processReminder.  An attempt that conflicts leaves nothing behind.      *)
ProcessReminder(w) ==
  /\ worker[w].phase = "reminders" /\ worker[w].batch # << >>
  /\ LET s == Head(worker[w].batch)[1]
         d == Head(worker[w].batch)[2]
         sends == StillWanted(s, d)
     IN  /\ reminder' = [reminder EXCEPT ![s][d] =
              IF sends THEN "SENT" ELSE IF Remindable(s, d) THEN "CANCELLED" ELSE @]
         /\ told' = [told EXCEPT ![s][d].reminders = IF sends THEN @ + 1 ELSE @]
  /\ worker' = [worker EXCEPT ![w] = ItemDone(w)]
  /\ UNCHANGED <<clock, ready, series, occurrence, broadcast, sendAt, failures>>

-----------------------------------------------------------------------------
(* Recurrences: TaskRecurrenceService                                      *)

DueSeries(now) ==
  Oldest({s \in Series : series[s].isActive /\ series[s].next <= now},
         LAMBDA s, o : series[s].next < series[o].next)

LoadRecurrences(w) ==
  /\ worker[w].phase = "reminders" /\ worker[w].batch = << >>
  /\ worker' = [worker EXCEPT ![w].phase = "recurrences", ![w].batch = DueSeries(worker[w].now)]
  /\ UNCHANGED <<clock, ready, series, occurrence, reminder, broadcast, sendAt, told, failures>>

(* The tasks of the series, newest first, two of them are read.            *)
Existing(s) == {d \in Key : occurrence[s][d] # "NONE"}
Latest(s) == CHOOSE d \in Existing(s) : \A e \in Existing(s) : e <= d
TwoNewest(s) == {d \in Existing(s) : Cardinality({e \in Existing(s) : e > d}) < 2}

NoOpenAhead(s, now) == \A d \in TwoNewest(s) : d > now => occurrence[s][d] = "COMPLETED"

(* shouldMaterializeNextOccurrence                                         *)
MayMaterialize(s, now) ==
  /\ NoOpenAhead(s, now)
  /\ series[s].next <= now \/ occurrence[s][Latest(s)] = "COMPLETED"

Wanted(s) == series[s].isActive

Generates(s, now) ==
  /\ Wanted(s) /\ MayMaterialize(s, now)
  /\ series[s].next \in Key /\ occurrence[s][series[s].next] = "NONE"
  /\ s \in ready

Blocks(s, now) ==
  /\ Wanted(s) /\ MayMaterialize(s, now)
  /\ series[s].next \in Key /\ occurrence[s][series[s].next] = "NONE"
  /\ s \notin ready

Reconciling(w) == worker[w].phase \in {"recurrences", "follow-up"} /\ worker[w].batch # << >>

MailSent(s, mail) ==
  IF mail = None THEN told ELSE [told EXCEPT ![s][mail].mails = @ + 1]

Generated(s, d) ==
  /\ occurrence' = [occurrence EXCEPT ![s][d] = "OPEN"]
  /\ reminder' = [reminder EXCEPT ![s][d] = "PENDING"]
  /\ broadcast' = [broadcast EXCEPT ![s][d] = IF series[s].broadcastAll THEN "PENDING" ELSE "NONE"]
  /\ series' = [series EXCEPT ![s].next = @ + 1, ![s].blockedKey = None]

(* reconcileRecurrence, the attempt that commits, with the mail after it.  *)
(* `mail` is assigned by an attempt and read after the last one: nothing   *)
(* resets it in between.                                                   *)
Reconcile(w) ==
  /\ Reconciling(w)
  /\ LET s == Head(worker[w].batch)
         now == worker[w].now
         d == series[s].next
     IN  \/ /\ Generates(s, now)
            /\ Generated(s, d)
            /\ told' = MailSent(s, d)
         \/ /\ Blocks(s, now)
            /\ series' = [series EXCEPT ![s].blockedKey = d]
            /\ told' = MailSent(s, worker[w].mail)
            /\ UNCHANGED <<occurrence, reminder, broadcast>>
         \/ /\ ~Generates(s, now) /\ ~Blocks(s, now)
            /\ told' = MailSent(s, worker[w].mail)
            /\ UNCHANGED <<series, occurrence, reminder, broadcast>>
  /\ worker' = [worker EXCEPT ![w] =
       IF worker[w].phase = "follow-up" THEN Idle ELSE ItemDone(w)]
  /\ UNCHANGED <<clock, ready, sendAt, failures>>

(* An attempt that conflicts and is tried again.  A conflict found at the  *)
(* commit comes after the attempt has assigned `mail`.                     *)
RetryReconcile(w) ==
  /\ Reconciling(w)
  /\ worker[w].attempt < MaxAttempts
  /\ failures < MaxFailures
  /\ failures' = failures + 1
  /\ LET s == Head(worker[w].batch) IN
     \E mail \in {worker[w].mail} \cup
                 (IF Generates(s, worker[w].now) THEN {series[s].next} ELSE {}) :
       worker' = [worker EXCEPT ![w].attempt = @ + 1, ![w].mail = mail]
  /\ UNCHANGED <<clock, ready, series, occurrence, reminder, broadcast, sendAt, told>>

-----------------------------------------------------------------------------
(* Distributions: TaskDistributionService                                  *)

DueBroadcasts(now) ==
  Oldest({x \in Series \X Key : broadcast[x[1]][x[2]] = "PENDING" /\ sendAt[x[1]][x[2]] <= now},
         LAMBDA x, y : sendAt[x[1]][x[2]] < sendAt[y[1]][y[2]])

LoadDistributions(w) ==
  /\ worker[w].phase = "recurrences" /\ worker[w].batch = << >>
  /\ worker' = [worker EXCEPT ![w].phase = "distributions",
                              ![w].batch = DueBroadcasts(worker[w].now)]
  /\ UNCHANGED <<clock, ready, series, occurrence, reminder, broadcast, sendAt, told, failures>>

BroadcastDue(s, d, now) == broadcast[s][d] = "PENDING" /\ sendAt[s][d] <= now

(* processDistribution, of a run or of a request that made one due.        *)
ProcessDistribution(w) ==
  /\ worker[w].phase \in {"distributions", "publish"} /\ worker[w].batch # << >>
  /\ LET s == Head(worker[w].batch)[1]
         d == Head(worker[w].batch)[2]
         sends == BroadcastDue(s, d, worker[w].now)
     IN  /\ broadcast' = [broadcast EXCEPT ![s][d] = IF sends THEN "SENT" ELSE @]
         /\ told' = [told EXCEPT ![s][d].broadcasts = IF sends THEN @ + 1 ELSE @]
  /\ worker' = [worker EXCEPT ![w] =
       IF worker[w].phase = "publish" THEN Idle ELSE ItemDone(w)]
  /\ UNCHANGED <<clock, ready, series, occurrence, reminder, sendAt, failures>>

FinishRun(w) ==
  /\ worker[w].phase = "distributions" /\ worker[w].batch = << >>
  /\ worker' = [worker EXCEPT ![w] = Idle]
  /\ UNCHANGED <<clock, ready, series, occurrence, reminder, broadcast, sendAt, told, failures>>

(* Any exception (a conflict on the last attempt, a lost connection) ends  *)
(* the whole run, whatever is left of its batches; so does a restart.      *)
GiveUp(w) ==
  /\ worker[w].phase # "idle"
  /\ failures < MaxFailures
  /\ failures' = failures + 1
  /\ worker' = [worker EXCEPT ![w] = Idle]
  /\ UNCHANGED <<clock, ready, series, occurrence, reminder, broadcast, sendAt, told>>

-----------------------------------------------------------------------------
(* Requests                                                                *)

AfterCompletion(status) == IF status = "PENDING" THEN "CANCELLED" ELSE status

(* completeTask: the completion commits, then the same request reconciles  *)
(* the series.                                                             *)
CompleteOccurrence(w, s, d) ==
  /\ worker[w].phase = "idle"
  /\ occurrence[s][d] = "OPEN"
  /\ occurrence' = [occurrence EXCEPT ![s][d] = "COMPLETED"]
  /\ reminder' = [reminder EXCEPT ![s][d] = AfterCompletion(@)]
  /\ worker' = [worker EXCEPT ![w] = Busy("follow-up", <<s>>)]
  /\ UNCHANGED <<clock, ready, series, broadcast, sendAt, told, failures>>

(* getNextFutureOccurrence: occurrences from `from` on until one is ahead  *)
FirstAfter(from, now) == IF from <= now THEN now + 1 ELSE from

Patch == [isActive : {"KEEP", "ON", "OFF"}, responsible : BOOLEAN, lead : {"KEEP", "ON", "OFF"}]

(* updateRecurrence.  A new responsible user is an ACTIVE one.             *)
UpdateRecurrence(s, patch) ==
  LET resuming == ~series[s].isActive /\ patch.isActive = "ON"
      clears == patch.responsible \/ resuming \/ patch.lead # "KEEP"
  IN
  /\ patch.lead = "ON" => s \in Global
  /\ series' = [series EXCEPT ![s] =
       [isActive     |-> IF patch.isActive = "KEEP" THEN @.isActive ELSE patch.isActive = "ON",
        next         |-> IF resuming THEN FirstAfter(@.next, clock) ELSE @.next,
        broadcastAll |-> IF patch.lead = "KEEP" THEN @.broadcastAll ELSE patch.lead = "ON",
        blockedKey   |-> IF clears THEN None ELSE @.blockedKey]]
  /\ ready' = IF patch.responsible THEN ready \cup {s} ELSE ready
  /\ UNCHANGED <<clock, occurrence, reminder, broadcast, sendAt, told, worker, failures>>

(* reschedule: to a time that has come, and the request publishes at once. *)
Reschedule(w, s, d, at) ==
  /\ worker[w].phase = "idle"
  /\ broadcast[s][d] = "PENDING"
  /\ sendAt' = [sendAt EXCEPT ![s][d] = at]
  /\ worker' = IF at <= clock
               THEN [worker EXCEPT ![w] = Busy("publish", <<<<s, d>>>>)]
               ELSE worker
  /\ UNCHANGED <<clock, ready, series, occurrence, reminder, broadcast, told, failures>>

CancelDistribution(s, d) ==
  /\ broadcast[s][d] = "PENDING"
  /\ broadcast' = [broadcast EXCEPT ![s][d] = "CANCELLED"]
  /\ UNCHANGED <<clock, ready, series, occurrence, reminder, sendAt, told, worker, failures>>

-----------------------------------------------------------------------------
WorkerStep(w) ==
  \/ ProcessReminder(w)
  \/ LoadRecurrences(w) \/ Reconcile(w)
  \/ LoadDistributions(w) \/ ProcessDistribution(w) \/ FinishRun(w)

Next ==
  \/ Tick
  \/ \E w \in Cron : StartRun(w)
  \/ \E w \in Worker : WorkerStep(w) \/ RetryReconcile(w) \/ GiveUp(w)
  \/ \E s \in Series : ResponsibleChangesStatus(s)
  \/ \E w \in Request, s \in Series, d \in Key : CompleteOccurrence(w, s, d)
  \/ \E s \in Series, patch \in Patch : UpdateRecurrence(s, patch)
  \/ \E w \in Request, s \in Series, d \in Key, at \in {clock, clock + 1} : Reschedule(w, s, d, at)
  \/ \E s \in Series, d \in Key : CancelDistribution(s, d)

Spec == Init /\ [][Next]_vars

(* The cron keeps calling, and what is called gets on; people and accounts *)
(* owe nothing, and failures end (MaxFailures).                            *)
FairSpec ==
  /\ Spec
  /\ \A w \in Cron : WF_vars(StartRun(w))
  /\ \A w \in Worker : WF_vars(WorkerStep(w))

-----------------------------------------------------------------------------
(* Properties *)

Status == {"NONE", "PENDING", "SENT", "CANCELLED"}
Recurrence == [isActive : BOOLEAN, next : 2..(Horizon + 1),
               broadcastAll : BOOLEAN, blockedKey : Key \cup {None}]
Phase == {"idle", "reminders", "recurrences", "distributions", "follow-up", "publish"}

TypeOK ==
  /\ clock \in 0..Horizon
  /\ ready \subseteq Series
  /\ \A s \in Series :
       /\ series[s] \in Recurrence
       /\ occurrence[s] \in [Key -> {"NONE", "OPEN", "COMPLETED"}]
       /\ reminder[s] \in [Key -> Status]
       /\ broadcast[s] \in [Key -> Status]
  /\ \A w \in Worker :
       /\ worker[w].phase \in Phase
       /\ worker[w].now <= clock
       /\ worker[w].attempt \in 1..MaxAttempts
       /\ Len(worker[w].batch) <= BatchSize

(* However early its occurrences are completed, however it is paused and   *)
(* resumed, and however stale a run's `now` is: the next occurrence of a   *)
(* series is later than every one it has, so the unique (recurrence, key)  *)
(* never leaves it reconciling to nothing for ever; and a series never has *)
(* two open occurrences in the future.                                     *)
OneOccurrenceAhead ==
  \A s \in Series :
    /\ \A d \in Existing(s) : d < series[s].next
    /\ Cardinality({d \in Existing(s) : d > clock /\ occurrence[s][d] = "OPEN"}) <= 1

(* What left the system agrees with what the rows say was sent: overlapping *)
(* runs, retries and stale batches never send a reminder or a broadcast    *)
(* twice, nor a broadcast that was cancelled or put off; and a completed   *)
(* occurrence has no reminder left to send.                                *)
NoticesMatch ==
  \A s \in Series, d \in Key :
    /\ occurrence[s][d] = "COMPLETED" => reminder[s][d] # "PENDING"
    /\ told[s][d].reminders = (IF reminder[s][d] = "SENT" THEN 1 ELSE 0)
    /\ told[s][d].broadcasts = (IF broadcast[s][d] = "SENT" THEN 1 ELSE 0)
    /\ broadcast[s][d] = "SENT" => sendAt[s][d] <= clock

(* Completing an occurrence calls its reminder off, and a distribution can *)
(* be called off until it is sent.  From then on nothing leaves any more,  *)
(* whatever batch a run or a request holds from before.                    *)
NoNoticeAfterwards ==
  [][\A s \in Series, d \in Key :
       /\ occurrence[s][d] = "COMPLETED" => told'[s][d].reminders = told[s][d].reminders
       /\ broadcast[s][d] = "CANCELLED" => told'[s][d].broadcasts = told[s][d].broadcasts]_vars

(* A new occurrence appears only for a series that is active and whose     *)
(* responsible user is active at that moment, and ahead of its time only   *)
(* when the one before it is completed.                                    *)
NewOccurrenceIsWanted ==
  [][\A s \in Series, d \in Key :
       occurrence[s][d] = "NONE" /\ occurrence'[s][d] # "NONE" =>
         /\ series[s].isActive /\ s \in ready
         /\ d <= clock \/ occurrence[s][Latest(s)] = "COMPLETED"]_vars

(* PRD, Task notifications: mail goes out after the database transaction   *)
(* commits, so an occurrence that does not exist has no mail and one that  *)
(* exists has one.                                                         *)
MailMatchesOccurrence ==
  \A s \in Series, d \in Key :
    told[s][d].mails <= (IF occurrence[s][d] = "NONE" THEN 0 ELSE 1)

CrowdedOut(s) ==
  Cardinality({o \in Series \ {s} : series[o].isActive /\ o \notin ready
                                    /\ series[o].next <= series[s].next}) >= BatchSize

(* A due series with an active responsible user does not stay due for      *)
(* ever, unless blocked series fill the whole batch ahead of it.           *)
DueSeriesIsServed ==
  \A s \in Series :
    ~<>[](/\ series[s].isActive /\ s \in ready /\ ~CrowdedOut(s)
          /\ series[s].next <= clock)

(* A reminder that is due is settled, sent or cancelled by a completion;   *)
(* and a broadcast that stays due is sent.                                 *)
DueNoticesAreSettled ==
  \A s \in Series, d \in Key :
    /\ (reminder[s][d] = "PENDING" /\ d - ReminderLead <= clock) ~> (reminder[s][d] # "PENDING")
    /\ ~<>[](broadcast[s][d] = "PENDING" /\ sendAt[s][d] <= clock)
=============================================================================
