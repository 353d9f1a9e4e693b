# Operix backend: TLA+ verification project

Operix is a NestJS backend over PostgreSQL (Prisma) in which a super admin, admins
and members of teams run tasks, reports, an inventory, imports and self
registration. The server keeps no state of its own: everything is in the database
and in a store for files, several processes and cron calls act on them at once, and
what can go wrong is in the order of their transactions. The modules here model
those transactions.

## 1. Inventory of the system

| Component | State it keeps | Operations | Hard behaviour | What makes it correct |
|---|---|---|---|---|
| task: workflow | task, open assignment, status history | create, import, assign, self-claim flag, claim, start, complete | claim against assign against suspension; a viewer read before the transaction | one person responsible from ASSIGNED on; history is the path taken; finished is final |
| submission and review | numbered submissions, one review each | submit, resubmit, review | rounds of revision; two reviewers; a team that changes admin in between | a decision per version, one author, always somebody who may review |
| task: recurrence, reminders, distributions | recurrence with its next occurrence, occurrences, reminders, broadcasts | cron run, early completion, pause, resume, reschedule, cancel | overlapping runs, stale batches, retries, a run that dies half way | no occurrence or notice too many; everything due is settled in the end |
| task: attachments, file | attachment rows; contents in an external store | upload, delete, download | contents outside every transaction, a store that fails, a commit that is not acknowledged, crashes | what is recorded can be had, nothing is left over, no edit after the lock |
| registration | request, its claim; the account | submit, approve, reject, recover, clean up | a saga with crashes between steps, steps carried out without an answer, stale claims, late compensation | an acknowledged approval has its account; decisions are final; claims are resolved |
| user management, auth | user, role, status, password setup | create, update, change status, configure password | provisioning through the auth library outside a transaction; updates that read before they write | an account linked to a request belongs to an approval |
| team | team, its admin, memberships, activity of the moves | create, reassign admin, assign and transfer members | serializable transactions beside plain ones | one team per member and a true record of the way there, an active admin per team |
| import | none between calls | preview and execute, of members' designations and of historical tasks | execution finds another database than the preview; imports that want the same rows | all rows or none, and only over what was seen |
| inventory | item, loan, ledger | create, update, stock in and out, adjust, assign, return | read-compute-write under conflict and retry | the ledger is the stock; loans add up |
| management reports | report, version snapshots, reviews | create, update, submit, review | as submissions | as submissions, plus immutable snapshots |
| todo | private items with a completion time | create, edit, complete, reopen, delete, clear | an item is read in one statement and written in another | a completion keeps its time |
| rate limit | fixed-window counters | consume, clean up | concurrent increments, the turn of a window, the cleanup of old rows | the limit is exact in every window |
| dashboard, performance | none | counts of tasks, workloads, credit for tasks and revisions | several queries that must agree with each other and with what people may do | the pages agree; credit does not part |
| notification, activity, mail | rows written by the others' transactions; mail after commit | create, mark read | mail outside the transaction | one notice per event |
| export, document, health, configuration, inventory categories, shared helpers | none, or a catalogue | reads, formatting, single statements | | |

How they interact: controllers pass the guards of `shared/auth` (the viewer is
read once, there), then call a service, which runs its whole handler in one
transaction, nearly always `runSerializableTransaction` (SERIALIZABLE, up to
three attempts). Services share rows, not calls: the task workflow reads users
and teams that user management and team change; an approval writes users that
auth later activates; an import writes members and tasks; the dashboard counts the
tasks; completing an occurrence calls the recurrence service after its commit;
notifications and activity are written inside the callers' transactions, mail is
sent after them, and files are stored before them.

## 2. Modules

| Module | Models | Shape |
|---|---|---|
| `ReviewCycle` | the promise of any submit-and-review workflow | abstract specification: phase, versions, decisions |
| `TaskWorkflow` | `modules/task/task.service.ts`, `modules/submission`, the status changes of `user-management`, `reassignTeamAdmin` | one atomic action per handler |
| `Measures` | `dashboard`, `performance` | EXTENDS `TaskWorkflow`: operators on its state |
| `TaskAutomation` | `task-automation`, `task-recurrence`, `task-distribution`, the completion of an occurrence | one action per transaction of a run or request |
| `Attachments` | `task-attachment.service.ts`, the files of submissions, `file`, `file-storage` | one action per call to the store and per transaction |
| `Registration` | `registration.service.ts`, `account-provisioning.service.ts`, password setup and status changes | one action per commit of the approval saga |
| `Organization` | `team.service.ts`, `updateMember`, `updateMemberStatus`, `updateAdminStatus` | read and write are separate actions |
| `Import` | `modules/import` with both profiles | EXTENDS `Organization`: imports beside its requests |
| `Inventory` | `inventory-item`, `-stock`, `-assignment` services and the serializable retry | read and commit are separate actions |
| `ManagementReport` | `management-report.service.ts` and the serializable retry | read and commit are separate actions |
| `RateLimit` | `shared/rate-limit` | asking, counting and cleanup are separate actions |
| `Todo` | `todo.service.ts` behind the limit | EXTENDS `RateLimit`: guard, then handler |
| `TaskAutomation_proofs`, `Attachments_proofs`, `Registration_proofs`, `Inventory_proofs`, `ManagementReport_proofs` | | theorems about the module in the name |
| `TaskWorkflow_proofs` | | theorems about `TaskWorkflow` and `Measures` |
| `Organization_proofs` | | theorems about `Import` and the `Organization` it extends |
| `Todo_proofs` | | theorems about `Todo` and the `RateLimit` it extends |
| `MC...` | | the instances for TLC: users by role, workbooks, symmetry |

Conventions. A definition carries the name of the function or column it stands
for where it can; `PROJECT.json` gives the lines of each ("map"). Each module has
a short section *Mistakes*: operators that differ from a definition of the model by
one plausible programming error. Nothing uses them; put in the place of that
definition, each makes TLC report the property named with it ("mutants"), which is
how one knows that the property depends on that piece of code. Every module has a
type invariant. Where it says more than the types (`TaskWorkflow`: who can be
where; `Inventory`: no stock below zero or beyond its column) it is checked and
proved. In `ManagementReport`, `Registration`, `Attachments`, `Organization` and
`Import` it is proved and not checked again; in `RateLimit` and `Todo` it is part of
what is proved; in `TaskAutomation` it documents the state.

### TaskWorkflow and Measures
The task row is `status`, `kind` (what never changes), `selfClaim`; the open
assignments are the set `responsible`, a set so that two could be there;
`history` and `submissions` are the rows written. A handler is one action because
its transaction is serializable, which means some serial order exists; the one
that is not (`updateMemberStatus`) touches one user row and has a serial
place too. What is *not* covered by that is the viewer: the guards read it before
the transaction, so `requests` holds users who passed the guards and may have been
suspended since. Creation by import is included because it writes assignments and
history in a form of its own.

`Measures` is the arithmetic of the pages, on that state: which tasks each page
counts for whom, by status, in review, with a revision. Nothing in it changes
state. A page runs its queries outside a transaction, so one page may mix two
states; the properties compare the queries on one state. Due dates, durations and
percentages are left out with the time the workflow does not keep.

### TaskAutomation
Time is counted in periods. A cron run reads its `now` once, then batches, then
handles each id in its own transaction; `worker` is the program counter, the
batch and the retry of every run and request. `RetryReconcile` is a conflict that
is retried (the variable the code declares outside the callback keeps its value),
`GiveUp` an exception or restart that ends a run. Two paths are subsumed: the
unique-conflict branch of the generation (an occurrence that exists is a `noop`
already) and the missing team (the foreign key restricts its deletion).

### Attachments
Contents are stored first, one file after the other, and recorded afterwards in a
transaction that checks again what was checked before the upload. `stored` and
`recorded` are the two places; `call` is what each upload, submission, deletion or
download still has to do. The store may fail, with or without having kept the file;
the transaction may fail; it may commit without the caller learning of it
(`unsure`), in which case the code treats it as failed and destroys contents that
are recorded; the process may stop anywhere. `abandoned` are the contents no code
can know of any more. The life of the task that locks its files is `TaskMoves`, a
coarse form of what `TaskWorkflow` and `TaskAutomation` let it do.

### Registration
An account is numbered as the claim it was provisioned under. `worker` is where
each approval stands between two commits; `Crash` ends one anywhere. Time is
abstract: a claim becomes `stale`, a decided request grows older in two steps (a
day, ninety days), and configuring the password starts an approved one anew, as the
code writes the time again.

A step may fail in three ways. The code refuses it; the database fails before
carrying it out; or the database carries it out and its answer is lost.
`LosesAnswers` allows the last two, at the sign-up, the link, the finalizing commit
and the deletion of an account. Two catches react. That of `provisionAccount`
(`UndoAccount`) deletes the account and, whether or not it could, lets the claim be
withdrawn. That of `approve` (`CompensateAccount`) deletes the account and stops at
an error. Neither looks at the request first. An account that has a team membership, or one
in use, cannot be deleted. The unacknowledged link and commit have a history
variable each, for what they excuse: `unacknowledged` holds the requests whose
approval was committed and compensated, `abandoned` the accounts that
`UndoAccount` could not delete. For the other commits of an approval, a lost answer
is a `Crash` after them.

`OutlivesClaim` says whether an approval may still run when its claim is stale: FALSE
in the runs (an HTTP request lives much shorter than five minutes), TRUE in
the variant of registration_lost described under Findings. The library's sign-up may fail as an
error or as an account not created.

### Organization and Import
Three ways of running meet here. Creating and handing over a team, changing the
status of an admin and placing a member are serializable: a request keeps the
`rows` it went by and is `fresh` until another serializable commit writes one of
them, when it fails and runs again. A transfer runs under PostgreSQL's default
isolation, noticed by nobody, and is kept right by the row it deletes and the
unique index on the member, hence the row numbers in `membership`. An update of a
member reads before it writes and is held by nothing but the unique index on the
employee id. A membership is counted by row because a second transfer that finds
*a* membership of the member is not the same as one that finds *the row it read*.
A viewer's scope is what the guard found before the handler began.

An import judges every row of its sheet against the database (the operators of
`Import` are the rules of the two profiles: recognition of the workbook, identity of
a member by employee id and e-mail, the verdict on a row), refuses if one is
invalid or in conflict, and then carries out the rows in one serializable
transaction that reads again. Workbooks are given with their rows already split
into columns.

### Inventory
`call` is a request with what its transaction has read. `Conflicts` is
PostgreSQL's serializable isolation as the code relies on it: a commit on a row
that another transaction has read since makes that transaction fail and the
helper run the callback again on the *same request object*, which is what
`Resolved` is about. Every operation writes the item's row, so any two that
overlap on an item conflict; loans are only written together with their item.
`MaxQuantity` is the integer column; a movement beyond it is an error
(`Overflow`).

### ManagementReport
Built like `Inventory`: `call` is a request with what its transaction has read, and
each commit writes the report's row, so two that overlap on a report conflict. A
submission also fails on the unique index of (report, version), which is not
retried: the second disjunct of `Retry`. `content` stands for the title, the
period and the nine texts together; an update that changes nothing writes
nothing. A review moves the report to UNDER_REVIEW and on within one
transaction, so that state is never seen and is not a step. Creation touches
nothing that exists and is atomic.

### RateLimit and Todo
A request reads the clock and only then adds one to the row of its window, so it
may count in a window that has passed; the cleanup reads expired rows and deletes
them later. Time is counted in windows. `MaxDelay` is how many windows a request may
take between the two; it is assumed not to exceed `Retention`, for a request that
outlived its row would be counted from one again (the code keeps rows for a day).
`handled` is history: how many requests were let through.

In `Todo` the limited routes (create, delete, clear) pass the limit first and are
single statements. The others read the item, decide, and write in a second
statement: `handling` keeps what a call has seen. `Remembered` keeps the model from
giving a freed id to a new item while a call remembers it, which the database's
random ids never do.

## 3. Runs

| Run | Instance | Shows |
|---|---|---|
| task_workflow | 1 super admin, 2 admins, 2 members, 1 team, 1 task of any kind, 3 versions | all task properties, that the pages agree on the task, and that tasks implement `ReviewCycle` |
| task_automation | 1 series, 2 overlapping runs, 1 request, 4 periods | occurrences and notices, safety |
| task_broadcast | 1 broadcasting series, 2 runs, 1 request, 2 periods | no broadcast leaves twice, nor after it was called off; no reminder after completion |
| task_served | 2 series, one of them broadcasting, batch of 1, 1 run, 3 periods, 1 failure, fairness | a due series is served unless crowded out; what is due is settled |
| task_mail | 1 series, 1 run, 1 failure | finding: a mail for an attempt that was rolled back |
| registration | 2 requests of 1 applicant, 2 approvers, 2 claims, 1 crash, lost answers, fairness | the saga, and that claims are resolved |
| registration_lost | 1 request, 1 claim, lost answers | finding: approved without account |
| inventory | 1 item, 2 loans, 2 callers, 3 attempts, quantities to 2, 3 movements | ledger, conservation, loans |
| management_report | 1 report, 3 contents (1 incomplete), 2 callers, 3 attempts, 3 versions | snapshots, immutability, and that reports implement `ReviewCycle` |
| organization | 2 admins, members, teams, employee ids and designations; 2 requests or imports in all, 7 workbooks, 3 attempts | moves, team admins, imports |
| files | 2 calls, 2 files, 1 crash, 1 admin, 2 members, a store that fails at will | recorded files are served, nothing is left behind, locked files stay |
| todo | 1 user, 2 calls, 1 item, 4 requests, limits of 1 and 2, 3 windows | the limit and the completion time |

The properties, by what they are about (the comment on each states it in full):

* tasks: `OneResponsible`, `HistoryIsThePath`, `ReviewLedger`, `ReviewerExists`,
  `WorkCanGoOn` (no reviewed work with somebody who may not submit it, no
  unassigned task that nobody may take), `FinishedIsFinal`, `WorkGoesToActiveUsers`, `ImplementsReviewCycle`;
* pages: `RevisionsAreOwn` (credit for tasks follows the assignment, credit for
  revisions the author, and they do not part), `PagesAgree`;
* series: `OneOccurrenceAhead`, `NoticesMatch` (rows and notices agree),
  `NoNoticeAfterwards` (none leaves after the occurrence was completed or the broadcast
  called off), `NewOccurrenceIsWanted`, `DueSeriesIsServed`, `DueNoticesAreSettled`;
* registration: `AcknowledgedHasAccount` (and `ApprovedHasAccount`, which the code
  does not keep, in the run of the finding), `LinkMeansApproval`, `DecisionIsFinal`,
  `RetentionIsKept`, `ClaimsAreResolved`;
* organization: `MovesAreAPath`, `EveryTeamHasAnActiveAdmin`,
  `ImportReplacesWhatItSaw`, `ImportedMeansPresent`;
* files: `RecordedFilesAreServed`, `NothingIsLeftBehind`, `LockedFilesStay`;
* inventory: `LedgerIsTheStock`, `StockIsConserved`, `LoansAddUp`,
  `OutstandingIsReturnable`;
* reports: `ReportIsItsVersion`, `VersionsAreImmutable`, `ImplementsReviewCycle`;
* limit and todo: `LimitIsExact`, `CompletionIsKept`.

Why these bounds are enough for the questions asked. Tasks, items, reports and
series do not share state with others of their kind (except the batch, hence two
series in task_served), so one of them with several actors covers every interleaving
on it. Two admins and two members allow every hand-over; three versions contain a
second resubmission; two occurrences generated ahead need four periods. The failures
of a run are in task_served and task_mail, which have room for them. Two claims
allow one to go stale and be given up or recovered while the second is under way, or the
other request to be approved (the theorems are for any number); two callers and three attempts contain every
overlap of a pair and the exhaustion of the retries (a third caller only adds
conflicts). Quantities up to 2 contain partial returns, an exact fit and the
overflow. In organization every pair of requests and imports overlaps from every
initial placement; the workbooks want the same member or the same task differently
and contain each mistake once, among them one with two sheets. The two files of one
call allow a failure after the first; the two calls, an upload beside a deletion or a
hand-in. Items and limits belong to one user each, so one user suffices in todo; four
requests exceed the largest limit within a window and reach over two of them, and
three windows bring a row to its expiry.

Deadlock is not checked where a behaviour may stop: when every request of
`Registration` is decided and purged, and when the bounded calls of
`Organization`, `Attachments` and `Todo` have been made.

Fairness. `TaskAutomation!FairSpec`: the scheduler calls the cron endpoint every
day (`vercel.json`) and a run that has started gets on; people owe nothing and
failures end (`MaxFailures`). A series that stays due behind blocked ones is
excluded by `CrowdedOut`, because the code really starves it: batches are read
oldest first and a blocked series keeps its place. `Registration!FairSpec`: a
running approval gets on unless it crashes (a step that fails is a way to get on),
time passes, and a super admin tries
again to approve a request with a stale claim, which is what the response asks for;
nobody is forced to approve anything else.

## 4. Findings

Two runs end in a violation of what the repository says of itself; the details
and lines are in `PROJECT.json`.
* task_mail: `let mail` survives a rolled-back attempt of `reconcileRecurrence`.
* registration_lost: the compensation of `approve` takes a commit that went through
  without being acknowledged for one that failed: it deletes the account of the
  request it has just approved, unless the account is already in a team. The approved
  request then blocks its email and is never cleaned up.

Met while modelling, modelled as they are, without a run of their own:
* The same compensation does not ask whether it still owns its claim. An approval that
  ran longer than the five minutes of a claim would delete the account that another
  one has recovered and approved; registration_lost with `OutlivesClaim` TRUE,
  `LosesAnswers` FALSE and two claims is the instance that shows it.
* `updateMemberStatus` and `updateAdminStatus` activate an account whose password
  was never configured (`ChangeStatus` in `Registration`); the PRD ties activation to
  the setup.
* `stockOut` overwrites `dto.memberId` inside the retried callback, so a conflict
  turns into "member not found" (`Resolved` in `Inventory`).
* The admin who made a task may still change its files when the team has gone to
  another admin, and cannot list them any more (`MayMutate`, `CanRead` in
  `Attachments`).
* `provisionAccount` withdraws the claim also when the account it linked could not be
  deleted, so that a linked account may belong to a pending request:
  `LinkMeansApproval` has to except it (`abandoned`). The next approval finds the
  email taken and rejects the request, whose account can still be set up.
* A commit that is not acknowledged leaves rows whose contents the call destroys:
  `RecordedFilesAreServed` has to except them.
* The row of the registration throttle expires with its own hour, without the
  retention that `LimitIsExact` needs of the general limit.

## 5. Theorems

TLAPS proves, for any users, teams, tasks, series, requests, items, loans, calls and
workbooks and for any value of the bounds (the assumptions are the named ASSUMEs of
the modules: roles are disjoint, the "nothing" values are not members, bounds are
naturals, tasks, members, teams and loans are finitely many, the rows of a workbook have the
columns of their sheet, a request does not outlive its row in the rate limit):

* `TaskWorkflow_proofs`, on the tasks: `TypeOK`, `OneResponsible`, `SingleAuthor`,
  `ReviewerExists`, `HistoryIsThePath`, `ReviewLedger`, `WorkCanGoOn` as invariants;
  `FinishedIsFinal` and `WorkGoesToActiveUsers` as action properties; and
  `Spec => ImplementsReviewCycle`. `OneResponsible` is inductive with the types.
  `SingleAuthor` needs it, and that nothing is handed in while a task can still be
  reassigned. `ReviewerExists` is proved from a stronger fact: every team's admin is
  active always, and whatever is handed in belongs to a team. The others are argued
  task by task: `StepOfTask` says that a step is a handler on the task or leaves it
  alone. `HistoryIsThePath` and `ReviewLedger` (`TaskBooks`) are then inductive with the
  types; a review of an old version would break the ledger, and is refused because
  the latest one is looked up. `WorkCanGoOn` needs who may start, claim and be
  assigned what. For the refinement, the ledger makes the mapping's `DecisionsOf` the
  reviews of the versions: a submission leaves them alone and a review adds one.
* `TaskWorkflow_proofs`, on the pages: `RevisionsAreOwn` and `PagesAgree` of
  `Measures`. A revision has one author, `SingleAuthor` makes that the person
  responsible, and of finite sets the smaller one counts less. `PagesAgree` is about
  sums over rows: `CountByParts` says that the sum of the sizes of disjoint parts is
  the size of the whole, and four lemmas name the parts. An open task is with one
  member, with an admin, or PENDING (`OneResponsible`); it is in one team or in none;
  a revision was asked of a member, on a team's task (`Work`, `SingleAuthor` and the
  ledger); and what awaits review by its status may be reviewed by its versions (the
  ledger again).
* `TaskAutomation_proofs`: `OneOccurrenceAhead`, `NoticesMatch`, `NoNoticeAfterwards`
  and `NewOccurrenceIsWanted`. Nothing is assumed of what a batch holds: each transaction
  looks again, so the invariant says nothing of the workers but that their `now` is
  past. `OneOccurrenceAhead` needs `LastIsAhead`: an open occurrence in the future is
  the last one there is, because the generation looks at the newest two and the next
  one lies beyond both. `NoticesMatch` needs, per occurrence, that a row not SENT has
  sent nothing (`Agrees`). `NoNoticeAfterwards` follows from the guards of the present
  transaction and that a completed occurrence has no pending reminder.
* `Attachments_proofs`: `TypeOK`, `RecordedFilesAreServed`, `NothingIsLeftBehind` and
  `LockedFilesStay`. The invariant says how far a call is from its files
  (`ProgressOf`: a call that uploads has stored its first k, never more than it
  has), that what is recorded is stored or unacknowledged and that its call is past
  recording (`RowsHaveContents`), and that a call which destroys or misses files
  meets no row of theirs (`FilesOf`). `LockedFilesStay` counts: the check in the
  transaction is on the number of rows there are then.
* `Registration_proofs`: `TypeOK` and `DecisionIsFinal` with no hypothesis;
  `AcknowledgedHasAccount`, `LinkMeansApproval` and `RetentionIsKept` under
  `~OutlivesClaim`, with or without `LosesAnswers`. Decisions are final because every
  late write asks for the claim it was started under, and a decided request has none.
  The other three rest on `Core`: an approval owns its claim, that claim is not stale
  and nobody else works under it (`Exclusive`); there is one account per request,
  provisioned under its present claim (`OneAccount`); and on what each worker has still
  to do (`SagaOf`, `RecoveryOf`). A commit that is not acknowledged breaks this for one
  worker: it compensates a request that is decided. Such a worker is `Late`, and
  `LateAlone` says that its account is its own: nobody recovers under its claim, which
  is given up, so that what it deletes concerns its request alone. `UnheardDecided` says
  that an unacknowledged request stays decided. The hypothesis cannot be dropped: an
  approval that runs on after its claim is stale is not exclusive, and its
  compensation meets an account another one has finalized. Nor can the exception be
  (registration_lost). A request lives much shorter than the
  five minutes of a claim, so the case proved is the normal one. `RetentionIsKept` needs
  that what the cleanup has read of a request stays so until it deletes it
  (`BatchExpired`).
* `Organization_proofs`: `TypeOK`, `MovesAreAPath`, `EveryTeamHasAnActiveAdmin`,
  `ImportedMeansPresent` and `ImportReplacesWhatItSaw`, over the specification of
  `Import`, so with imports and requests running beside each other.
  `MovesAreAPath` needs `RowsAreNumbered` (a membership has the number of the last
  move) and `KnowsTheTeam` (a transfer that has read this row knows where it leads):
  a transfer whose row is still there then leaves the team the member is in.
  `EveryTeamHasAnActiveAdmin` needs `StillHolds`: what a fresh request decided from
  still holds, because a commit that changes it makes the request stale. For the
  imports the same is `ReadsHold`, also against the plain update of a member. And it
  needs that a judged sheet has one row per member or reference (`OneRowEach`), from
  the duplicate checks of the two profiles: of two rows for one member the commit
  could write only one.
* `Inventory_proofs`: `TypeOK`, `LoansAddUp`, `OutstandingIsReturnable`,
  `LedgerIsTheStock`, `StockIsConserved`. None is inductive alone, because a commit writes what was
  read earlier. The invariant `Inv` adds `Snapshot`: a transaction that has not
  been overtaken has read what is still in the database, its request was not
  refused on it, and is well formed. Every commit is then as good as one that
  read and wrote at once; `OthersKeepTheirSnapshot` is the lemma that a commit marks
  everybody it overtakes. `StockIsConserved` is then inductive with `Inv` and the
  ledger: a row more counts with the rows of its type (`RowCounts`), the loan that a
  commit makes or changes is the only one whose debt changes (`OwedChanges`), and the
  three add up (`MovementAddsUp`).
* Sums over finite sets (in `Inventory_proofs`, and what the pages need of them again
  in `TaskWorkflow_proofs`): the library defines them by a recursive function, and its
  induction theorems are out of the provers' reach, since they take an operator. The
  well-foundedness of the strict subsets of a finite set is not: a statement that
  fails for some subset fails for a smallest one (`SmallestSubset`). In this way a sum
  exists, does not depend on the set it is taken in, may take any element first
  (`SumSplit`), and is the same for what is the same (`SumSame`).
* `ManagementReport_proofs`: `TypeOK`, `ReportIsItsVersion`, `VersionsAreImmutable`,
  and `Spec => ImplementsReviewCycle`. The same snapshot argument gives
  `CommitsAtOnce`: every step leaves the reports alone or is a handler that ran
  at once. What remains is sequential: `Ledger` says which review the last
  version of a report in each status has, and that all earlier ones asked for a
  revision; each handler keeps it and is a step of the review cycle or none.
* `Todo_proofs`: `LimitIsExact` and `CompletionIsKept`. `RateInv` says that a row
  counts what its window has handled up to the limit, that a row is missing only
  before its first request or after its retention, and that a request reaches its
  row before a cleanup can have taken it (`AskedInTime`, from `MaxDelay \in
  0..Retention`). `CompletionIsKept` needs only that a call which has read an item
  finds its own or none: what it writes then is the present item with one column
  changed.

Only model-checked: the liveness properties `ClaimsAreResolved`, `DueSeriesIsServed`
and `DueNoticesAreSettled` (fairness and ENABLED are outside the prover). `TypeOK` of
`TaskAutomation` bounds the length of a batch, which comes from a recursive sort of
the library; it is not proved and nothing rests on it. The two properties of the
finding runs are false and stay with TLC.

## 6. Not modelled

* Exports, listings, documents and health only read and format; inventory
  categories are a catalogue in which every change is one statement; activity rows
  and logs are written with their handlers and read by nobody who decides.
* The names of admins, teams and items are data no property reads.
* In `RateLimit`, a request that is counted and lost before it is handled, when the
  process stops in between; it would use up one of the limit unhandled. `LimitIsExact`
  speaks of requests that are let through or refused.
* In `Attachments`, the lock that a sent distribution puts on a task's files is part of
  who may change them (`MayMutate`); `LockedFilesStay` states the lock of the task's
  life only.
* Marking notifications read (a second call may move `readAt`), and the five counts
  of the todo summary.
* The registration throttle refuses and changes no request.
* Percentages, durations, due dates and time zones: the workflow keeps no time and
  the automation counts periods.
* The auth library, the mail transport and the storage service are external; where
  their failure matters it is a choice of the action that calls them.

## 7. Plan

Done: `TaskWorkflow` with `ReviewCycle`, `Measures`, `TaskAutomation`, `Attachments`,
`Registration`, `Organization`, `Import`, `Inventory`, `ManagementReport`,
`RateLimit` and `Todo`, with the theorems above: every safety invariant and action
property that holds is proved. Left:

1. `RecordedFilesAreServed` says what a download meets; that the unacknowledged commit
   is the only way to a row without contents is in `RowsHaveContents` and could be a
   property of its own.
2. Two overlapping submissions of one applicant (`registration.service.ts`:102), which
   the unique index decides and no property states.
