-------------------------- MODULE ManagementReport --------------------------
(***************************************************************************)
(* The reports admins write for the super admins: a working copy that its  *)
(* author edits, a numbered version for every submission, and a decision   *)
(* of a super admin on a version.                                          *)
(*                                                                         *)
(* As in Inventory a handler is a serializable transaction that reads,     *)
(* checks and decides on what it read, and then commits, or runs again     *)
(* after a conflict.  Each of them writes the report's row, so any two     *)
(* that overlap on a report conflict.  UNDER_REVIEW is entered and left    *)
(* within the transaction of a review: nobody ever sees it.                *)
(***************************************************************************)
EXTENDS Naturals, Sequences

CONSTANTS
  Report, NoReport,
  Content, Complete,  \* what a report can say, and what may be submitted of it
  NoContent,
  Caller,             \* the requests that may be under way at once
  MaxAttempts,        \* MAX_TRANSACTION_RETRIES
  MaxVersion          \* bound: submissions per report

ASSUME ContentAssumption == Complete \subseteq Content /\ NoContent \notin Content
ASSUME NoReportAssumption == NoReport \notin Report
ASSUME BoundsAssumption == MaxAttempts \in Nat \ {0} /\ MaxVersion \in Nat

VARIABLES
  report,    \* the working copies
  versions,  \* the submitted versions of each report, with the review
  call       \* the requests under way, and what their transaction has read

vars == <<report, versions, call>>

ReviewAction == {"APPROVE", "REQUEST_REVISION"}
Unreviewed == "UNREVIEWED"
ReportStatus == {"DRAFT", "SUBMITTED", "REVISION_REQUIRED", "APPROVED"}

NewReport == [status |-> "NONE", content |-> NoContent]
NoRequest == [op |-> "SUBMIT", report |-> NoReport, content |-> NoContent, action |-> "NONE"]
Idle == [phase |-> "idle", request |-> NoRequest, attempt |-> 0, fresh |-> FALSE,
         seen |-> NewReport, latest |-> 0]

Version(content, review) == [content |-> content, review |-> review]

Init ==
  /\ report = [r \in Report |-> NewReport]
  /\ versions = [r \in Report |-> << >>]
  /\ call = [c \in Caller |-> Idle]

(* Mistakes: each is a definition below with one plausible error, put in   *)
(* its place to see the property that catches it.                          *)
NeverConflicts(c) == FALSE
SubmittableUntilDecided(status) == status # "APPROVED"
ReviseInPlace(latest) == IF latest = 0 THEN 1 ELSE latest
-----------------------------------------------------------------------------
(* createReport, by an admin for a team that is theirs at that moment      *)
CreateReport(r, content) ==
  /\ report[r].status = "NONE"
  /\ report' = [report EXCEPT ![r] = [status |-> "DRAFT", content |-> content]]
  /\ UNCHANGED <<versions, call>>

Updates == [op : {"UPDATE"}, report : Report, content : Content, action : {"NONE"}]
Submissions == [op : {"SUBMIT"}, report : Report, content : {NoContent}, action : {"NONE"}]
Reviews == [op : {"REVIEW"}, report : Report, content : {NoContent}, action : ReviewAction]

-----------------------------------------------------------------------------
(* A transaction reads the report and its latest version, and may refuse   *)

Editable(status) == status \in {"DRAFT", "REVISION_REQUIRED"}
Submittable(status) == status \in {"DRAFT", "REVISION_REQUIRED"}

LatestReview(r) == versions[r][Len(versions[r])].review

RefusesUpdate(q) ==
  \/ ~Editable(report[q.report].status)
  \/ report[q.report].content = q.content      \* nothing to write

RefusesSubmission(r) ==
  \/ ~Submittable(report[r].status)
  \/ report[r].content \notin Complete
  \/ /\ report[r].status = "REVISION_REQUIRED"
     /\ versions[r] = << >> \/ LatestReview(r) # "REQUEST_REVISION"
  \/ Len(versions[r]) >= MaxVersion            \* bound

RefusesReview(r) ==
  \/ report[r].status # "SUBMITTED"
  \/ versions[r] = << >>
  \/ LatestReview(r) # Unreviewed

Refused(q) ==
  \/ q.op = "UPDATE" /\ RefusesUpdate(q)
  \/ q.op = "SUBMIT" /\ RefusesSubmission(q.report)
  \/ q.op = "REVIEW" /\ RefusesReview(q.report)

Read(c, q, attempt) ==
  /\ call' = [call EXCEPT ![c] =
       IF Refused(q) THEN Idle
       ELSE [phase |-> "writing", request |-> q, attempt |-> attempt, fresh |-> TRUE,
             seen |-> report[q.report], latest |-> Len(versions[q.report])]]
  /\ UNCHANGED <<report, versions>>

Ask(c, q) ==
  /\ call[c].phase = "idle"
  /\ report[q.report].status # "NONE"
  /\ Read(c, q, 1)

AskAgain(c) ==
  /\ call[c].phase = "retrying"
  /\ Read(c, call[c].request, call[c].attempt)

-----------------------------------------------------------------------------
(* ... and writes what follows from what it read, or runs again            *)

(* The database: the report has been changed by a commit since.            *)
Conflicts(c) == ~call[c].fresh

TriesAgain(attempt) == attempt < MaxAttempts

(* A conflict is tried again; one that the unique index on the versions or *)
(* on their reviews reports first is not.                                  *)
Retry(c) ==
  /\ call[c].phase = "writing"
  /\ Conflicts(c)
  /\ \/ /\ TriesAgain(call[c].attempt)
        /\ call' = [call EXCEPT ![c] = [Idle EXCEPT !.phase = "retrying",
                                                    !.request = call[c].request,
                                                    !.attempt = call[c].attempt + 1]]
     \/ /\ ~TriesAgain(call[c].attempt) \/ call[c].request.op # "UPDATE"
        /\ call' = [call EXCEPT ![c] = Idle]
  /\ UNCHANGED <<report, versions>>

(* What the commit of c does to the other transactions, and to c           *)
Committed(c) ==
  [d \in Caller |->
     IF d = c THEN Idle
     ELSE IF call[d].request.report = call[c].request.report
          THEN [call[d] EXCEPT !.fresh = FALSE] ELSE call[d]]

Commits(c, op) == call[c].phase = "writing" /\ ~Conflicts(c) /\ call[c].request.op = op

UpdateReport(c) ==
  LET q == call[c].request IN
  /\ Commits(c, "UPDATE")
  /\ report' = [report EXCEPT ![q.report].content = q.content]
  /\ call' = Committed(c)
  /\ UNCHANGED versions

NextVersion(latest) == latest + 1

(* submitReport: the version holds what the transaction read.              *)
SubmitReport(c) ==
  LET r == call[c].request.report
      n == NextVersion(call[c].latest)
  IN
  /\ Commits(c, "SUBMIT")
  /\ versions' = [versions EXCEPT ![r] =
       [v \in 1..n |-> IF v = n THEN Version(call[c].seen.content, Unreviewed)
                       ELSE versions[r][v]]]
  /\ report' = [report EXCEPT ![r].status = "SUBMITTED"]
  /\ call' = Committed(c)

(* reviewReport: the two updates of the status are conditional on it.      *)
ReviewReport(c) ==
  LET q == call[c].request
      n == call[c].latest
      outcome == IF q.action = "APPROVE" THEN "APPROVED" ELSE "REVISION_REQUIRED"
  IN
  /\ Commits(c, "REVIEW")
  /\ report[q.report].status = "SUBMITTED"
  /\ versions' = [versions EXCEPT ![q.report] =
       [versions[q.report] EXCEPT ![n] = Version(versions[q.report][n].content, q.action)]]
  /\ report' = [report EXCEPT ![q.report].status = outcome]
  /\ call' = Committed(c)

Next ==
  \/ \E r \in Report, content \in Content : CreateReport(r, content)
  \/ \E c \in Caller, q \in Updates \cup Submissions \cup Reviews : Ask(c, q)
  \/ \E c \in Caller :
       AskAgain(c) \/ Retry(c) \/ UpdateReport(c) \/ SubmitReport(c) \/ ReviewReport(c)

Spec == Init /\ [][Next]_vars

-----------------------------------------------------------------------------
(* Properties *)

ReportType == [status : ReportStatus \cup {"NONE"}, content : Content \cup {NoContent}]
VersionType == [content : Content \cup {NoContent}, review : ReviewAction \cup {Unreviewed}]
RequestType == [op : {"UPDATE", "SUBMIT", "REVIEW"}, report : Report \cup {NoReport},
                content : Content \cup {NoContent}, action : ReviewAction \cup {"NONE"}]
CallType == [phase : {"idle", "writing", "retrying"}, request : RequestType,
             attempt : 0..MaxAttempts, fresh : BOOLEAN, seen : ReportType,
             latest : 0..MaxVersion]

TypeOK ==
  /\ report \in [Report -> ReportType]
  /\ versions \in [Report -> Seq(VersionType)]
  /\ call \in [Caller -> CallType]
  /\ \A r \in Report : Len(versions[r]) <= MaxVersion

(* What awaits a decision, or was approved, is what was submitted: an edit *)
(* that overlaps a submission is in the version or comes after the         *)
(* decision, never between the two; and only complete work is submitted.   *)
ReportIsItsVersion ==
  \A r \in Report :
    /\ report[r].status \in {"SUBMITTED", "APPROVED"} =>
         versions[r] # << >> /\ versions[r][Len(versions[r])].content = report[r].content
    /\ \A v \in 1..Len(versions[r]) : versions[r][v].content \in Complete

(* PRD 42: a version is an immutable snapshot and a review an immutable    *)
(* decision on it, through any number of revisions.                        *)
VersionsAreImmutable ==
  [][\A r \in Report : \A v \in 1..Len(versions[r]) :
       /\ v <= Len(versions'[r])
       /\ versions'[r][v].content = versions[r][v].content
       /\ versions[r][v].review # Unreviewed => versions'[r][v] = versions[r][v]]_vars

(* The workflow of reports, as an implementation of ReviewCycle.           *)
PhaseOf(r) ==
  CASE report[r].status = "SUBMITTED" -> "AWAITING"
    [] report[r].status = "REVISION_REQUIRED" -> "REVISING"
    [] report[r].status = "APPROVED" -> "APPROVED"
    [] OTHER -> "DRAFTING"

(* Only the latest version can be without a decision.                      *)
DecidedCount(r) ==
  IF report[r].status = "SUBMITTED" THEN Len(versions[r]) - 1 ELSE Len(versions[r])
DecisionsOf(r) == [v \in 1..DecidedCount(r) |-> versions[r][v].review]

Cycle == INSTANCE ReviewCycle WITH
           Item <- Report,
           phase <- [r \in Report |-> PhaseOf(r)],
           versions <- [r \in Report |-> Len(versions[r])],
           decisions <- [r \in Report |-> DecisionsOf(r)]

(* Submission and review of reports keep the promises of ReviewCycle.      *)
ImplementsReviewCycle == Cycle!CycleSpec
=============================================================================
