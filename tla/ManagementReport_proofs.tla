---------------------- MODULE ManagementReport_proofs ----------------------
(***************************************************************************)
(* ManagementReport, for any reports, contents, callers and bounds.  What  *)
(* a transaction has read is still so when it may commit (Snapshot), so    *)
(* every commit is as good as a handler that ran at once (CommitsAtOnce);  *)
(* the rest is proved of those: what is under review is what was           *)
(* submitted, versions never change, and the reports go through the        *)
(* review cycle.                                                           *)
(***************************************************************************)
EXTENDS ManagementReport, SequenceTheorems, TLAPS

USE ContentAssumption, NoReportAssumption, BoundsAssumption

(* What is asked is well formed.                                           *)
WellFormed(q) ==
  /\ q \in RequestType /\ q.report \in Report
  /\ q.op = "UPDATE" => q.content \in Content
  /\ q.op = "REVIEW" => q.action \in ReviewAction
  /\ report[q.report].status # "NONE"

RequestInv == \A c \in Caller : call[c].phase # "idle" => WellFormed(call[c].request)

(* What a request that may still commit has read and found to be so.       *)
Granted(c) ==
  LET q == call[c].request IN
  /\ call[c].seen = report[q.report]
  /\ call[c].latest = Len(versions[q.report])
  /\ q.op = "UPDATE" => Editable(report[q.report].status)
  /\ q.op = "SUBMIT" => /\ Submittable(report[q.report].status)
                        /\ report[q.report].content \in Complete
                        /\ Len(versions[q.report]) < MaxVersion
  /\ q.op = "REVIEW" => report[q.report].status = "SUBMITTED" /\ versions[q.report] # << >>

Snapshot == \A c \in Caller : call[c].phase = "writing" /\ call[c].fresh => Granted(c)

(* The status of a report says what its versions and their reviews are.    *)
LastIs(r, review) == versions[r] # << >> /\ LatestReview(r) = review

Agrees(r) ==
  /\ report[r].status # "NONE" => report[r].content \in Content
  /\ report[r].status \in {"NONE", "DRAFT"} => versions[r] = << >>
  /\ report[r].status = "SUBMITTED" => LastIs(r, Unreviewed)
  /\ report[r].status = "REVISION_REQUIRED" => LastIs(r, "REQUEST_REVISION")
  /\ report[r].status = "APPROVED" => LastIs(r, "APPROVE")
  /\ \A v \in 1..Len(versions[r]) :
       v < Len(versions[r]) => versions[r][v].review = "REQUEST_REVISION"

Ledger == \A r \in Report : Agrees(r)

(* The inductive invariant: of the reports, and of the requests            *)
BooksType ==
  /\ report \in [Report -> ReportType]
  /\ versions \in [Report -> Seq(VersionType)]
  /\ \A r \in Report : Len(versions[r]) <= MaxVersion

Books == BooksType /\ Ledger /\ ReportIsItsVersion
Calls == call \in [Caller -> CallType] /\ RequestInv /\ Snapshot
Inv == Books /\ Calls

-----------------------------------------------------------------------------
(* The handlers, as if they ran at once                                    *)

Edited(r, content) ==
  /\ Editable(report[r].status)
  /\ report' = [report EXCEPT ![r].content = content]
  /\ UNCHANGED versions

Submitted(r) ==
  LET n == Len(versions[r]) + 1 IN
  /\ Submittable(report[r].status)
  /\ report[r].content \in Complete
  /\ n <= MaxVersion
  /\ versions' = [versions EXCEPT ![r] =
       [v \in 1..n |-> IF v = n THEN Version(report[r].content, Unreviewed)
                       ELSE versions[r][v]]]
  /\ report' = [report EXCEPT ![r].status = "SUBMITTED"]

Reviewed(r, action) ==
  LET n == Len(versions[r]) IN
  /\ report[r].status = "SUBMITTED"
  /\ versions[r] # << >>
  /\ versions' = [versions EXCEPT ![r] =
       [versions[r] EXCEPT ![n] = Version(versions[r][n].content, action)]]
  /\ report' = [report EXCEPT ![r].status =
       IF action = "APPROVE" THEN "APPROVED" ELSE "REVISION_REQUIRED"]

Created(r, content) ==
  /\ report[r].status = "NONE"
  /\ report' = [report EXCEPT ![r] = [status |-> "DRAFT", content |-> content]]
  /\ UNCHANGED versions

AtOnce ==
  \/ \E r \in Report, content \in Content : Created(r, content) \/ Edited(r, content)
  \/ \E r \in Report : Submitted(r)
  \/ \E r \in Report, action \in ReviewAction : Reviewed(r, action)

(* What a request knows when it commits                                    *)
LEMMA AtCommit ==
  ASSUME Inv, NEW c \in Caller, NEW op, Commits(c, op)
  PROVE  /\ WellFormed(call[c].request) /\ Granted(c) /\ call[c].request.op = op
         /\ call[c].request.report \in Report
BY DEF Inv, Calls, Commits, Conflicts, Snapshot, RequestInv, WellFormed, CallType

(* A commit writes what its handler would write if it ran now.             *)
LEMMA CommitsAtOnce ==
  ASSUME Inv, [Next]_vars
  PROVE  UNCHANGED <<report, versions>> \/ AtOnce
<1>1. ASSUME NEW r \in Report, NEW content \in Content, CreateReport(r, content)
      PROVE  AtOnce
  BY <1>1 DEF CreateReport, AtOnce, Created
<1>2. ASSUME NEW c \in Caller, UpdateReport(c) PROVE AtOnce
  <2>1. WellFormed(call[c].request) /\ Granted(c) /\ call[c].request.op = "UPDATE"
    BY <1>2, AtCommit DEF UpdateReport
  <2>2. Edited(call[c].request.report, call[c].request.content)
    BY <1>2, <2>1 DEF UpdateReport, Edited, Granted
  <2> QED
    BY <2>1, <2>2 DEF AtOnce, WellFormed
<1>3. ASSUME NEW c \in Caller, SubmitReport(c) PROVE AtOnce
  <2>1. WellFormed(call[c].request) /\ Granted(c) /\ call[c].request.op = "SUBMIT"
    BY <1>3, AtCommit DEF SubmitReport
  <2>2. Len(versions[call[c].request.report]) \in Nat
    BY <2>1 DEF WellFormed, Inv, Books, BooksType
  <2> DEFINE r == call[c].request.report
             n == Len(versions[r]) + 1
  <2>3. /\ call[c].seen = report[r] /\ NextVersion(call[c].latest) = n
        /\ Submittable(report[r].status) /\ report[r].content \in Complete
        /\ Len(versions[r]) < MaxVersion
    BY <2>1 DEF Granted, NextVersion
  <2>4. n <= MaxVersion
    BY <2>2, <2>3
  <2>5. Submitted(r)
    BY <1>3, <2>3, <2>4 DEF SubmitReport, Submitted
  <2> QED
    BY <2>1, <2>5 DEF AtOnce, WellFormed
<1>4. ASSUME NEW c \in Caller, ReviewReport(c) PROVE AtOnce
  <2>1. WellFormed(call[c].request) /\ Granted(c) /\ call[c].request.op = "REVIEW"
    BY <1>4, AtCommit DEF ReviewReport
  <2>2. Reviewed(call[c].request.report, call[c].request.action)
    BY <1>4, <2>1 DEF ReviewReport, Reviewed, Granted
  <2> QED
    BY <2>1, <2>2 DEF AtOnce, WellFormed
<1>5. ASSUME NEW c \in Caller,
             (\E q \in Updates \cup Submissions \cup Reviews : Ask(c, q)) \/ AskAgain(c) \/ Retry(c)
      PROVE  UNCHANGED <<report, versions>>
  BY <1>5 DEF Ask, AskAgain, Read, Retry
<1> QED
  BY <1>1, <1>2, <1>3, <1>4, <1>5 DEF Next, vars

-----------------------------------------------------------------------------
(* The reports, when a handler runs at once                                *)

(* A version more                                                          *)
LEMMA OneVersionMore ==
  ASSUME BooksType, NEW r \in Report, Submitted(r)
  PROVE  LET n == Len(versions[r]) + 1 IN
         /\ versions'[r] \in Seq(VersionType) /\ Len(versions'[r]) = n
         /\ n \in Nat \ {0} /\ n <= MaxVersion
         /\ versions'[r][n] = Version(report[r].content, Unreviewed)
         /\ \A v \in 1..Len(versions[r]) : versions'[r][v] = versions[r][v]
         /\ \A k \in Report \ {r} : versions'[k] = versions[k] /\ report'[k] = report[k]
         /\ report'[r].status = "SUBMITTED" /\ report'[r].content = report[r].content
         /\ report' \in [Report -> ReportType] /\ versions' \in [Report -> Seq(VersionType)]
<1> DEFINE old == versions[r]
           n == Len(old) + 1
           new == [v \in 1..n |-> IF v = n THEN Version(report[r].content, Unreviewed)
                                  ELSE old[v]]
<1>1. /\ old \in Seq(VersionType) /\ Len(old) \in Nat
      /\ report[r] \in ReportType
  BY DEF BooksType
<1>2. Version(report[r].content, Unreviewed) \in VersionType
  BY <1>1 DEF Version, VersionType, ReportType
<1>3. \A v \in 1..Len(old) : old[v] \in VersionType
  BY <1>1, ElementOfSeq
<1>4. new \in [1..n -> VersionType]
  BY <1>1, <1>2, <1>3
<1>5. new \in Seq(VersionType) /\ Len(new) = n
  BY <1>1, <1>4, SeqDef, LenProperties
<1>6. versions' = [versions EXCEPT ![r] = new]
  BY DEF Submitted
<1>7. report' = [report EXCEPT ![r].status = "SUBMITTED"] /\ n <= MaxVersion
  BY DEF Submitted
<1>8. report' \in [Report -> ReportType]
  BY <1>1, <1>7 DEF BooksType, ReportType, ReportStatus
<1>9. versions'[r] = new
  BY <1>6 DEF BooksType
<1> QED
  BY <1>1, <1>5, <1>6, <1>7, <1>8, <1>9 DEF BooksType

(* The decision on the last version                                        *)
LEMMA OneDecisionMore ==
  ASSUME BooksType, NEW r \in Report, NEW action \in ReviewAction, Reviewed(r, action)
  PROVE  LET n == Len(versions[r]) IN
         /\ versions'[r] \in Seq(VersionType) /\ Len(versions'[r]) = n
         /\ n \in Nat \ {0} /\ n <= MaxVersion
         /\ versions'[r][n] = Version(versions[r][n].content, action)
         /\ \A v \in 1..n : v # n => versions'[r][v] = versions[r][v]
         /\ \A k \in Report \ {r} : versions'[k] = versions[k] /\ report'[k] = report[k]
         /\ report'[r].content = report[r].content
         /\ report'[r].status = IF action = "APPROVE" THEN "APPROVED" ELSE "REVISION_REQUIRED"
         /\ report' \in [Report -> ReportType] /\ versions' \in [Report -> Seq(VersionType)]
<1> DEFINE old == versions[r]
           n == Len(old)
           e == Version(old[n].content, action)
<1>1. /\ old \in Seq(VersionType) /\ n \in Nat \ {0} /\ n <= MaxVersion
      /\ report[r] \in ReportType
  BY EmptySeq DEF BooksType, Reviewed
<1>2. e \in VersionType
  <2>1. n \in 1..Len(old)
    BY <1>1
  <2>2. old[n] \in VersionType
    BY <1>1, <2>1, ElementOfSeq
  <2> QED
    BY <2>2 DEF Version, VersionType
<1>3. versions' = [versions EXCEPT ![r] = [old EXCEPT ![n] = e]]
  BY DEF Reviewed
<1>4. versions'[r] = [old EXCEPT ![n] = e]
  BY <1>3 DEF BooksType
<1> HIDE DEF e
<1>5. /\ versions'[r] \in Seq(VersionType) /\ Len(versions'[r]) = n
      /\ \A v \in 1..n : versions'[r][v] = IF v = n THEN e ELSE old[v]
  BY <1>1, <1>2, <1>4, ExceptSeq
<1>6. /\ report' = [report EXCEPT ![r].status =
           IF action = "APPROVE" THEN "APPROVED" ELSE "REVISION_REQUIRED"]
      /\ report' \in [Report -> ReportType]
  BY DEF Reviewed, BooksType, ReportType, ReportStatus
<1>7. /\ \A k \in Report \ {r} : versions'[k] = versions[k]
      /\ versions' \in [Report -> Seq(VersionType)]
  BY <1>3, <1>4, <1>5 DEF BooksType
<1>8. /\ \A k \in Report \ {r} : report'[k] = report[k]
      /\ report'[r].content = report[r].content
      /\ report'[r].status = IF action = "APPROVE" THEN "APPROVED" ELSE "REVISION_REQUIRED"
  BY <1>1, <1>6 DEF BooksType, ReportType
<1>9. versions'[r][n] = e
  BY <1>1, <1>5
<1> QED
  BY <1>1, <1>5, <1>6, <1>7, <1>8, <1>9 DEF e

(* What is changed of one report leaves the others as they were.           *)
LEMMA OthersAgree ==
  ASSUME BooksType, Ledger, ReportIsItsVersion, NEW r \in Report,
         report' \in [Report -> ReportType], versions' \in [Report -> Seq(VersionType)],
         \A k \in Report \ {r} : versions'[k] = versions[k] /\ report'[k] = report[k],
         Len(versions'[r]) <= MaxVersion, Agrees(r)',
         /\ report'[r].status \in {"SUBMITTED", "APPROVED"} =>
              versions'[r] # << >> /\ versions'[r][Len(versions'[r])].content = report'[r].content
         /\ \A v \in 1..Len(versions'[r]) : versions'[r][v].content \in Complete
  PROVE  Books'
<1>1. BooksType'
  BY DEF BooksType
<1>2. ASSUME NEW k \in Report \ {r} PROVE Agrees(k)'
  BY <1>2 DEF Ledger, Agrees, LastIs, LatestReview
<1>3. Ledger'
  BY <1>2 DEF Ledger
<1>4. ReportIsItsVersion'
  BY DEF ReportIsItsVersion
<1> QED
  BY <1>1, <1>3, <1>4 DEF Books

(* A report just created keeps the books.                                  *)
LEMMA CreatedKeeps ==
  ASSUME Books, NEW r \in Report, NEW content \in Content, Created(r, content)
  PROVE  Books'
<1> USE DEF Books
<1>1. versions[r] = << >> /\ versions' = versions
  BY DEF Created, Ledger, Agrees
<1>2. /\ report' \in [Report -> ReportType]
      /\ report'[r] = [status |-> "DRAFT", content |-> content]
      /\ \A k \in Report \ {r} : report'[k] = report[k]
  BY DEF Created, BooksType, ReportType, ReportStatus
<1>3. Len(versions[r]) = 0
  BY <1>1
<1>4. Agrees(r)'
  BY <1>1, <1>2, <1>3 DEF Agrees
<1>5. /\ report'[r].status = "DRAFT" /\ Len(versions'[r]) = 0
      /\ versions' \in [Report -> Seq(VersionType)]
  BY <1>1, <1>2, <1>3 DEF BooksType
<1>6. \A k \in Report \ {r} : versions'[k] = versions[k] /\ report'[k] = report[k]
  BY <1>1, <1>2
<1>7. \A v \in 1..Len(versions'[r]) : versions'[r][v].content \in Complete
  BY <1>5
<1> QED
  BY <1>2, <1>4, <1>5, <1>6, <1>7, OthersAgree

(* An update keeps the books: only drafts and revisions are edited.        *)
LEMMA EditedKeeps ==
  ASSUME Books, NEW r \in Report, NEW content \in Content, Edited(r, content)
  PROVE  Books'
<1> USE DEF Books
<1>1. versions' = versions /\ Editable(report[r].status)
  BY DEF Edited
<1>2. /\ report' \in [Report -> ReportType]
      /\ report'[r].status = report[r].status /\ report'[r].content = content
      /\ \A k \in Report \ {r} : report'[k] = report[k]
  BY DEF Edited, BooksType, ReportType
<1>3. Agrees(r)'
  BY <1>1, <1>2 DEF Ledger, Agrees, LastIs, LatestReview
<1> QED
  BY <1>1, <1>2, <1>3, OthersAgree DEF BooksType, Editable, ReportIsItsVersion

(* A submission adds the next version and keeps the books.                 *)
LEMMA SubmittedKeeps ==
  ASSUME Books, NEW r \in Report, Submitted(r)
  PROVE  Books'
<1> USE DEF Books
<1> DEFINE n == Len(versions[r]) + 1
<1>1. /\ Len(versions'[r]) = n /\ n \in Nat \ {0} /\ n <= MaxVersion
      /\ versions'[r][n] = Version(report[r].content, Unreviewed)
      /\ \A v \in 1..Len(versions[r]) : versions'[r][v] = versions[r][v]
      /\ \A k \in Report \ {r} : versions'[k] = versions[k] /\ report'[k] = report[k]
      /\ report'[r].status = "SUBMITTED" /\ report'[r].content = report[r].content
      /\ report' \in [Report -> ReportType] /\ versions' \in [Report -> Seq(VersionType)]
  BY OneVersionMore
<1>2. versions'[r] # << >> /\ Len(versions[r]) \in Nat
  BY <1>1, EmptySeq, LenProperties DEF BooksType
<1>3. report[r].content \in Complete /\ Submittable(report[r].status)
  BY DEF Submitted
<1>4. ASSUME NEW v \in 1..Len(versions[r]) PROVE versions[r][v].review = "REQUEST_REVISION"
  <2>1. report[r].status = "REVISION_REQUIRED"
    BY <1>2, <1>3, <1>4 DEF Submittable, Ledger, Agrees
  <2>2. versions[r][Len(versions[r])].review = "REQUEST_REVISION"
    BY <2>1 DEF Ledger, Agrees, LastIs, LatestReview
  <2> QED
    BY <1>2, <1>4, <2>2 DEF Ledger, Agrees
<1>5. Agrees(r)'
  <2>1. versions'[r][n].review = Unreviewed /\ report'[r].content \in Content
    BY <1>1, <1>3 DEF Version
  <2>2. LastIs(r, Unreviewed)'
    BY <1>1, <1>2, <2>1 DEF LastIs, LatestReview, Unreviewed
  <2>3. \A v \in 1..n : v < n => versions'[r][v].review = "REQUEST_REVISION"
    BY <1>1, <1>2, <1>4
  <2> QED
    BY <1>1, <2>1, <2>2, <2>3 DEF Agrees
<1>6. \A v \in 1..Len(versions'[r]) : versions'[r][v].content \in Complete
  <2>1. versions'[r][n].content \in Complete
    BY <1>1, <1>3 DEF Version
  <2>2. \A v \in 1..n : v = n \/ v \in 1..Len(versions[r])
    BY <1>2
  <2>3. \A v \in 1..Len(versions[r]) : versions[r][v].content \in Complete
    BY DEF ReportIsItsVersion
  <2> QED
    BY <1>1, <2>1, <2>2, <2>3
<1> QED
  BY <1>1, <1>2, <1>5, <1>6, OthersAgree DEF Version

(* A decision on the last version keeps the books.                         *)
LEMMA ReviewedKeeps ==
  ASSUME Books, NEW r \in Report, NEW action \in ReviewAction, Reviewed(r, action)
  PROVE  Books'
<1> USE DEF Books
<1> DEFINE n == Len(versions[r])
<1>1. /\ Len(versions'[r]) = n /\ n \in Nat \ {0} /\ n <= MaxVersion
      /\ versions'[r][n] = Version(versions[r][n].content, action)
      /\ \A v \in 1..n : v # n => versions'[r][v] = versions[r][v]
      /\ \A k \in Report \ {r} : versions'[k] = versions[k] /\ report'[k] = report[k]
      /\ report'[r].content = report[r].content
      /\ report'[r].status = IF action = "APPROVE" THEN "APPROVED" ELSE "REVISION_REQUIRED"
      /\ report' \in [Report -> ReportType] /\ versions' \in [Report -> Seq(VersionType)]
  BY OneDecisionMore
<1>2. versions'[r] # << >>
  BY <1>1, EmptySeq
<1>3. /\ report[r].status = "SUBMITTED" /\ versions[r][n].content = report[r].content
      /\ \A v \in 1..n : versions[r][v].content \in Complete
      /\ \A v \in 1..n : v < n => versions[r][v].review = "REQUEST_REVISION"
      /\ report[r].content \in Content
  BY DEF Reviewed, ReportIsItsVersion, Ledger, Agrees
<1>4. versions'[r][n].review = action /\ versions'[r][n].content = versions[r][n].content
  BY <1>1 DEF Version
<1>5. Agrees(r)'
  BY <1>1, <1>2, <1>3, <1>4 DEF Agrees, LastIs, LatestReview, ReviewAction
<1>6. \A v \in 1..Len(versions'[r]) : versions'[r][v].content \in Complete
  BY <1>1, <1>3, <1>4
<1> QED
  BY <1>1, <1>2, <1>3, <1>4, <1>5, <1>6, OthersAgree

(* Before any report the books are in order.                               *)
LEMMA BooksInit == Init => Books
<1> SUFFICES ASSUME Init PROVE Books
  OBVIOUS
<1>1. BooksType
  BY EmptySeq DEF Init, BooksType, NewReport, ReportType
<1>2. Ledger /\ ReportIsItsVersion
  BY EmptySeq DEF Init, Ledger, Agrees, ReportIsItsVersion, NewReport
<1> QED
  BY <1>1, <1>2 DEF Books

(* A handler that ran at once keeps the books.                             *)
LEMMA BooksStep == Books /\ (UNCHANGED <<report, versions>> \/ AtOnce) => Books'
<1>1. ASSUME Books, UNCHANGED <<report, versions>> PROVE Books'
  BY <1>1 DEF Books, BooksType, Ledger, Agrees, LastIs, LatestReview, ReportIsItsVersion
<1> QED
  BY <1>1, CreatedKeeps, EditedKeeps, SubmittedKeeps, ReviewedKeeps DEF AtOnce

-----------------------------------------------------------------------------
(* The requests                                                            *)

(* A caller without a request has the type of a call.                      *)
LEMMA IdleType == Idle \in CallType /\ Idle.phase = "idle"
BY DEF Idle, NoRequest, NewReport, CallType, RequestType, ReportType

(* A request that is enumerated has the type of its operation.             *)
LEMMA RequestsWellFormed ==
  ASSUME NEW q \in Updates \cup Submissions \cup Reviews, report[q.report].status # "NONE"
  PROVE  WellFormed(q)
BY DEF Updates, Submissions, Reviews, WellFormed, RequestType, ReviewAction

(* A transaction that reads is granted only what it found to be so.        *)
LEMMA ReadKeeps ==
  ASSUME Inv, NEW c \in Caller, NEW q, WellFormed(q), NEW attempt \in 0..MaxAttempts,
         Read(c, q, attempt)
  PROVE  Calls'
<1> DEFINE r == q.report
           new == [phase |-> "writing", request |-> q, attempt |-> attempt, fresh |-> TRUE,
                   seen |-> report[r], latest |-> Len(versions[r])]
<1> USE DEF Inv, Calls
<1>1. UNCHANGED <<report, versions>> /\ \A d \in Caller \ {c} : call'[d] = call[d]
  BY DEF Read
<1>2. /\ r \in Report /\ q \in RequestType /\ report[r] \in ReportType
      /\ Len(versions[r]) \in 0..MaxVersion
  BY LenProperties DEF WellFormed, Books, BooksType
<1>3. new \in CallType
  BY <1>2 DEF CallType
<1>4. CASE Refused(q)
  <2>1. call' = [call EXCEPT ![c] = Idle]
    BY <1>4 DEF Read
  <2> QED
    BY <1>1, <2>1, IdleType DEF RequestInv, WellFormed, Snapshot, Granted
<1>5. CASE ~Refused(q)
  <2>1. call' = [call EXCEPT ![c] = new] /\ call'[c] = new
    BY <1>5 DEF Read
  <2>2. call' \in [Caller -> CallType]
    BY <1>3, <2>1
  <2>3. RequestInv'
    BY <1>1, <2>1 DEF RequestInv, WellFormed
  <2>4. Granted(c)'
    BY <1>1, <1>2, <1>5, <2>1
    DEF Granted, Refused, RefusesUpdate, RefusesSubmission, RefusesReview
  <2>5. Snapshot'
    BY <1>1, <2>4 DEF Snapshot, Granted
  <2> QED
    BY <2>2, <2>3, <2>5
<1> QED
  BY <1>4, <1>5

(* One that runs again, or gives up, may not commit.                       *)
LEMMA RetryKeeps ==
  ASSUME Inv, NEW c \in Caller, Retry(c)
  PROVE  Calls'
<1> USE DEF Inv, Calls
<1>1. UNCHANGED <<report, versions>> /\ \A d \in Caller \ {c} : call'[d] = call[d]
  BY DEF Retry
<1>2. WellFormed(call[c].request) /\ call[c] \in CallType
  BY DEF Retry, RequestInv
<1>3. /\ call'[c] \in CallType /\ call' \in [Caller -> CallType]
      /\ call'[c].phase # "writing"
      /\ call'[c].phase # "idle" => call'[c].request = call[c].request
  <2>1. CASE call' = [call EXCEPT ![c] = Idle]
    BY <2>1, IdleType
  <2>2. CASE /\ TriesAgain(call[c].attempt)
             /\ call' = [call EXCEPT ![c] = [Idle EXCEPT !.phase = "retrying",
                                                         !.request = call[c].request,
                                                         !.attempt = call[c].attempt + 1]]
    <3>1. call[c].attempt + 1 \in 0..MaxAttempts /\ call[c].request \in RequestType
      BY <1>2, <2>2 DEF TriesAgain, CallType
    <3>2. call'[c] = [Idle EXCEPT !.phase = "retrying", !.request = call[c].request,
                                  !.attempt = call[c].attempt + 1]
      BY <2>2
    <3>3. /\ call'[c] \in CallType /\ call'[c].phase = "retrying"
          /\ call'[c].request = call[c].request
      BY <3>1, <3>2, IdleType DEF CallType
    <3> QED
      BY <2>2, <3>3
  <2> QED
    BY <2>1, <2>2 DEF Retry
<1>4. RequestInv'
  BY <1>1, <1>2, <1>3 DEF RequestInv, WellFormed
<1>5. Snapshot'
  BY <1>1, <1>3 DEF Snapshot, Granted
<1> QED
  BY <1>3, <1>4, <1>5

(* A commit leaves nothing another request may still rely on changed.      *)
LEMMA CommitKeeps ==
  ASSUME Inv, NEW c \in Caller, call' = Committed(c),
         \A r \in Report : report[r].status # "NONE" => report'[r].status # "NONE",
         \A r \in Report \ {call[c].request.report} :
           report'[r] = report[r] /\ versions'[r] = versions[r]
  PROVE  Calls'
<1> USE DEF Inv, Calls
<1>1. call' \in [Caller -> CallType]
  <2>1. ASSUME NEW x \in CallType PROVE [x EXCEPT !.fresh = FALSE] \in CallType
    BY DEF CallType
  <2>2. call \in [Caller -> CallType]
    OBVIOUS
  <2> QED
    BY <2>1, <2>2, IdleType DEF Committed
<1>2. ASSUME NEW d \in Caller, call'[d].phase # "idle"
      PROVE  /\ d # c
             /\ call'[d].request = call[d].request /\ call'[d].phase = call[d].phase
             /\ call'[d].seen = call[d].seen /\ call'[d].latest = call[d].latest
             /\ call'[d].fresh => call[d].fresh /\ call[d].request.report # call[c].request.report
  <2>1. d # c
    BY <1>2, IdleType DEF Committed
  <2> QED
    BY <2>1 DEF Committed, CallType
<1>3. RequestInv'
  BY <1>2 DEF RequestInv, WellFormed
<1>4. ASSUME NEW d \in Caller, call'[d].phase = "writing", call'[d].fresh
      PROVE  Granted(d)'
  <2>1. Granted(d) /\ WellFormed(call[d].request)
    BY <1>2, <1>4 DEF Snapshot, RequestInv
  <2>2. /\ report'[call[d].request.report] = report[call[d].request.report]
        /\ versions'[call[d].request.report] = versions[call[d].request.report]
    BY <1>2, <1>4, <2>1 DEF WellFormed
  <2> QED
    BY <1>2, <1>4, <2>1, <2>2 DEF Granted
<1> QED
  BY <1>1, <1>3, <1>4 DEF Snapshot

(* Every step keeps the calls typed and their snapshots true.              *)
LEMMA CallsStep == Inv /\ [Next]_vars => Calls'
<1> SUFFICES ASSUME Inv, [Next]_vars PROVE Calls'
  OBVIOUS
<1>1. ASSUME NEW r \in Report, NEW content \in Content, CreateReport(r, content)
      PROVE  Calls'
  <2>1. /\ call' = call /\ versions' = versions
        /\ \A k \in Report : report[k].status # "NONE" => report'[k] = report[k]
    BY <1>1 DEF CreateReport, Inv, Books, BooksType
  <2>2. \A c \in Caller : WellFormed(call[c].request) => WellFormed(call[c].request)'
    BY <2>1 DEF WellFormed
  <2>3. \A c \in Caller : WellFormed(call[c].request) /\ Granted(c) => Granted(c)'
    BY <2>1 DEF WellFormed, Granted
  <2> QED
    BY <2>1, <2>2, <2>3 DEF Inv, Calls, RequestInv, Snapshot
<1>2. ASSUME NEW c \in Caller, NEW q \in Updates \cup Submissions \cup Reviews, Ask(c, q)
      PROVE  Calls'
  <2>1. WellFormed(q) /\ Read(c, q, 1) /\ 1 \in 0..MaxAttempts
    BY <1>2, RequestsWellFormed DEF Ask
  <2> QED
    BY <2>1, ReadKeeps
<1>3. ASSUME NEW c \in Caller, AskAgain(c) PROVE Calls'
  <2>1. /\ WellFormed(call[c].request) /\ Read(c, call[c].request, call[c].attempt)
        /\ call[c].attempt \in 0..MaxAttempts
    BY <1>3 DEF AskAgain, Inv, Calls, RequestInv, CallType
  <2> QED
    BY <2>1, ReadKeeps
<1>4. ASSUME NEW c \in Caller, UpdateReport(c) \/ SubmitReport(c) \/ ReviewReport(c)
      PROVE  Calls'
  <2>1. /\ call' = Committed(c)
        /\ \A r \in Report \ {call[c].request.report} :
             report'[r] = report[r] /\ versions'[r] = versions[r]
    BY <1>4 DEF UpdateReport, SubmitReport, ReviewReport, Inv, Books, BooksType
  <2>2. WellFormed(call[c].request)
    BY <1>4, AtCommit DEF UpdateReport, SubmitReport, ReviewReport
  <2>3. report'[call[c].request.report].status # "NONE"
    <3>1. report \in [Report -> ReportType] /\ call[c].request.report \in Report
          /\ report[call[c].request.report].status # "NONE"
      BY <2>2 DEF Inv, Books, BooksType, WellFormed
    <3>2. CASE UpdateReport(c)
      BY <3>1, <3>2 DEF UpdateReport, ReportType
    <3>3. CASE SubmitReport(c)
      BY <3>1, <3>3 DEF SubmitReport, ReportType
    <3>4. CASE ReviewReport(c)
      BY <3>1, <3>4 DEF ReviewReport, ReportType
    <3> QED
      BY <1>4, <3>2, <3>3, <3>4
  <2> QED
    BY <2>1, <2>3, CommitKeeps
<1>5. ASSUME NEW c \in Caller, Retry(c) PROVE Calls'
  BY <1>5, RetryKeeps
<1>6. CASE UNCHANGED vars
  BY <1>6 DEF vars, Inv, Calls, RequestInv, WellFormed, Snapshot, Granted
<1> QED
  BY <1>1, <1>2, <1>3, <1>4, <1>5, <1>6 DEF Next

(* The initial state satisfies the invariant.                              *)
LEMMA InvInit == Init => Inv
BY BooksInit, IdleType DEF Init, Inv, Calls, RequestInv, Snapshot

(* Every step keeps the invariant.                                         *)
LEMMA InvStep == Inv /\ [Next]_vars => Inv'
BY CommitsAtOnce, BooksStep, CallsStep DEF Inv

-----------------------------------------------------------------------------
(* Reports, versions and requests keep their types, and no report has more *)
(* versions than the bound.                                                *)
THEOREM TypeCorrect == Spec => []TypeOK
<1>1. Inv => TypeOK
  BY DEF Inv, Books, BooksType, Calls, TypeOK
<1> QED
  BY <1>1, InvInit, InvStep, PTL DEF Spec

(* submitReport against updateReport: whatever overlaps, what a super      *)
(* admin reviews and approves is the content of the report.                *)
THEOREM ReportIsItsVersionHolds == Spec => []ReportIsItsVersion
<1>1. Inv => ReportIsItsVersion
  BY DEF Inv, Books
<1> QED
  BY <1>1, InvInit, InvStep, PTL DEF Spec

(* A version is never rewritten, nor the decision on it.                   *)
LEMMA VersionsKept ==
  ASSUME Books, AtOnce, NEW k \in Report, NEW v \in 1..Len(versions[k])
  PROVE  /\ v <= Len(versions'[k])
         /\ versions'[k][v].content = versions[k][v].content
         /\ versions[k][v].review # Unreviewed => versions'[k][v] = versions[k][v]
<1> USE DEF Books
<1>0. Len(versions[k]) \in Nat
  BY LenProperties DEF BooksType
<1>1. ASSUME NEW r \in Report, NEW content \in Content,
             Created(r, content) \/ Edited(r, content)
      PROVE  versions' = versions
  BY <1>1 DEF Created, Edited
<1>2. ASSUME NEW r \in Report, Submitted(r)
      PROVE  versions'[k][v] = versions[k][v] /\ v <= Len(versions'[k])
  BY <1>0, <1>2, OneVersionMore
<1>3. ASSUME NEW r \in Report, NEW action \in ReviewAction, Reviewed(r, action)
      PROVE  /\ v <= Len(versions'[k])
             /\ versions'[k][v].content = versions[k][v].content
             /\ versions[k][v].review # Unreviewed => versions'[k][v] = versions[k][v]
  <2>1. k # r \/ v # Len(versions[k]) => versions'[k][v] = versions[k][v] /\ v <= Len(versions'[k])
    BY <1>0, <1>3, OneDecisionMore
  <2>2. CASE k = r /\ v = Len(versions[k])
    <3>1. versions[k][v].review = Unreviewed
      BY <1>3, <2>2 DEF Reviewed, Ledger, Agrees, LastIs, LatestReview
    <3>2. /\ versions'[k][v] = Version(versions[k][v].content, action)
          /\ v <= Len(versions'[k])
      BY <1>0, <1>3, <2>2, OneDecisionMore
    <3> QED
      BY <3>1, <3>2 DEF Version
  <2> QED
    BY <2>1, <2>2
<1> QED
  BY <1>0, <1>1, <1>2, <1>3 DEF AtOnce

(* No update, submission or review rewrites a submitted version, nor a     *)
(* decision on one.                                                        *)
THEOREM VersionsAreImmutableHolds == Spec => VersionsAreImmutable
<1> DEFINE Kept == \A r \in Report : \A v \in 1..Len(versions[r]) :
                     /\ v <= Len(versions'[r])
                     /\ versions'[r][v].content = versions[r][v].content
                     /\ versions[r][v].review # Unreviewed => versions'[r][v] = versions[r][v]
<1>1. Inv /\ [Next]_vars => [Kept]_vars
  <2> SUFFICES ASSUME Inv, [Next]_vars, ~UNCHANGED vars PROVE Kept
    OBVIOUS
  <2>1. CASE UNCHANGED <<report, versions>>
    <3>1. \A r \in Report : Len(versions[r]) \in Nat
      BY LenProperties DEF Inv, Books, BooksType
    <3> QED
      BY <2>1, <3>1
  <2>2. CASE AtOnce
    BY <2>2, VersionsKept DEF Inv
  <2> QED
    BY <2>1, <2>2, CommitsAtOnce
<1> QED
  BY <1>1, InvInit, InvStep, PTL DEF Spec, VersionsAreImmutable

-----------------------------------------------------------------------------
(* The review cycle: what ReviewCycle would see of the reports             *)

(* A decision has been taken on each version but perhaps the last.         *)
LEMMA DecisionsLength ==
  ASSUME BooksType, Ledger, NEW r \in Report
  PROVE  /\ DecidedCount(r) \in Nat
         /\ DecisionsOf(r) \in Seq(ReviewAction \cup {Unreviewed})
         /\ Len(DecisionsOf(r)) = DecidedCount(r)
         /\ \A v \in 1..DecidedCount(r) : DecisionsOf(r)[v] = versions[r][v].review
<1>1. versions[r] \in Seq(VersionType) /\ Len(versions[r]) \in Nat
  BY LenProperties DEF BooksType
<1>2. DecidedCount(r) \in Nat /\ DecidedCount(r) <= Len(versions[r])
  <2>1. report[r].status = "SUBMITTED" => Len(versions[r]) # 0
    BY <1>1, EmptySeq DEF Ledger, Agrees, LastIs
  <2> QED
    BY <1>1, <2>1 DEF DecidedCount
<1>3. \A v \in 1..DecidedCount(r) : versions[r][v].review \in ReviewAction \cup {Unreviewed}
  <2>1. \A v \in 1..DecidedCount(r) : versions[r][v] \in VersionType
    BY <1>1, <1>2, ElementOfSeq
  <2> QED
    BY <2>1 DEF VersionType
<1>4. DecisionsOf(r) \in [1..DecidedCount(r) -> ReviewAction \cup {Unreviewed}]
  BY <1>3 DEF DecisionsOf
<1>5. DecisionsOf(r) \in Seq(ReviewAction \cup {Unreviewed})
  BY <1>2, <1>4, SeqDef
<1>6. Len(DecisionsOf(r)) = DecidedCount(r)
  BY <1>2, <1>4, <1>5, LenProperties
<1> QED
  BY <1>2, <1>5, <1>6 DEF DecisionsOf

(* Reports start where the review cycle starts.                            *)
LEMMA CycleStarts == Init => Cycle!CycleInit
<1> SUFFICES ASSUME Init PROVE Cycle!CycleInit
  OBVIOUS
<1>1. \A r \in Report : PhaseOf(r) = "DRAFTING" /\ Len(versions[r]) = 0
  BY EmptySeq DEF Init, PhaseOf, NewReport
<1>2. ASSUME NEW r \in Report PROVE DecisionsOf(r) = << >>
  <2>1. DecidedCount(r) = 0 /\ Ledger /\ BooksType
    BY <1>1, BooksInit DEF Init, DecidedCount, NewReport, Books
  <2>2. Len(DecisionsOf(r)) = 0 /\ DecisionsOf(r) \in Seq(ReviewAction \cup {Unreviewed})
    BY <2>1, DecisionsLength
  <2> QED
    BY <2>2, EmptySeq
<1> QED
  BY <1>1, <1>2 DEF Cycle!CycleInit

(* What one report goes through does not change how the others are seen.   *)
LEMMA OthersLookTheSame ==
  ASSUME NEW r \in Report, NEW k \in Report \ {r},
         versions'[k] = versions[k], report'[k] = report[k]
  PROVE  /\ PhaseOf(k)' = PhaseOf(k) /\ Len(versions[k])' = Len(versions[k])
         /\ DecisionsOf(k)' = DecisionsOf(k)
BY DEF PhaseOf, DecisionsOf, DecidedCount

(* A submission is the handing in of a version, in the abstract cycle.     *)
LEMMA SubmittedHandsIn ==
  ASSUME Books, NEW r \in Report, Submitted(r)
  PROVE  Cycle!HandIn(r)
<1> USE DEF Books
<1>1. /\ Len(versions'[r]) = Len(versions[r]) + 1
      /\ Len(versions[r]) \in Nat
      /\ \A v \in 1..Len(versions[r]) : versions'[r][v] = versions[r][v]
      /\ \A k \in Report \ {r} : versions'[k] = versions[k] /\ report'[k] = report[k]
      /\ report'[r].status = "SUBMITTED"
  BY OneVersionMore, LenProperties DEF BooksType
<1>2. PhaseOf(r) \in {"DRAFTING", "REVISING"} /\ PhaseOf(r)' = "AWAITING"
  BY <1>1 DEF Submitted, Submittable, PhaseOf
<1>3. DecidedCount(r)' = DecidedCount(r) /\ DecidedCount(r) = Len(versions[r])
  BY <1>1 DEF Submitted, Submittable, DecidedCount
<1>4. DecisionsOf(r)' = DecisionsOf(r)
  BY <1>1, <1>3 DEF DecisionsOf
<1>5. \A k \in Report \ {r} : /\ PhaseOf(k)' = PhaseOf(k)
                              /\ Len(versions[k])' = Len(versions[k])
                              /\ DecisionsOf(k)' = DecisionsOf(k)
  BY <1>1, OthersLookTheSame
<1> QED
  BY <1>1, <1>2, <1>4, <1>5 DEF Cycle!HandIn

(* A review is a decision of the abstract cycle.                           *)
LEMMA ReviewedDecides ==
  ASSUME Books, NEW r \in Report, NEW action \in ReviewAction, Reviewed(r, action)
  PROVE  Cycle!Decide(r, action)
<1> USE DEF Books
<1> DEFINE n == Len(versions[r])
<1>1. /\ Len(versions'[r]) = n /\ n \in Nat \ {0}
      /\ versions'[r][n] = Version(versions[r][n].content, action)
      /\ \A v \in 1..n : v # n => versions'[r][v] = versions[r][v]
      /\ \A k \in Report \ {r} : versions'[k] = versions[k] /\ report'[k] = report[k]
      /\ report'[r].status = IF action = "APPROVE" THEN "APPROVED" ELSE "REVISION_REQUIRED"
  BY OneDecisionMore
<1>2. PhaseOf(r) = "AWAITING" /\ report[r].status = "SUBMITTED"
  BY DEF Reviewed, PhaseOf
<1>3. PhaseOf(r)' = IF action = "APPROVE" THEN "APPROVED" ELSE "REVISING"
  BY <1>1 DEF PhaseOf, ReviewAction
<1>4. DecidedCount(r) = n - 1 /\ DecidedCount(r)' = n
  BY <1>1, <1>2 DEF DecidedCount
<1>5. DecisionsOf(r)' = Append(DecisionsOf(r), action)
  <2> DEFINE D == ReviewAction \cup {Unreviewed}
             old == DecisionsOf(r)
             new == DecisionsOf(r)'
  <2>1. /\ old \in Seq(D) /\ Len(old) = n - 1
        /\ \A v \in 1..(n - 1) : old[v] = versions[r][v].review
    BY <1>4, DecisionsLength
  <2>2. new = [v \in 1..n |-> versions'[r][v].review]
    BY <1>4 DEF DecisionsOf
  <2>3. \A v \in 1..n : new[v] = IF v = n THEN action ELSE old[v]
    BY <1>1, <2>1, <2>2 DEF Version
  <2>4. \A v \in 1..n : new[v] \in D
    BY <2>1, <2>3, ElementOfSeq
  <2>5. new \in [1..n -> D]
    BY <2>2, <2>4
  <2>6. new \in Seq(D) /\ Len(new) = n
    BY <1>1, <2>5, SeqDef, LenProperties
  <2>7. /\ Append(old, action) \in Seq(D) /\ Len(Append(old, action)) = n
        /\ \A v \in 1..n : Append(old, action)[v] = IF v = n THEN action ELSE old[v]
    BY <1>1, <2>1, AppendProperties
  <2> HIDE DEF D, old, new
  <2>8. new = Append(old, action)
    BY <2>3, <2>6, <2>7, SeqEqual
  <2> QED
    BY <2>8 DEF new, old
<1>6. \A k \in Report \ {r} : /\ PhaseOf(k)' = PhaseOf(k)
                              /\ Len(versions[k])' = Len(versions[k])
                              /\ DecisionsOf(k)' = DecisionsOf(k)
  BY <1>1, OthersLookTheSame
<1> QED
  BY <1>1, <1>2, <1>3, <1>5, <1>6 DEF Cycle!Decide

(* Every step is a step of the review cycle, or none.                      *)
LEMMA CycleStep ==
  ASSUME Books, UNCHANGED <<report, versions>> \/ AtOnce
  PROVE  [Cycle!CycleNext]_(Cycle!cycleVars)
<1> USE DEF Books
<1>1. CASE UNCHANGED <<report, versions>>
  BY <1>1 DEF Cycle!cycleVars, PhaseOf, DecisionsOf, DecidedCount
<1>2. ASSUME NEW r \in Report, NEW content \in Content,
             Created(r, content) \/ Edited(r, content)
      PROVE  UNCHANGED Cycle!cycleVars
  <2>1. versions' = versions /\ \A k \in Report \ {r} : report'[k] = report[k]
    BY <1>2 DEF Created, Edited, BooksType
  <2>2. \/ report'[r].status = report[r].status
        \/ report[r].status = "NONE" /\ report'[r].status = "DRAFT"
    BY <1>2 DEF Created, Edited, BooksType, ReportType
  <2>3. PhaseOf(r)' = PhaseOf(r) /\ DecidedCount(r)' = DecidedCount(r)
    BY <2>1, <2>2 DEF PhaseOf, DecidedCount
  <2>4. \A k \in Report : PhaseOf(k)' = PhaseOf(k) /\ DecisionsOf(k)' = DecisionsOf(k)
    BY <2>1, <2>3, OthersLookTheSame DEF DecisionsOf
  <2> QED
    BY <2>1, <2>4 DEF Cycle!cycleVars
<1>3. ASSUME NEW r \in Report, Submitted(r) PROVE Cycle!CycleNext
  BY <1>3, SubmittedHandsIn DEF Cycle!CycleNext
<1>4. ASSUME NEW r \in Report, NEW action \in ReviewAction, Reviewed(r, action)
      PROVE  Cycle!CycleNext
  BY <1>4, ReviewedDecides DEF Cycle!CycleNext, Cycle!Decision, ReviewAction
<1> QED
  BY <1>1, <1>2, <1>3, <1>4 DEF AtOnce

(* submitReport and reviewReport, however their transactions overlap and   *)
(* are retried, go through the cycle that the tasks go through as well.    *)
THEOREM ImplementsReviewCycleHolds == Spec => ImplementsReviewCycle
<1>1. Inv /\ [Next]_vars => [Cycle!CycleNext]_(Cycle!cycleVars)
  BY CommitsAtOnce, CycleStep DEF Inv
<1> QED
  BY <1>1, CycleStarts, InvInit, InvStep, PTL DEF Spec, ImplementsReviewCycle, Cycle!CycleSpec
=============================================================================
