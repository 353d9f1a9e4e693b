---------------------------- MODULE TaskWorkflow ----------------------------
(***************************************************************************)
(* The life of a task: creation, assignment, self claim, execution, direct *)
(* completion, submission and review, together with the two outside        *)
(* changes that meet it (accounts change status, teams change admin).      *)
(*                                                                         *)
(* Every mutation of the code runs in one SERIALIZABLE transaction, hence  *)
(* one atomic action per handler.  What is NOT read in that transaction is *)
(* the viewer: the guards load it before the handler starts.  `requests`   *)
(* holds the users with a request past the guards, so a handler may run    *)
(* for a user who has been suspended in the meantime.                      *)
(***************************************************************************)
EXTENDS Naturals, Sequences, FiniteSets

CONSTANTS SuperAdmin, Admin, Member,   \* the users of each role; roles never change
          Team, NoTeam, Task,
          NoKind,                      \* the kind of a task that does not exist yet
          MaxVersion                   \* bound: submissions per task

ASSUME RolesAssumption ==
  /\ SuperAdmin \cap Admin = {}
  /\ SuperAdmin \cap Member = {}
  /\ Admin \cap Member = {}
ASSUME NoTeamAssumption == NoTeam \notin Team
ASSUME NoKindAssumption == NoKind \notin [scope : {"TEAM", "GLOBAL"}, mode : {"DIRECT", "REVIEW_REQUIRED"},
                                         recurring : BOOLEAN, team : Team \cup {NoTeam},
                                         owner : SuperAdmin \cup Admin \cup Member]
ASSUME MaxVersionAssumption == MaxVersion \in Nat

User == SuperAdmin \cup Admin \cup Member

VARIABLES
  active,       \* the users with status ACTIVE
  teamAdmin,    \* team.adminId
  requests,     \* users with a request that has passed the guards
  status,       \* task.status, "NONE" before the task exists
  kind,         \* what never changes of a task: scope, completionMode, recurrence, team, creator
  selfClaim,    \* task.allowSelfClaim
  responsible,  \* responsible users of the assignments with unassignedAt = null
  history,      \* the status history rows, oldest first
  submissions   \* the submissions (version = index) with their review

taskVars == <<status, kind, selfClaim, responsible, history, submissions>>
vars == <<active, teamAdmin, requests, taskVars>>

Terminal == {"COMPLETED", "CANCELLED"}
AwaitingReview == {"SUBMITTED", "RESUBMITTED"}
TaskStatus == {"PENDING", "ASSIGNED", "IN_PROGRESS", "UNDER_REVIEW", "REVISION_REQUIRED"}
              \cup AwaitingReview \cup Terminal

Kind == [scope : {"TEAM", "GLOBAL"}, mode : {"DIRECT", "REVIEW_REQUIRED"},
         recurring : BOOLEAN, team : Team \cup {NoTeam}, owner : User]

ReviewAction == {"APPROVE", "REQUEST_REVISION"}
Unreviewed == "UNREVIEWED"
Submission == [by : User, review : ReviewAction \cup {Unreviewed}, reviewer : SUBSET User]
Step == [from : TaskStatus \cup {"NONE"}, to : TaskStatus]

Moved(from, to) == [from |-> from, to |-> to]
Final(seq) == seq[Len(seq)]
HandledFor(u) == requests' = requests \ {u}

-----------------------------------------------------------------------------
Init ==
  /\ active = User
  /\ teamAdmin \in [Team -> Admin]
  /\ requests = {}
  /\ status = [t \in Task |-> "NONE"]
  /\ kind = [t \in Task |-> NoKind]
  /\ selfClaim = [t \in Task |-> FALSE]
  /\ responsible = [t \in Task |-> {}]
  /\ history = [t \in Task |-> << >>]
  /\ submissions = [t \in Task |-> << >>]

(* Mistakes: each is a definition below with one plausible error, put in   *)
(* its place to see the property that catches it.                          *)
EligibleAnyRole(u, mode) == u \in active
CreationHistoryWithoutAssignment(chosen) == <<Moved("NONE", "PENDING")>>
AssignableUnlessCancelled(t) == status[t] \notin {"NONE", "CANCELLED"}
ReassignedWithoutClosing(open, current, r) == open \cup {r}
ClaimantOfStaleViewer(u) == u \in Member
SubmittableUntilReviewed(t) ==
  status[t] \in {"IN_PROGRESS", "REVISION_REQUIRED"} \cup AwaitingReview
ReviewableAgain(t, v) == v = Len(submissions[t])
MayAlwaysDeactivate(a) == TRUE
ActiveUserAsAdmin(a) == a \in active
-----------------------------------------------------------------------------
(* ViewerContextGuard and AccountStatusGuard let an active user's request  *)
(* through; the handler runs at some later time.                           *)
PassGuards(u) ==
  /\ u \in active
  /\ requests' = requests \cup {u}
  /\ UNCHANGED <<active, teamAdmin, taskVars>>

(* A handler that ends without a commit: an early return, or the           *)
(* transaction given up after its retries.                                 *)
Refuse(u) ==
  /\ u \in requests
  /\ HandledFor(u)
  /\ UNCHANGED <<active, teamAdmin, taskVars>>

(* resolveResponsibleUser: active, and a member when work will be reviewed *)
Eligible(u, mode) == u \in active /\ (mode = "REVIEW_REQUIRED" => u \in Member)

(* The checks of createTask on its input; `chosen` holds the responsible   *)
(* user if the request names one.                                          *)
CreationAllowed(u, k, chosen, claimFlag) ==
  /\ u \in SuperAdmin \cup Admin
  /\ k.scope = "TEAM" => /\ k.team \in Team
                         /\ u \in Admin => teamAdmin[k.team] = u
  /\ k.scope = "GLOBAL" => k.team = NoTeam /\ u \in SuperAdmin /\ k.mode = "DIRECT"
  /\ k.recurring => k.mode = "DIRECT" /\ chosen # {}
  /\ \A r \in chosen : Eligible(r, k.mode)
  /\ (k.scope = "TEAM" /\ claimFlag) => chosen = {} /\ ~k.recurring

InitialSelfClaim(k, chosen, claimFlag) ==
  /\ chosen = {} /\ ~k.recurring
  /\ k.scope = "GLOBAL" \/ claimFlag

CreationHistory(chosen) ==
  IF chosen = {} THEN <<Moved("NONE", "PENDING")>>
                 ELSE <<Moved("NONE", "PENDING"), Moved("PENDING", "ASSIGNED")>>

Choice == {{}} \cup {{r} : r \in User}

CreateTask(u, t) ==
  /\ u \in requests
  /\ status[t] = "NONE"
  /\ \E k \in Kind, chosen \in Choice, claimFlag \in BOOLEAN :
       /\ k.owner = u
       /\ CreationAllowed(u, k, chosen, claimFlag)
       /\ status' = [status EXCEPT ![t] = IF chosen = {} THEN "PENDING" ELSE "ASSIGNED"]
       /\ kind' = [kind EXCEPT ![t] = k]
       /\ selfClaim' = [selfClaim EXCEPT ![t] = InitialSelfClaim(k, chosen, claimFlag)]
       /\ responsible' = [responsible EXCEPT ![t] = chosen]
       /\ history' = [history EXCEPT ![t] = CreationHistory(chosen)]
  /\ HandledFor(u)
  /\ UNCHANGED <<active, teamAdmin, submissions>>

(* The historical import writes finished tasks: one history row, an open   *)
(* assignment, the schema's default completion mode, no submission.        *)
ImportedKind(owner, team) ==
  [scope |-> "TEAM", mode |-> "REVIEW_REQUIRED", recurring |-> FALSE,
   team |-> team, owner |-> owner]

ImportTask(u, t) ==
  /\ u \in requests /\ u \in SuperAdmin
  /\ status[t] = "NONE"
  /\ \E owner \in User, team \in Team, m \in Member, final \in Terminal :
       /\ status' = [status EXCEPT ![t] = final]
       /\ kind' = [kind EXCEPT ![t] = ImportedKind(owner, team)]
       /\ responsible' = [responsible EXCEPT ![t] = {m}]
       /\ history' = [history EXCEPT ![t] = <<Moved("NONE", final)>>]
  /\ HandledFor(u)
  /\ UNCHANGED <<active, teamAdmin, selfClaim, submissions>>

(* The task's creator, or any super admin; the controllers let no member in *)
MayManage(u, t) == u \in SuperAdmin \/ (u \in Admin /\ kind[t].owner = u)

Assignable(t) == status[t] \in {"PENDING", "ASSIGNED"}

Reassigned(open, current, r) == (open \ current) \cup {r}

(* assignTask: closes the current assignment, if any, and opens another    *)
AssignTask(u, t, r) ==
  /\ u \in requests
  /\ Assignable(t)
  /\ MayManage(u, t)
  /\ Eligible(r, kind[t].mode)
  /\ \E current \in IF responsible[t] = {} THEN {{}} ELSE {{c} : c \in responsible[t]} :
       /\ r \notin current
       /\ responsible' = [responsible EXCEPT ![t] = Reassigned(@, current, r)]
  /\ history' = IF status[t] = "PENDING"
                THEN [history EXCEPT ![t] = Append(@, Moved("PENDING", "ASSIGNED"))]
                ELSE history
  /\ status' = [status EXCEPT ![t] = "ASSIGNED"]
  /\ selfClaim' = [selfClaim EXCEPT ![t] = FALSE]
  /\ HandledFor(u)
  /\ UNCHANGED <<active, teamAdmin, kind, submissions>>

(* isCanonicalGlobalOpenSelfClaimTask                                      *)
CanonicalGlobal(t) ==
  kind[t].scope = "GLOBAL" /\ status[t] = "PENDING" /\ ~kind[t].recurring

UpdateSelfClaim(u, t, enabled) ==
  /\ u \in requests
  /\ status[t] = "PENDING"
  /\ MayManage(u, t)
  /\ ~kind[t].recurring
  /\ responsible[t] = {}
  /\ CanonicalGlobal(t) => enabled
  /\ selfClaim' = [selfClaim EXCEPT ![t] = enabled]
  /\ HandledFor(u)
  /\ UNCHANGED <<active, teamAdmin, status, kind, responsible, history, submissions>>

Claimant(u) == u \in Member /\ u \in active

(* claimTask: the one handler that reads its own user again in the         *)
(* transaction.  allowSelfClaim stays as it is.                            *)
ClaimTask(u, t) ==
  /\ u \in requests /\ u \in Member
  /\ status[t] = "PENDING"
  /\ ~kind[t].recurring
  /\ selfClaim[t]
  /\ responsible[t] = {}
  /\ Claimant(u)
  /\ responsible' = [responsible EXCEPT ![t] = @ \cup {u}]
  /\ status' = [status EXCEPT ![t] = "ASSIGNED"]
  /\ history' = [history EXCEPT ![t] = Append(@, Moved("PENDING", "ASSIGNED"))]
  /\ HandledFor(u)
  /\ UNCHANGED <<active, teamAdmin, kind, selfClaim, submissions>>

StartTask(u, t) ==
  /\ u \in requests
  /\ u \in responsible[t]
  /\ status[t] = "ASSIGNED"
  /\ status' = [status EXCEPT ![t] = "IN_PROGRESS"]
  /\ history' = [history EXCEPT ![t] = Append(@, Moved("ASSIGNED", "IN_PROGRESS"))]
  /\ HandledFor(u)
  /\ UNCHANGED <<active, teamAdmin, kind, selfClaim, responsible, submissions>>

MayDirectComplete(u, t) ==
  \/ u \in responsible[t]
  \/ u \in SuperAdmin
  \/ u \in Admin /\ kind[t].scope = "TEAM" /\ teamAdmin[kind[t].team] = u

CompleteTask(u, t) ==
  /\ u \in requests
  /\ status[t] = "IN_PROGRESS"
  /\ responsible[t] # {}
  /\ MayDirectComplete(u, t)
  /\ kind[t].mode = "DIRECT"
  /\ status' = [status EXCEPT ![t] = "COMPLETED"]
  /\ history' = [history EXCEPT ![t] = Append(@, Moved("IN_PROGRESS", "COMPLETED"))]
  /\ HandledFor(u)
  /\ UNCHANGED <<active, teamAdmin, kind, selfClaim, responsible, submissions>>

Submittable(t) == status[t] \in {"IN_PROGRESS", "REVISION_REQUIRED"}

(* createSubmission, the first version or one more after a revision        *)
CreateSubmission(u, t) ==
  LET resubmission == status[t] = "REVISION_REQUIRED"
      next == IF resubmission THEN "RESUBMITTED" ELSE "SUBMITTED"
  IN
  /\ u \in requests /\ u \in Member
  /\ u \in responsible[t]
  /\ Submittable(t)
  /\ kind[t].mode # "DIRECT"
  /\ kind[t].team # NoTeam
  /\ resubmission => submissions[t] # << >>
  /\ Len(submissions[t]) < MaxVersion
  /\ submissions' = [submissions EXCEPT ![t] =
                       Append(@, [by |-> u, review |-> Unreviewed, reviewer |-> {}])]
  /\ status' = [status EXCEPT ![t] = next]
  /\ history' = [history EXCEPT ![t] = Append(@, Moved(status[t], next))]
  /\ HandledFor(u)
  /\ UNCHANGED <<active, teamAdmin, kind, selfClaim, responsible>>

Reviewable(t, v) ==
  /\ v = Len(submissions[t])
  /\ submissions[t][v].review = Unreviewed
  /\ status[t] \in AwaitingReview

Decided(s, action, u) == [by |-> s.by, review |-> action, reviewer |-> {u}]

(* review of version v: UNDER_REVIEW is entered and left in one transaction *)
Review(u, t, v, action) ==
  LET outcome == IF action = "APPROVE" THEN "COMPLETED" ELSE "REVISION_REQUIRED"
  IN
  /\ u \in requests /\ u \in Admin
  /\ v \in 1..Len(submissions[t])
  /\ kind[t].mode # "DIRECT"
  /\ kind[t].team # NoTeam
  /\ teamAdmin[kind[t].team] = u
  /\ Reviewable(t, v)
  /\ submissions' = [submissions EXCEPT ![t] =
                       [submissions[t] EXCEPT ![v] = Decided(submissions[t][v], action, u)]]
  /\ status' = [status EXCEPT ![t] = outcome]
  /\ history' = [history EXCEPT ![t] =
                   Append(Append(@, Moved(status[t], "UNDER_REVIEW")),
                          Moved("UNDER_REVIEW", outcome))]
  /\ HandledFor(u)
  /\ UNCHANGED <<active, teamAdmin, kind, selfClaim, responsible>>

-----------------------------------------------------------------------------
(* The outside changes.  `s` is the super admin whose request it is.       *)

UpdateMemberStatus(s, m) ==
  /\ s \in requests /\ s \in SuperAdmin
  /\ active' = IF m \in active THEN active \ {m} ELSE active \cup {m}
  /\ HandledFor(s)
  /\ UNCHANGED <<teamAdmin, taskVars>>

MayDeactivate(a) == \A team \in Team : teamAdmin[team] # a

(* updateAdminStatus refuses to deactivate an admin who owns a team        *)
UpdateAdminStatus(s, a) ==
  /\ s \in requests /\ s \in SuperAdmin
  /\ a \in active => MayDeactivate(a)
  /\ active' = IF a \in active THEN active \ {a} ELSE active \cup {a}
  /\ HandledFor(s)
  /\ UNCHANGED <<teamAdmin, taskVars>>

(* resolveActiveAdminId                                                    *)
ActiveAdmin(a) == a \in Admin /\ a \in active

ReassignTeamAdmin(s, team, a) ==
  /\ s \in requests /\ s \in SuperAdmin
  /\ ActiveAdmin(a)
  /\ teamAdmin[team] # a
  /\ teamAdmin' = [teamAdmin EXCEPT ![team] = a]
  /\ HandledFor(s)
  /\ UNCHANGED <<active, taskVars>>

Next ==
  \/ \E u \in User : PassGuards(u) \/ Refuse(u)
  \/ \E u \in User, t \in Task : CreateTask(u, t) \/ ImportTask(u, t)
  \/ \E u, r \in User, t \in Task : AssignTask(u, t, r)
  \/ \E u \in User, t \in Task, enabled \in BOOLEAN : UpdateSelfClaim(u, t, enabled)
  \/ \E u \in User, t \in Task :
       ClaimTask(u, t) \/ StartTask(u, t) \/ CompleteTask(u, t) \/ CreateSubmission(u, t)
  \/ \E u \in User, t \in Task, v \in 1..MaxVersion, action \in ReviewAction :
       Review(u, t, v, action)
  \/ \E s \in User, m \in Member : UpdateMemberStatus(s, m)
  \/ \E s \in User, a \in Admin : UpdateAdminStatus(s, a)
  \/ \E s, a \in User, team \in Team : ReassignTeamAdmin(s, team, a)

Spec == Init /\ [][Next]_vars

-----------------------------------------------------------------------------
(* Properties *)

TypeOK ==
  /\ active \subseteq User
  /\ teamAdmin \in [Team -> Admin]
  /\ requests \subseteq User
  /\ status \in [Task -> TaskStatus \cup {"NONE"}]
  /\ kind \in [Task -> Kind \cup {NoKind}]
  /\ selfClaim \in [Task -> BOOLEAN]
  /\ responsible \in [Task -> SUBSET User]
  /\ history \in [Task -> Seq(Step)]
  /\ submissions \in [Task -> Seq(Submission)]

Exists(t) == status[t] # "NONE"

(* A task has nobody responsible while it is open for assignment and       *)
(* exactly one person afterwards, whichever of creation, assignment,       *)
(* reassignment, claim and import put them there: the partial unique index *)
(* on open assignments is never what saves the code.                       *)
OneResponsible ==
  \A t \in Task :
    /\ responsible[t] = {} <=> status[t] \in {"NONE", "PENDING"}
    /\ \A u, w \in responsible[t] : u = w

(* The steps of the documented lifecycle, plus direct completion.          *)
LifecycleSteps ==
  { Moved("PENDING", "ASSIGNED"), Moved("ASSIGNED", "IN_PROGRESS"),
    Moved("IN_PROGRESS", "SUBMITTED"), Moved("IN_PROGRESS", "COMPLETED"),
    Moved("SUBMITTED", "UNDER_REVIEW"), Moved("RESUBMITTED", "UNDER_REVIEW"),
    Moved("UNDER_REVIEW", "COMPLETED"), Moved("UNDER_REVIEW", "REVISION_REQUIRED"),
    Moved("REVISION_REQUIRED", "RESUBMITTED") }

(* The status history is the path the task really took: it starts with the *)
(* creation (or the import of a finished task), each row leaves the status *)
(* the row before it reached, every later row is a step of the documented  *)
(* lifecycle, and the last row reached the current status.                 *)
HistoryIsThePath ==
  \A t \in Task : Exists(t) =>
    LET h == history[t] IN
    /\ h # << >>
    /\ h[1].from = "NONE" /\ h[1].to \in {"PENDING"} \cup Terminal
    /\ \A i \in 1..Len(h) : i > 1 => h[i] \in LifecycleSteps /\ h[i].from = h[i-1].to
    /\ Final(h).to = status[t]

Imported(t) == history[t][1].to \in Terminal

(* The review ledger and the status say the same.  A decision is due       *)
(* exactly when the latest version has none; every earlier version was     *)
(* sent back; the latest verdict is the one the status shows; only an      *)
(* approval (or the import) completes reviewed work; and direct work never *)
(* enters the ledger.                                                      *)
ReviewLedger ==
  \A t \in Task : Exists(t) =>
    LET s == submissions[t] IN
    /\ kind[t].mode = "DIRECT" => s = << >>
    /\ \A v \in 1..Len(s) : v < Len(s) => s[v].review = "REQUEST_REVISION"
    /\ status[t] \in AwaitingReview <=> (s # << >> /\ Final(s).review = Unreviewed)
    /\ status[t] = "REVISION_REQUIRED" <=>
         (s # << >> /\ Final(s).review = "REQUEST_REVISION")
    /\ (s # << >> /\ Final(s).review = "APPROVE") => status[t] = "COMPLETED"
    /\ (status[t] = "COMPLETED" /\ kind[t].mode = "REVIEW_REQUIRED" /\ ~Imported(t))
         => (s # << >> /\ Final(s).review = "APPROVE")
    /\ status[t] = "SUBMITTED" => Len(s) = 1
    /\ status[t] = "RESUBMITTED" => Len(s) > 1

(* All versions of a task come from the one person who is responsible for  *)
(* it now: once work was handed in, no reassignment can slip in before or  *)
(* between the versions.                                                   *)
SingleAuthor ==
  \A t \in Task : \A v \in 1..Len(submissions[t]) :
    submissions[t][v].by \in responsible[t]

(* Handed-in work always has somebody who may decide on it: the team's     *)
(* present admin is an active admin, although the team may have been       *)
(* reassigned and accounts deactivated since.                              *)
ReviewerExists ==
  \A t \in Task : status[t] \in AwaitingReview =>
    /\ kind[t].team \in Team
    /\ teamAdmin[kind[t].team] \in active \cap Admin

(* Open work can always go on.  Reviewed work under way is with a member,  *)
(* on a team's task: only members submit, every other user would be stuck  *)
(* with it.  An unassigned global task is open to every member's own       *)
(* claim, and a recurring task is never unassigned.                        *)
WorkCanGoOn ==
  \A t \in Task :
    /\ (status[t] \in {"IN_PROGRESS", "REVISION_REQUIRED"} /\ kind[t].mode = "REVIEW_REQUIRED")
         => responsible[t] \subseteq Member /\ kind[t].team \in Team
    /\ status[t] = "PENDING" =>
         /\ ~kind[t].recurring
         /\ kind[t].scope = "GLOBAL" => selfClaim[t]

(* A finished task never changes again: not its status, its people, its    *)
(* history or its reviews.                                                 *)
FinishedIsFinal ==
  [][\A t \in Task : status[t] \in Terminal =>
       /\ status'[t] = status[t]
       /\ kind'[t] = kind[t]
       /\ selfClaim'[t] = selfClaim[t]
       /\ responsible'[t] = responsible[t]
       /\ history'[t] = history[t]
       /\ submissions'[t] = submissions[t]]_vars

(* Work is handed only to an account that is active at that very moment,   *)
(* whoever hands it over and however old their request is.  Imported tasks *)
(* are finished, so nothing is handed over.                                *)
WorkGoesToActiveUsers ==
  [][\A t \in Task : \A u \in responsible'[t] \ responsible[t] :
       u \in active \/ status'[t] \in Terminal]_vars

(* The review workflow of tasks, as an implementation of ReviewCycle.      *)
PhaseOf(t) ==
  IF status[t] \in AwaitingReview THEN "AWAITING"
  ELSE IF status[t] = "REVISION_REQUIRED" THEN "REVISING"
  ELSE IF submissions[t] # << >> THEN "APPROVED" ELSE "DRAFTING"

(* Only the latest version can be without a decision.                      *)
DecidedCount(t) ==
  IF status[t] \in AwaitingReview THEN Len(submissions[t]) - 1 ELSE Len(submissions[t])
DecisionsOf(t) == [v \in 1..DecidedCount(t) |-> submissions[t][v].review]

Cycle == INSTANCE ReviewCycle WITH
           Item <- Task,
           phase <- [t \in Task |-> PhaseOf(t)],
           versions <- [t \in Task |-> Len(submissions[t])],
           decisions <- [t \in Task |-> DecisionsOf(t)]

(* Submission and review of tasks keep the promises of ReviewCycle.        *)
ImplementsReviewCycle == Cycle!CycleSpec
=============================================================================
