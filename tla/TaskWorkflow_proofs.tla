------------------------ MODULE TaskWorkflow_proofs ------------------------
(***************************************************************************)
(* Proofs about TaskWorkflow, and about what Measures makes of its state,  *)
(* for any users, teams, tasks and versions.                               *)
(***************************************************************************)
EXTENDS Measures, SequenceTheorems, FiniteSetTheorems, WellFoundedInduction, TLAPS

-----------------------------------------------------------------------------
(* Every row a handler appends is a well-formed history step.              *)
LEMMA MovedIsStep ==
  ASSUME NEW a \in TaskStatus \cup {"NONE"}, NEW b \in TaskStatus
  PROVE  Moved(a, b) \in Step
BY DEF Moved, Step

(* The one or two history rows of a creation are well formed.              *)
LEMMA CreationHistoryType ==
  ASSUME NEW chosen
  PROVE  CreationHistory(chosen) \in Seq(Step)
BY MovedIsStep DEF CreationHistory, TaskStatus

(* Type correctness of the whole workflow: no handler ever writes a value  *)
(* outside the domain its column has.                                      *)
THEOREM TypeCorrect == Spec => []TypeOK
<1>1. Init => TypeOK
  BY DEF Init, TypeOK, User
<1>2. TypeOK /\ [Next]_vars => TypeOK'
  <2> SUFFICES ASSUME TypeOK, [Next]_vars PROVE TypeOK'
    OBVIOUS
  <2> USE DEF TypeOK
  <2>1. ASSUME NEW u \in User, PassGuards(u) \/ Refuse(u) PROVE TypeOK'
    BY <2>1 DEF PassGuards, Refuse, HandledFor, taskVars
  <2>2. ASSUME NEW u \in User, NEW t \in Task, CreateTask(u, t) PROVE TypeOK'
    <3>1. PICK k \in Kind, chosen \in Choice, claimFlag \in BOOLEAN :
            /\ status' = [status EXCEPT ![t] = IF chosen = {} THEN "PENDING" ELSE "ASSIGNED"]
            /\ kind' = [kind EXCEPT ![t] = k]
            /\ selfClaim' = [selfClaim EXCEPT ![t] = InitialSelfClaim(k, chosen, claimFlag)]
            /\ responsible' = [responsible EXCEPT ![t] = chosen]
            /\ history' = [history EXCEPT ![t] = CreationHistory(chosen)]
      BY <2>2 DEF CreateTask
    <3>2. chosen \subseteq User
      BY <3>1 DEF Choice
    <3>3. InitialSelfClaim(k, chosen, claimFlag) \in BOOLEAN
      BY DEF InitialSelfClaim
    <3>4. CreationHistory(chosen) \in Seq(Step)
      BY CreationHistoryType
    <3>5. selfClaim' \in [Task -> BOOLEAN]
      BY <3>1, <3>3
    <3>6. status' \in [Task -> TaskStatus \cup {"NONE"}] /\ kind' \in [Task -> Kind \cup {NoKind}]
      BY <3>1 DEF TaskStatus
    <3>7. responsible' \in [Task -> SUBSET User] /\ history' \in [Task -> Seq(Step)]
      BY <3>1, <3>2, <3>4
    <3> QED
      BY <2>2, <3>5, <3>6, <3>7 DEF CreateTask, HandledFor
  <2>3. ASSUME NEW u \in User, NEW t \in Task, ImportTask(u, t) PROVE TypeOK'
    <3>1. PICK owner \in User, team \in Team, m \in Member, final \in Terminal :
            /\ status' = [status EXCEPT ![t] = final]
            /\ kind' = [kind EXCEPT ![t] = ImportedKind(owner, team)]
            /\ responsible' = [responsible EXCEPT ![t] = {m}]
            /\ history' = [history EXCEPT ![t] = <<Moved("NONE", final)>>]
      BY <2>3 DEF ImportTask
    <3>2. ImportedKind(owner, team) \in Kind
      BY DEF ImportedKind, Kind
    <3>3. Moved("NONE", final) \in Step
      BY MovedIsStep DEF Terminal, TaskStatus
    <3>4. {m} \in SUBSET User
      BY DEF User
    <3>5. status' \in [Task -> TaskStatus \cup {"NONE"}] /\ kind' \in [Task -> Kind \cup {NoKind}]
      BY <3>1, <3>2 DEF TaskStatus
    <3>6. responsible' \in [Task -> SUBSET User] /\ history' \in [Task -> Seq(Step)]
      BY <3>1, <3>3, <3>4
    <3> QED
      BY <2>3, <3>5, <3>6 DEF ImportTask, HandledFor
  <2>4. ASSUME NEW u \in User, NEW r \in User, NEW t \in Task, AssignTask(u, t, r) PROVE TypeOK'
    <3>1. responsible' \in [Task -> SUBSET User]
      BY <2>4 DEF AssignTask, Reassigned
    <3>2. Append(history[t], Moved("PENDING", "ASSIGNED")) \in Seq(Step)
      BY MovedIsStep DEF TaskStatus
    <3>3. history' \in [Task -> Seq(Step)]
      BY <2>4, <3>2 DEF AssignTask
    <3>4. status' \in [Task -> TaskStatus \cup {"NONE"}] /\ selfClaim' \in [Task -> BOOLEAN]
      BY <2>4 DEF AssignTask, TaskStatus
    <3> QED
      BY <2>4, <3>1, <3>3, <3>4 DEF AssignTask, HandledFor
  <2>5. ASSUME NEW u \in User, NEW t \in Task, NEW enabled \in BOOLEAN,
               UpdateSelfClaim(u, t, enabled)
        PROVE  TypeOK'
    BY <2>5 DEF UpdateSelfClaim, HandledFor
  <2>6. ASSUME NEW u \in User, NEW t \in Task, ClaimTask(u, t) PROVE TypeOK'
    <3>1. Append(history[t], Moved("PENDING", "ASSIGNED")) \in Seq(Step)
      BY MovedIsStep DEF TaskStatus
    <3>2. history' \in [Task -> Seq(Step)]
      BY <2>6, <3>1 DEF ClaimTask
    <3>3. status' \in [Task -> TaskStatus \cup {"NONE"}]
      BY <2>6 DEF ClaimTask, TaskStatus
    <3>4. responsible' \in [Task -> SUBSET User]
      BY <2>6 DEF ClaimTask
    <3> QED
      BY <2>6, <3>2, <3>3, <3>4 DEF ClaimTask, HandledFor
  <2>7. ASSUME NEW u \in User, NEW t \in Task, StartTask(u, t) PROVE TypeOK'
    <3>1. Append(history[t], Moved("ASSIGNED", "IN_PROGRESS")) \in Seq(Step)
      BY MovedIsStep DEF TaskStatus
    <3>2. history' \in [Task -> Seq(Step)]
      BY <2>7, <3>1 DEF StartTask
    <3>3. status' \in [Task -> TaskStatus \cup {"NONE"}]
      BY <2>7 DEF StartTask, TaskStatus
    <3> QED
      BY <2>7, <3>2, <3>3 DEF StartTask, HandledFor
  <2>8. ASSUME NEW u \in User, NEW t \in Task, CompleteTask(u, t) PROVE TypeOK'
    <3>1. Append(history[t], Moved("IN_PROGRESS", "COMPLETED")) \in Seq(Step)
      BY MovedIsStep DEF TaskStatus, Terminal
    <3>2. history' \in [Task -> Seq(Step)]
      BY <2>8, <3>1 DEF CompleteTask
    <3>3. status' \in [Task -> TaskStatus \cup {"NONE"}]
      BY <2>8 DEF CompleteTask, TaskStatus, Terminal
    <3> QED
      BY <2>8, <3>2, <3>3 DEF CompleteTask, HandledFor
  <2>9. ASSUME NEW u \in User, NEW t \in Task, CreateSubmission(u, t) PROVE TypeOK'
    <3> DEFINE next == IF status[t] = "REVISION_REQUIRED" THEN "RESUBMITTED" ELSE "SUBMITTED"
    <3>1. next \in TaskStatus
      BY DEF TaskStatus, AwaitingReview
    <3>2. Moved(status[t], next) \in Step
      BY <3>1, MovedIsStep
    <3>3. [by |-> u, review |-> Unreviewed, reviewer |-> {}] \in Submission
      BY DEF Submission
    <3>4. submissions' \in [Task -> Seq(Submission)]
      BY <2>9, <3>3 DEF CreateSubmission
    <3>5. status' \in [Task -> TaskStatus \cup {"NONE"}] /\ history' \in [Task -> Seq(Step)]
      BY <2>9, <3>1, <3>2 DEF CreateSubmission
    <3> QED
      BY <2>9, <3>4, <3>5 DEF CreateSubmission, HandledFor
  <2>10. ASSUME NEW u \in User, NEW t \in Task, NEW v \in 1..MaxVersion,
               NEW action \in ReviewAction, Review(u, t, v, action)
        PROVE  TypeOK'
    <3> DEFINE outcome == IF action = "APPROVE" THEN "COMPLETED" ELSE "REVISION_REQUIRED"
               seen == Decided(submissions[t][v], action, u)
    <3>1. outcome \in TaskStatus
      BY DEF TaskStatus, Terminal
    <3>2. Moved(status[t], "UNDER_REVIEW") \in Step /\ Moved("UNDER_REVIEW", outcome) \in Step
      BY <3>1, MovedIsStep DEF TaskStatus
    <3>3. submissions[t] \in Seq(Submission) /\ v \in 1..Len(submissions[t])
      BY <2>10 DEF Review
    <3>4. submissions[t][v] \in Submission
      BY <3>3
    <3>5. submissions[t][v].by \in User
      BY <3>4 DEF Submission
    <3>6. seen \in Submission
      BY <3>5 DEF Submission, Decided
    <3>7. [submissions[t] EXCEPT ![v] = seen] \in Seq(Submission)
      BY <3>3, <3>6
    <3>8. submissions' \in [Task -> Seq(Submission)]
      BY <2>10, <3>7 DEF Review
    <3>9. status' \in [Task -> TaskStatus \cup {"NONE"}]
      BY <2>10, <3>1 DEF Review
    <3>10. history' \in [Task -> Seq(Step)]
      BY <2>10, <3>2 DEF Review
    <3> QED
      BY <2>10, <3>8, <3>9, <3>10 DEF Review, HandledFor
  <2>11. ASSUME NEW s \in User, NEW m \in Member, UpdateMemberStatus(s, m) PROVE TypeOK'
    BY <2>11 DEF UpdateMemberStatus, HandledFor, taskVars, User
  <2>12. ASSUME NEW s \in User, NEW a \in Admin, UpdateAdminStatus(s, a) PROVE TypeOK'
    BY <2>12 DEF UpdateAdminStatus, HandledFor, taskVars, User
  <2>13. ASSUME NEW s \in User, NEW a \in User, NEW team \in Team, ReassignTeamAdmin(s, team, a)
         PROVE  TypeOK'
    BY <2>13 DEF ReassignTeamAdmin, ActiveAdmin, HandledFor, taskVars
  <2>14. CASE UNCHANGED vars
    BY <2>14 DEF vars, taskVars
  <2> QED
    BY <2>1, <2>2, <2>3, <2>4, <2>5, <2>6, <2>9, <2>10, <2>11, <2>12, <2>13, <2>14,
       <2>7, <2>8 DEF Next
<1> QED
  BY <1>1, <1>2, PTL DEF Spec

-----------------------------------------------------------------------------
(* What a step does to the tasks, action by action; the theorems below     *)
(* split on it instead of on Next.                                         *)
LEMMA StepCases ==
  ASSUME [Next]_vars
  PROVE  \/ UNCHANGED taskVars
         \/ \E u \in User, t \in Task :
              \/ CreateTask(u, t) \/ ImportTask(u, t) \/ ClaimTask(u, t)
              \/ StartTask(u, t) \/ CompleteTask(u, t) \/ CreateSubmission(u, t)
              \/ \E r \in User : AssignTask(u, t, r)
              \/ \E enabled \in BOOLEAN : UpdateSelfClaim(u, t, enabled)
              \/ \E v \in 1..MaxVersion, action \in ReviewAction : Review(u, t, v, action)
<1>1. ASSUME NEW u \in User, PassGuards(u) \/ Refuse(u) PROVE UNCHANGED taskVars
  BY <1>1 DEF PassGuards, Refuse
<1>2. ASSUME NEW s \in User, NEW m \in Member, UpdateMemberStatus(s, m)
      PROVE  UNCHANGED taskVars
  BY <1>2 DEF UpdateMemberStatus
<1>3. ASSUME NEW s \in User, NEW a \in Admin, UpdateAdminStatus(s, a)
      PROVE  UNCHANGED taskVars
  BY <1>3 DEF UpdateAdminStatus
<1>4. ASSUME NEW s \in User, NEW a \in User, NEW team \in Team, ReassignTeamAdmin(s, team, a)
      PROVE  UNCHANGED taskVars
  BY <1>4 DEF ReassignTeamAdmin
<1>5. CASE UNCHANGED vars
  BY <1>5 DEF vars
<1> QED
  BY <1>1, <1>2, <1>3, <1>4, <1>5 DEF Next

-----------------------------------------------------------------------------
(* At most one open assignment, and one exactly when the status says so.   *)
(* Inductive on its own: assignment and reassignment need the status to    *)
(* tell them whether there is a row to close, which is the first conjunct. *)
THEOREM OneResponsibleHolds == Spec => []OneResponsible
<1>1. Init => OneResponsible
  BY DEF Init, OneResponsible
<1>2. TypeOK /\ OneResponsible /\ [Next]_vars => OneResponsible'
  <2> SUFFICES ASSUME TypeOK, OneResponsible, [Next]_vars PROVE OneResponsible'
    OBVIOUS
  <2>0. status \in [Task -> TaskStatus \cup {"NONE"}] /\ responsible \in [Task -> SUBSET User]
    BY DEF TypeOK
  <2> USE <2>0 DEF OneResponsible
  <2>1. CASE UNCHANGED taskVars
    BY <2>1 DEF taskVars
  <2>2. ASSUME NEW u \in User, NEW t \in Task, CreateTask(u, t) PROVE OneResponsible'
    <3>1. PICK chosen \in Choice :
            /\ status' = [status EXCEPT ![t] = IF chosen = {} THEN "PENDING" ELSE "ASSIGNED"]
            /\ responsible' = [responsible EXCEPT ![t] = chosen]
      BY <2>2 DEF CreateTask
    <3> QED
      BY <3>1 DEF Choice
  <2>3. ASSUME NEW u \in User, NEW t \in Task, ImportTask(u, t) PROVE OneResponsible'
    <3>1. PICK m \in Member, final \in Terminal :
            /\ status' = [status EXCEPT ![t] = final]
            /\ responsible' = [responsible EXCEPT ![t] = {m}]
      BY <2>3 DEF ImportTask
    <3>2. final \notin {"NONE", "PENDING"}
      BY DEF Terminal
    <3> QED
      BY <3>1, <3>2
  <2>4. ASSUME NEW u \in User, NEW r \in User, NEW t \in Task, AssignTask(u, t, r)
        PROVE  OneResponsible'
    <3>1. PICK current : /\ responsible[t] = {} => current = {}
                         /\ responsible[t] # {} => \E c \in responsible[t] : current = {c}
                         /\ responsible' = [responsible EXCEPT ![t] = Reassigned(@, current, r)]
      BY <2>4 DEF AssignTask
    <3>2. responsible[t] \ current = {}
      BY <3>1
    <3>3. responsible' = [responsible EXCEPT ![t] = {r}]
      BY <3>1, <3>2 DEF Reassigned
    <3> QED
      BY <2>4, <3>3 DEF AssignTask
  <2>5. ASSUME NEW u \in User, NEW t \in Task, NEW enabled \in BOOLEAN,
               UpdateSelfClaim(u, t, enabled)
        PROVE  OneResponsible'
    BY <2>5 DEF UpdateSelfClaim
  <2>6. ASSUME NEW u \in User, NEW t \in Task, ClaimTask(u, t) PROVE OneResponsible'
    <3>1. responsible' = [responsible EXCEPT ![t] = {u}]
      BY <2>6 DEF ClaimTask
    <3> QED
      BY <2>6, <3>1 DEF ClaimTask
  <2>7. ASSUME NEW u \in User, NEW t \in Task, StartTask(u, t) PROVE OneResponsible'
    BY <2>7 DEF StartTask
  <2>8. ASSUME NEW u \in User, NEW t \in Task, CompleteTask(u, t) PROVE OneResponsible'
    BY <2>8 DEF CompleteTask
  <2>9. ASSUME NEW u \in User, NEW t \in Task, CreateSubmission(u, t) PROVE OneResponsible'
    BY <2>9 DEF CreateSubmission
  <2>10. ASSUME NEW u \in User, NEW t \in Task, NEW v \in 1..MaxVersion,
                NEW action \in ReviewAction, Review(u, t, v, action)
         PROVE  OneResponsible'
    BY <2>10 DEF Review, Reviewable, AwaitingReview
  <2> QED
    BY <2>1, <2>2, <2>3, <2>4, <2>5, <2>6, <2>7, <2>8, <2>9, <2>10, StepCases
<1> QED
  BY <1>1, <1>2, TypeCorrect, PTL DEF Spec

-----------------------------------------------------------------------------
(* Nothing a handler does touches a finished task: every handler that      *)
(* changes a task demands a status that is not terminal.                   *)
THEOREM FinishedIsFinalHolds == Spec => FinishedIsFinal
<1> DEFINE Untouched(t) == /\ status'[t] = status[t]
                           /\ kind'[t] = kind[t]
                           /\ selfClaim'[t] = selfClaim[t]
                           /\ responsible'[t] = responsible[t]
                           /\ history'[t] = history[t]
                           /\ submissions'[t] = submissions[t]
<1>1. TypeOK /\ [Next]_vars => [\A t \in Task : status[t] \in Terminal => Untouched(t)]_vars
  <2> SUFFICES ASSUME TypeOK, [Next]_vars, NEW t \in Task, status[t] \in Terminal
               PROVE  Untouched(t)
    OBVIOUS
  <2> USE DEF TypeOK, Terminal
  <2>1. CASE UNCHANGED taskVars
    BY <2>1 DEF taskVars
  <2>2. ASSUME NEW u \in User, NEW w \in Task, CreateTask(u, w) \/ ImportTask(u, w)
        PROVE  Untouched(t)
    <3>1. w # t
      BY <2>2 DEF CreateTask, ImportTask
    <3>2. CASE CreateTask(u, w)
      BY <3>1, <3>2 DEF CreateTask
    <3>3. CASE ImportTask(u, w)
      BY <3>1, <3>3 DEF ImportTask
    <3> QED
      BY <2>2, <3>2, <3>3
  <2>3. ASSUME NEW u \in User, NEW r \in User, NEW w \in Task, AssignTask(u, w, r)
        PROVE  Untouched(t)
    BY <2>3 DEF AssignTask, Assignable
  <2>4. ASSUME NEW u \in User, NEW w \in Task, NEW enabled \in BOOLEAN,
               UpdateSelfClaim(u, w, enabled)
        PROVE  Untouched(t)
    BY <2>4 DEF UpdateSelfClaim
  <2>5. ASSUME NEW u \in User, NEW w \in Task, ClaimTask(u, w) PROVE Untouched(t)
    BY <2>5 DEF ClaimTask
  <2>6. ASSUME NEW u \in User, NEW w \in Task, StartTask(u, w) PROVE Untouched(t)
    BY <2>6 DEF StartTask
  <2>7. ASSUME NEW u \in User, NEW w \in Task, CompleteTask(u, w) PROVE Untouched(t)
    BY <2>7 DEF CompleteTask
  <2>8. ASSUME NEW u \in User, NEW w \in Task, CreateSubmission(u, w) PROVE Untouched(t)
    BY <2>8 DEF CreateSubmission, Submittable
  <2>9. ASSUME NEW u \in User, NEW w \in Task, NEW v \in 1..MaxVersion,
               NEW action \in ReviewAction, Review(u, w, v, action)
        PROVE  Untouched(t)
    BY <2>9 DEF Review, Reviewable, AwaitingReview
  <2> QED
    BY <2>1, <2>2, <2>3, <2>4, <2>5, <2>6, <2>7, <2>8, <2>9, StepCases
<1> QED
  BY <1>1, TypeCorrect, PTL DEF Spec, FinishedIsFinal

-----------------------------------------------------------------------------
(* Whoever becomes responsible is an active account at that moment: the    *)
(* three handlers that hand work over check the account in the             *)
(* transaction, whatever the age of the request.                           *)
THEOREM WorkGoesToActiveUsersHolds == Spec => WorkGoesToActiveUsers
<1> DEFINE Handed(t) == \A u \in responsible'[t] \ responsible[t] :
                          u \in active \/ status'[t] \in Terminal
<1>1. TypeOK /\ [Next]_vars => [\A t \in Task : Handed(t)]_vars
  <2> SUFFICES ASSUME TypeOK, [Next]_vars, NEW t \in Task PROVE Handed(t)
    OBVIOUS
  <2> USE DEF TypeOK
  <2>1. CASE UNCHANGED responsible
    BY <2>1
  <2>2. ASSUME NEW u \in User, NEW w \in Task, CreateTask(u, w) PROVE Handed(t)
    <3>1. PICK chosen \in Choice : /\ \A r \in chosen : r \in active
                                   /\ responsible' = [responsible EXCEPT ![w] = chosen]
      BY <2>2 DEF CreateTask, CreationAllowed, Eligible
    <3> QED
      BY <3>1
  <2>3. ASSUME NEW u \in User, NEW w \in Task, ImportTask(u, w) PROVE Handed(t)
    BY <2>3 DEF ImportTask
  <2>4. ASSUME NEW u \in User, NEW r \in User, NEW w \in Task, AssignTask(u, w, r)
        PROVE  Handed(t)
    BY <2>4 DEF AssignTask, Reassigned, Eligible
  <2>5. ASSUME NEW u \in User, NEW w \in Task, ClaimTask(u, w) PROVE Handed(t)
    BY <2>5 DEF ClaimTask, Claimant
  <2>6. ASSUME NEW u \in User, NEW w \in Task,
               \/ StartTask(u, w) \/ CompleteTask(u, w) \/ CreateSubmission(u, w)
               \/ \E enabled \in BOOLEAN : UpdateSelfClaim(u, w, enabled)
               \/ \E v \in 1..MaxVersion, action \in ReviewAction : Review(u, w, v, action)
        PROVE  Handed(t)
    BY <2>1, <2>6 DEF StartTask, CompleteTask, CreateSubmission, UpdateSelfClaim, Review
  <2> QED
    BY <2>1, <2>2, <2>3, <2>4, <2>5, <2>6, StepCases DEF taskVars
<1> QED
  BY <1>1, TypeCorrect, PTL DEF Spec, WorkGoesToActiveUsers

-----------------------------------------------------------------------------
(* What makes SingleAuthor inductive: once a version is handed in, the     *)
(* status has left the part of the lifecycle in which people may change.   *)
HandedInStatus ==
  \A t \in Task : submissions[t] # << >> =>
    status[t] \in AwaitingReview \cup {"REVISION_REQUIRED", "COMPLETED"}

AuthorInv == HandedInStatus /\ SingleAuthor

(* Before the first version, people may change freely.                     *)
LEMMA NothingHandedIn ==
  ASSUME TypeOK, AuthorInv, NEW t \in Task,
         submissions' = submissions, submissions[t] = << >>,
         \A w \in Task \ {t} : status'[w] = status[w] /\ responsible'[w] = responsible[w]
  PROVE  AuthorInv'
<1> USE DEF AuthorInv, HandedInStatus, SingleAuthor
<1>1. HandedInStatus'
  OBVIOUS
<1>2. ASSUME NEW w \in Task, NEW v \in 1..Len(submissions'[w])
      PROVE  submissions'[w][v].by \in responsible'[w]
  <2>1. w # t
    <3>1. Len(submissions[t]) = 0
      OBVIOUS
    <3> QED
      BY <3>1
  <2> QED
    BY <2>1
<1> QED
  BY <1>1, <1>2

(* Every version of a task was handed in by the one person who is          *)
(* responsible for it, over any number of assignments and revisions.       *)
THEOREM SingleAuthorHolds == Spec => []SingleAuthor
<1>1. Init => AuthorInv
  BY DEF Init, AuthorInv, HandedInStatus, SingleAuthor
<1>2. TypeOK /\ AuthorInv /\ [Next]_vars => AuthorInv'
  <2> SUFFICES ASSUME TypeOK, AuthorInv, [Next]_vars PROVE AuthorInv'
    OBVIOUS
  <2> USE DEF TypeOK, AuthorInv, HandedInStatus, SingleAuthor
  <2>1. CASE UNCHANGED taskVars
    BY <2>1 DEF taskVars
  <2>2. ASSUME NEW u \in User, NEW t \in Task, CreateTask(u, t) PROVE AuthorInv'
    <3>1. submissions' = submissions /\ submissions[t] = << >>
      BY <2>2 DEF CreateTask, AwaitingReview
    <3>2. \A w \in Task \ {t} : status'[w] = status[w] /\ responsible'[w] = responsible[w]
      BY <2>2 DEF CreateTask
    <3> QED
      BY <3>1, <3>2, NothingHandedIn
  <2>3. ASSUME NEW u \in User, NEW t \in Task, ImportTask(u, t) PROVE AuthorInv'
    <3>1. submissions' = submissions /\ submissions[t] = << >>
      BY <2>3 DEF ImportTask, AwaitingReview
    <3>2. \A w \in Task \ {t} : status'[w] = status[w] /\ responsible'[w] = responsible[w]
      BY <2>3 DEF ImportTask
    <3> QED
      BY <3>1, <3>2, NothingHandedIn
  <2>4. ASSUME NEW u \in User, NEW r \in User, NEW t \in Task, AssignTask(u, t, r)
        PROVE  AuthorInv'
    <3>1. submissions' = submissions /\ submissions[t] = << >>
      BY <2>4 DEF AssignTask, Assignable, AwaitingReview
    <3>2. \A w \in Task \ {t} : status'[w] = status[w] /\ responsible'[w] = responsible[w]
      BY <2>4 DEF AssignTask
    <3> QED
      BY <3>1, <3>2, NothingHandedIn
  <2>5. ASSUME NEW u \in User, NEW t \in Task, NEW enabled \in BOOLEAN,
               UpdateSelfClaim(u, t, enabled)
        PROVE  AuthorInv'
    BY <2>5 DEF UpdateSelfClaim
  <2>6. ASSUME NEW u \in User, NEW t \in Task, ClaimTask(u, t) PROVE AuthorInv'
    <3>1. submissions' = submissions /\ submissions[t] = << >>
      BY <2>6 DEF ClaimTask, AwaitingReview
    <3>2. \A w \in Task \ {t} : status'[w] = status[w] /\ responsible'[w] = responsible[w]
      BY <2>6 DEF ClaimTask
    <3> QED
      BY <3>1, <3>2, NothingHandedIn
  <2>7. ASSUME NEW u \in User, NEW t \in Task, StartTask(u, t) PROVE AuthorInv'
    BY <2>7 DEF StartTask, AwaitingReview
  <2>8. ASSUME NEW u \in User, NEW t \in Task, CompleteTask(u, t) PROVE AuthorInv'
    BY <2>8 DEF CompleteTask
  <2>9. ASSUME NEW u \in User, NEW t \in Task, CreateSubmission(u, t) PROVE AuthorInv'
    <3> DEFINE sub == [by |-> u, review |-> Unreviewed, reviewer |-> {}]
    <3>1. /\ submissions' = [submissions EXCEPT ![t] = Append(@, sub)]
          /\ status'[t] \in AwaitingReview
          /\ \A w \in Task \ {t} : status'[w] = status[w]
          /\ responsible' = responsible
          /\ u \in responsible[t]
      BY <2>9 DEF CreateSubmission, AwaitingReview
    <3>2. \A v \in 1..Len(submissions'[t]) : submissions'[t][v].by \in responsible'[t]
      <4> SUFFICES ASSUME NEW v \in 1..Len(submissions'[t])
                   PROVE  submissions'[t][v].by \in responsible'[t]
        OBVIOUS
      <4>1. submissions[t] \in Seq(Submission) /\ submissions'[t] = Append(submissions[t], sub)
        BY <3>1
      <4>2. CASE v = Len(submissions[t]) + 1
        BY <3>1, <4>1, <4>2
      <4>3. CASE v # Len(submissions[t]) + 1
        <5>1. v \in 1..Len(submissions[t]) /\ submissions'[t][v] = submissions[t][v]
          BY <4>1, <4>3
        <5> QED
          BY <3>1, <5>1
      <4> QED
        BY <4>2, <4>3
    <3> QED
      BY <3>1, <3>2
  <2>10. ASSUME NEW u \in User, NEW t \in Task, NEW v \in 1..MaxVersion,
                NEW action \in ReviewAction, Review(u, t, v, action)
         PROVE  AuthorInv'
    <3> DEFINE seen == Decided(submissions[t][v], action, u)
    <3>1. /\ submissions' = [submissions EXCEPT ![t] = [submissions[t] EXCEPT ![v] = seen]]
          /\ responsible' = responsible
          /\ v \in 1..Len(submissions[t])
      BY <2>10 DEF Review
    <3>2. status'[t] \in {"REVISION_REQUIRED", "COMPLETED"}
      BY <2>10 DEF Review
    <3>3. \A w \in Task \ {t} : status'[w] = status[w]
      BY <2>10 DEF Review
    <3>4. seen.by = submissions[t][v].by
      BY DEF Decided
    <3>5. /\ Len(submissions'[t]) = Len(submissions[t])
          /\ \A i \in 1..Len(submissions[t]) : submissions'[t][i].by = submissions[t][i].by
      BY <3>1, <3>4
    <3> QED
      BY <3>1, <3>2, <3>3, <3>5
  <2> QED
    BY <2>1, <2>2, <2>3, <2>4, <2>5, <2>6, <2>7, <2>8, <2>9, <2>10, StepCases
<1>3. AuthorInv => SingleAuthor
  BY DEF AuthorInv
<1> QED
  BY <1>1, <1>2, <1>3, TypeCorrect, PTL DEF Spec

-----------------------------------------------------------------------------
(* What makes ReviewerExists inductive: EVERY team has an active admin,    *)
(* kept by the handlers that change accounts and teams, and submission     *)
(* checks that the task belongs to a team, kept because an existing task   *)
(* has a proper kind.                                                      *)
TeamsHaveAdmins == \A team \in Team : teamAdmin[team] \in active \cap Admin

KindKnown == \A t \in Task : status[t] # "NONE" => kind[t] \in Kind

HandedInToTeam == \A t \in Task : status[t] \in AwaitingReview => kind[t].team \in Team

ReviewerInv == TeamsHaveAdmins /\ KindKnown /\ HandedInToTeam

(* Teams keep an active admin, and what is handed in belongs to a team.    *)
LEMMA ReviewerInvHolds == Spec => []ReviewerInv
<1>1. Init => ReviewerInv
  BY DEF Init, ReviewerInv, TeamsHaveAdmins, KindKnown, HandedInToTeam, AwaitingReview, User
<1>2. TypeOK /\ ReviewerInv /\ [Next]_vars => ReviewerInv'
  <2> SUFFICES ASSUME TypeOK, ReviewerInv, [Next]_vars PROVE ReviewerInv'
    OBVIOUS
  <2> USE DEF TypeOK, ReviewerInv
  <2>1. TeamsHaveAdmins'
    <3> USE DEF TeamsHaveAdmins
    <3>1. ASSUME NEW u \in User, PassGuards(u) \/ Refuse(u) PROVE TeamsHaveAdmins'
      BY <3>1 DEF PassGuards, Refuse
    <3>2. CASE UNCHANGED <<active, teamAdmin>>
      BY <3>2
    <3>3. ASSUME NEW s \in User, NEW m \in Member, UpdateMemberStatus(s, m)
          PROVE  TeamsHaveAdmins'
      BY <3>3, RolesAssumption DEF UpdateMemberStatus
    <3>4. ASSUME NEW s \in User, NEW a \in Admin, UpdateAdminStatus(s, a)
          PROVE  TeamsHaveAdmins'
      BY <3>4 DEF UpdateAdminStatus, MayDeactivate
    <3>5. ASSUME NEW s \in User, NEW a \in User, NEW team \in Team,
                 ReassignTeamAdmin(s, team, a)
          PROVE  TeamsHaveAdmins'
      BY <3>5 DEF ReassignTeamAdmin, ActiveAdmin
    <3>6. ASSUME NEW u \in User, NEW t \in Task,
                 \/ CreateTask(u, t) \/ ImportTask(u, t) \/ ClaimTask(u, t)
                 \/ StartTask(u, t) \/ CompleteTask(u, t) \/ CreateSubmission(u, t)
                 \/ \E r \in User : AssignTask(u, t, r)
                 \/ \E enabled \in BOOLEAN : UpdateSelfClaim(u, t, enabled)
                 \/ \E v \in 1..MaxVersion, action \in ReviewAction : Review(u, t, v, action)
          PROVE  TeamsHaveAdmins'
      BY <3>2, <3>6 DEF CreateTask, ImportTask, ClaimTask, StartTask, CompleteTask,
                        CreateSubmission, AssignTask, UpdateSelfClaim, Review
    <3>7. CASE UNCHANGED vars
      BY <3>2, <3>7 DEF vars
    <3> QED
      BY <3>1, <3>3, <3>4, <3>5, <3>6, <3>7 DEF Next
  <2>2. KindKnown' /\ HandedInToTeam'
    <3> USE DEF KindKnown, HandedInToTeam, AwaitingReview
    <3>1. CASE UNCHANGED taskVars
      BY <3>1 DEF taskVars
    <3>2. ASSUME NEW u \in User, NEW t \in Task, CreateTask(u, t)
          PROVE  KindKnown' /\ HandedInToTeam'
      <4>1. PICK k \in Kind, chosen \in Choice :
              /\ status' = [status EXCEPT ![t] = IF chosen = {} THEN "PENDING" ELSE "ASSIGNED"]
              /\ kind' = [kind EXCEPT ![t] = k]
        BY <3>2 DEF CreateTask
      <4> QED
        BY <4>1
    <3>3. ASSUME NEW u \in User, NEW t \in Task, ImportTask(u, t)
          PROVE  KindKnown' /\ HandedInToTeam'
      <4>1. PICK owner \in User, team \in Team, final \in Terminal :
              /\ status' = [status EXCEPT ![t] = final]
              /\ kind' = [kind EXCEPT ![t] = ImportedKind(owner, team)]
        BY <3>3 DEF ImportTask
      <4>2. ImportedKind(owner, team) \in Kind
        BY DEF ImportedKind, Kind
      <4> QED
        BY <4>1, <4>2 DEF Terminal
    <3>4. ASSUME NEW u \in User, NEW r \in User, NEW t \in Task, AssignTask(u, t, r)
          PROVE  KindKnown' /\ HandedInToTeam'
      BY <3>4 DEF AssignTask, Assignable
    <3>5. ASSUME NEW u \in User, NEW t \in Task, NEW enabled \in BOOLEAN,
                 UpdateSelfClaim(u, t, enabled)
          PROVE  KindKnown' /\ HandedInToTeam'
      BY <3>5 DEF UpdateSelfClaim
    <3>6. ASSUME NEW u \in User, NEW t \in Task, ClaimTask(u, t)
          PROVE  KindKnown' /\ HandedInToTeam'
      BY <3>6 DEF ClaimTask
    <3>7. ASSUME NEW u \in User, NEW t \in Task, StartTask(u, t)
          PROVE  KindKnown' /\ HandedInToTeam'
      BY <3>7 DEF StartTask
    <3>8. ASSUME NEW u \in User, NEW t \in Task, CompleteTask(u, t)
          PROVE  KindKnown' /\ HandedInToTeam'
      BY <3>8 DEF CompleteTask
    <3>9. ASSUME NEW u \in User, NEW t \in Task, CreateSubmission(u, t)
          PROVE  KindKnown' /\ HandedInToTeam'
      <4>1. kind[t] \in Kind
        BY <3>9 DEF CreateSubmission, Submittable
      <4>2. kind[t].team \in Team
        BY <3>9, <4>1 DEF CreateSubmission, Kind
      <4> QED
        BY <3>9, <4>1, <4>2 DEF CreateSubmission
    <3>10. ASSUME NEW u \in User, NEW t \in Task, NEW v \in 1..MaxVersion,
                  NEW action \in ReviewAction, Review(u, t, v, action)
           PROVE  KindKnown' /\ HandedInToTeam'
      BY <3>10 DEF Review, Reviewable
    <3> QED
      BY <3>1, <3>2, <3>3, <3>4, <3>5, <3>6, <3>7, <3>8, <3>9, <3>10, StepCases
  <2> QED
    BY <2>1, <2>2
<1> QED
  BY <1>1, <1>2, TypeCorrect, PTL DEF Spec

(* Handed-in work always has an active admin who may decide on it.         *)
THEOREM ReviewerExistsHolds == Spec => []ReviewerExists
<1>1. ReviewerInv => ReviewerExists
  BY DEF ReviewerInv, TeamsHaveAdmins, HandedInToTeam, ReviewerExists
<1> QED
  BY <1>1, ReviewerInvHolds, PTL

-----------------------------------------------------------------------------
(* A step of one task                                                      *)

SameTask(t) ==
  /\ status'[t] = status[t] /\ kind'[t] = kind[t] /\ selfClaim'[t] = selfClaim[t]
  /\ responsible'[t] = responsible[t]
  /\ history'[t] = history[t] /\ submissions'[t] = submissions[t]

TaskStep(u, t) ==
  \/ CreateTask(u, t) \/ ImportTask(u, t) \/ ClaimTask(u, t)
  \/ StartTask(u, t) \/ CompleteTask(u, t) \/ CreateSubmission(u, t)
  \/ \E r \in User : AssignTask(u, t, r)
  \/ \E enabled \in BOOLEAN : UpdateSelfClaim(u, t, enabled)
  \/ \E v \in 1..MaxVersion, action \in ReviewAction : Review(u, t, v, action)

(* A handler writes the rows of its own task and no others.                *)
LEMMA OthersStay ==
  ASSUME TypeOK, NEW u \in User, NEW t \in Task, TaskStep(u, t), NEW w \in Task \ {t}
  PROVE  SameTask(w)
<1> USE DEF TypeOK, SameTask
<1>1. CASE CreateTask(u, t) \/ ImportTask(u, t)
  BY <1>1 DEF CreateTask, ImportTask
<1>2. CASE ClaimTask(u, t) \/ StartTask(u, t) \/ CompleteTask(u, t) \/ CreateSubmission(u, t)
  BY <1>2 DEF ClaimTask, StartTask, CompleteTask, CreateSubmission
<1>3. ASSUME NEW r \in User, AssignTask(u, t, r) PROVE SameTask(w)
  BY <1>3 DEF AssignTask
<1>4. ASSUME NEW enabled \in BOOLEAN, UpdateSelfClaim(u, t, enabled) PROVE SameTask(w)
  BY <1>4 DEF UpdateSelfClaim
<1>5. ASSUME NEW v \in 1..MaxVersion, NEW action \in ReviewAction, Review(u, t, v, action)
      PROVE  SameTask(w)
  BY <1>5 DEF Review
<1> QED
  BY <1>1, <1>2, <1>3, <1>4, <1>5 DEF TaskStep

(* Seen from one task, a step is a handler on it or nothing.               *)
LEMMA StepOfTask ==
  ASSUME TypeOK, [Next]_vars, NEW t \in Task
  PROVE  SameTask(t) \/ \E u \in User : TaskStep(u, t)
<1>1. CASE UNCHANGED taskVars
  BY <1>1 DEF taskVars, SameTask
<1>2. ASSUME NEW u \in User, NEW w \in Task, TaskStep(u, w)
      PROVE  SameTask(t) \/ TaskStep(u, t)
  BY <1>2, OthersStay
<1> QED
  BY <1>1, <1>2, StepCases DEF TaskStep

-----------------------------------------------------------------------------
(* The history of a task *)

(* Rows that begin with a creation and go on as the lifecycle allows.      *)
Path(h) ==
  /\ h # << >>
  /\ h[1].from = "NONE" /\ h[1].to \in {"PENDING"} \cup Terminal
  /\ \A i \in 1..Len(h) : i > 1 => h[i] \in LifecycleSteps /\ h[i].from = h[i-1].to

PathOf(t) == Exists(t) => Path(history[t]) /\ Final(history[t]).to = status[t]

(* A step of the lifecycle from where the path ends makes it longer, and   *)
(* its beginning stays.                                                    *)
LEMMA PathGrows ==
  ASSUME NEW h \in Seq(Step), Path(h), NEW step \in LifecycleSteps \cap Step,
         step.from = Final(h).to
  PROVE  /\ Append(h, step) \in Seq(Step)
         /\ Path(Append(h, step))
         /\ Final(Append(h, step)) = step
         /\ Append(h, step)[1] = h[1]
<1> DEFINE g == Append(h, step)
           n == Len(h)
<1>1. n \in Nat /\ n # 0
  BY LenProperties, EmptySeq DEF Path
<1>2. /\ g \in Seq(Step) /\ Len(g) = n + 1
      /\ \A i \in 1..n : g[i] = h[i]
      /\ g[n + 1] = step
  BY AppendProperties
<1>3. g[1] = h[1]
  BY <1>1, <1>2
<1>4. g # << >>
  BY <1>1, <1>2, EmptySeq
<1>5. Final(g) = step
  BY <1>2 DEF Final
<1> HIDE DEF g, n
<1>6. ASSUME NEW i \in 1..Len(g), i > 1
      PROVE  g[i] \in LifecycleSteps /\ g[i].from = g[i-1].to
  <2>1. CASE i \in 1..n
    <3>1. i - 1 \in 1..n
      BY <1>1, <1>6, <2>1
    <3>2. h[i] \in LifecycleSteps /\ h[i].from = h[i-1].to
      BY <1>6, <2>1 DEF Path, n
    <3> QED
      BY <1>2, <2>1, <3>1, <3>2
  <2>2. CASE i = n + 1
    <3>1. g[i] = step /\ g[i - 1] = h[n]
      BY <1>1, <1>2, <2>2
    <3> QED
      BY <3>1 DEF Final, n
  <2> QED
    BY <1>1, <1>2, <2>1, <2>2
<1>7. g[1].from = "NONE" /\ g[1].to \in {"PENDING"} \cup Terminal
  BY <1>3 DEF Path
<1>8. Path(g)
  BY <1>4, <1>6, <1>7 DEF Path
<1> QED
  BY <1>2, <1>3, <1>5, <1>8 DEF g

(* The rows a task begins with.                                            *)
LEMMA PathBegins ==
  ASSUME NEW to \in {"PENDING"} \cup Terminal
  PROVE  LET h == <<Moved("NONE", to)>> IN
         /\ h \in Seq(Step) /\ Path(h) /\ Final(h).to = to /\ h[1].to = to
<1>1. Moved("NONE", to) \in Step
  BY MovedIsStep DEF Terminal, TaskStatus
<1> QED
  BY <1>1 DEF Path, Final, Moved

(* A handler that adds the row of its step leaves a path to its status.    *)
LEMMA PathStep ==
  ASSUME TypeOK, NEW t \in Task, Exists(t), PathOf(t), NEW to \in TaskStatus,
         Moved(status[t], to) \in LifecycleSteps,
         history'[t] = Append(history[t], Moved(status[t], to)),
         status'[t] = to
  PROVE  PathOf(t)' /\ history'[t][1] = history[t][1]
<1>1. status[t] \in TaskStatus \cup {"NONE"}
  BY DEF TypeOK
<1>2. Moved(status[t], to) \in Step
  BY <1>1, MovedIsStep
<1>3. Path(history'[t]) /\ Final(history'[t]) = Moved(status[t], to)
      /\ history'[t][1] = history[t][1]
  BY <1>2, PathGrows DEF PathOf, Moved, TypeOK
<1> QED
  BY <1>3 DEF PathOf, Moved

(* What a handler does to the history of its task: its status is where the *)
(* path leads, and what the path began with stays.                         *)
LEMMA HistoryStep ==
  ASSUME TypeOK, NEW u \in User, NEW t \in Task, TaskStep(u, t), PathOf(t)
  PROVE  /\ PathOf(t)'
         /\ Exists(t) => Imported(t)' = Imported(t)
<1> USE DEF TypeOK
<1>1. CASE CreateTask(u, t)
  <2>1. PICK chosen \in Choice :
          /\ status'[t] = IF chosen = {} THEN "PENDING" ELSE "ASSIGNED"
          /\ history'[t] = CreationHistory(chosen)
    BY <1>1 DEF CreateTask
  <2> DEFINE h == <<Moved("NONE", "PENDING")>>
  <2>2. h \in Seq(Step) /\ Path(h) /\ Final(h).to = "PENDING"
    BY PathBegins
  <2>3. Moved("PENDING", "ASSIGNED") \in LifecycleSteps \cap Step
    BY MovedIsStep DEF LifecycleSteps, TaskStatus
  <2>4. Path(Append(h, Moved("PENDING", "ASSIGNED")))
        /\ Final(Append(h, Moved("PENDING", "ASSIGNED"))) = Moved("PENDING", "ASSIGNED")
    BY <2>2, <2>3, PathGrows DEF Moved
  <2>5. CreationHistory(chosen) =
          IF chosen = {} THEN h ELSE Append(h, Moved("PENDING", "ASSIGNED"))
    <3>1. \A a, b : <<a, b>> = Append(<<a>>, b)
      OBVIOUS
    <3> QED
      BY <3>1 DEF CreationHistory
  <2>6. Path(history'[t]) /\ Final(history'[t]).to = status'[t]
    BY <2>1, <2>2, <2>4, <2>5 DEF Moved
  <2> QED
    BY <1>1, <2>6 DEF PathOf, Exists, CreateTask
<1>2. CASE ImportTask(u, t)
  <2>1. PICK final \in Terminal : /\ status'[t] = final
                                  /\ history'[t] = <<Moved("NONE", final)>>
    BY <1>2 DEF ImportTask
  <2> QED
    BY <1>2, <2>1, PathBegins DEF ImportTask, PathOf, Exists
<1>3. CASE ClaimTask(u, t)
  BY <1>3, PathStep DEF ClaimTask, LifecycleSteps, TaskStatus, Exists, Imported
<1>4. CASE StartTask(u, t)
  BY <1>4, PathStep DEF StartTask, LifecycleSteps, TaskStatus, Exists, Imported
<1>5. CASE CompleteTask(u, t)
  BY <1>5, PathStep DEF CompleteTask, LifecycleSteps, TaskStatus, Terminal, Exists, Imported
<1>6. CASE CreateSubmission(u, t)
  BY <1>6, PathStep DEF CreateSubmission, Submittable, LifecycleSteps, TaskStatus,
                        AwaitingReview, Exists, Imported
<1>7. ASSUME NEW r \in User, AssignTask(u, t, r)
      PROVE  PathOf(t)' /\ (Exists(t) => Imported(t)' = Imported(t))
  <2>1. CASE status[t] = "PENDING"
    BY <1>7, <2>1, PathStep DEF AssignTask, LifecycleSteps, TaskStatus, Exists, Imported
  <2>2. CASE status[t] # "PENDING"
    BY <1>7, <2>2 DEF AssignTask, Assignable, PathOf, Exists, Imported
  <2> QED
    BY <2>1, <2>2
<1>8. ASSUME NEW enabled \in BOOLEAN, UpdateSelfClaim(u, t, enabled)
      PROVE  PathOf(t)' /\ (Exists(t) => Imported(t)' = Imported(t))
  BY <1>8 DEF UpdateSelfClaim, PathOf, Exists, Imported
<1>9. ASSUME NEW v \in 1..MaxVersion, NEW action \in ReviewAction, Review(u, t, v, action)
      PROVE  PathOf(t)' /\ (Exists(t) => Imported(t)' = Imported(t))
  <2> DEFINE outcome == IF action = "APPROVE" THEN "COMPLETED" ELSE "REVISION_REQUIRED"
             taken == Moved(status[t], "UNDER_REVIEW")
             given == Moved("UNDER_REVIEW", outcome)
             h == Append(history[t], taken)
  <2>1. taken \in LifecycleSteps \cap Step /\ given \in LifecycleSteps \cap Step
    BY <1>9, MovedIsStep DEF Review, Reviewable, AwaitingReview, LifecycleSteps,
                             TaskStatus, Terminal
  <2>2. history'[t] = Append(h, given) /\ status'[t] = outcome /\ status[t] # "NONE"
    BY <1>9 DEF Review, Reviewable, AwaitingReview
  <2>3. h \in Seq(Step) /\ Path(h) /\ Final(h) = taken /\ h[1] = history[t][1]
    BY <2>1, <2>2, PathGrows DEF PathOf, Exists, Moved
  <2> HIDE DEF h
  <2>4. Path(Append(h, given)) /\ Final(Append(h, given)) = given
        /\ Append(h, given)[1] = h[1]
    BY <2>1, <2>3, PathGrows DEF Moved
  <2> QED
    BY <2>2, <2>3, <2>4 DEF PathOf, Exists, Imported, Moved
<1> QED
  BY <1>1, <1>2, <1>3, <1>4, <1>5, <1>6, <1>7, <1>8, <1>9 DEF TaskStep, CreateTask, ImportTask, Exists

-----------------------------------------------------------------------------
(* The ledger of reviews *)

(* ReviewLedger for one task, whose ledger is empty before it exists.      *)
LedgerOf(t) ==
  LET s == submissions[t] IN
  IF ~Exists(t) THEN s = << >> ELSE
    /\ kind[t].mode = "DIRECT" => s = << >>
    /\ \A v \in 1..Len(s) : v < Len(s) => s[v].review = "REQUEST_REVISION"
    /\ status[t] \in AwaitingReview <=> (s # << >> /\ Final(s).review = Unreviewed)
    /\ status[t] = "REVISION_REQUIRED" <=>
         (s # << >> /\ Final(s).review = "REQUEST_REVISION")
    /\ (s # << >> /\ Final(s).review = "APPROVE") => status[t] = "COMPLETED"
    /\ (status[t] = "COMPLETED" /\ kind[t].mode = "REVIEW_REQUIRED" /\ ~Imported(t))
         => (s # << >> /\ Final(s).review = "APPROVE")
    /\ status[t] = "SUBMITTED" => Len(s) = 1
    /\ status[t] = "RESUBMITTED" => Len(s) > 1

(* Every version has one of three verdicts.                                *)
LEMMA FinalReview ==
  ASSUME TypeOK, NEW t \in Task, submissions[t] # << >>
  PROVE  /\ Len(submissions[t]) \in Nat \ {0}
         /\ Final(submissions[t]).review \in {"APPROVE", "REQUEST_REVISION", Unreviewed}
<1>1. submissions[t] \in Seq(Submission)
  BY DEF TypeOK
<1>2. Len(submissions[t]) \in Nat \ {0}
  BY <1>1, LenProperties, EmptySeq
<1>3. Final(submissions[t]) \in Submission
  BY <1>1, <1>2, ElementOfSeq DEF Final
<1> QED
  BY <1>2, <1>3 DEF Submission, ReviewAction

(* Before the first version the ledger is empty.                           *)
LEMMA NotYetSubmitted ==
  ASSUME TypeOK, NEW t \in Task, LedgerOf(t),
         status[t] \in {"NONE", "PENDING", "ASSIGNED", "IN_PROGRESS"}
  PROVE  submissions[t] = << >>
BY FinalReview DEF LedgerOf, AwaitingReview, Exists, Unreviewed

(* A task whose ledger stays empty may only be completed without review.   *)
LEMMA LedgerStaysEmpty ==
  ASSUME TypeOK, NEW t \in Task, LedgerOf(t),
         status[t] \in {"NONE", "PENDING", "ASSIGNED", "IN_PROGRESS"},
         submissions'[t] = submissions[t],
         status'[t] \in {"PENDING", "ASSIGNED", "IN_PROGRESS"} \cup Terminal,
         status'[t] = "COMPLETED" => kind'[t].mode # "REVIEW_REQUIRED" \/ Imported(t)'
  PROVE  LedgerOf(t)'
<1>1. submissions'[t] = << >> /\ Len(submissions'[t]) = 0
  BY NotYetSubmitted, EmptySeq
<1> QED
  BY <1>1 DEF LedgerOf, Exists, AwaitingReview, Terminal

(* A version handed in has no verdict, and those before it were sent back. *)
LEMMA LedgerSubmit ==
  ASSUME TypeOK, NEW u \in User, NEW t \in Task, CreateSubmission(u, t), LedgerOf(t)
  PROVE  LedgerOf(t)'
<1> DEFINE s == submissions[t]
           n == Len(s)
           new == [by |-> u, review |-> Unreviewed, reviewer |-> {}]
<1>1. s \in Seq(Submission) /\ new \in Submission
  BY DEF TypeOK, Submission
<1>2. n \in Nat /\ (s = << >> <=> n = 0)
  BY <1>1, LenProperties, EmptySeq
<1>3. submissions'[t] = Append(s, new)
  BY DEF CreateSubmission, TypeOK
<1>4. /\ Len(submissions'[t]) = n + 1
      /\ submissions'[t][n + 1] = new
      /\ \A v \in 1..n : submissions'[t][v] = s[v]
  BY <1>1, <1>3, AppendProperties
<1>5. \/ status[t] = "IN_PROGRESS" /\ n = 0
      \/ status[t] = "REVISION_REQUIRED" /\ n > 0 /\ s[n].review = "REQUEST_REVISION"
  BY <1>2, NotYetSubmitted DEF CreateSubmission, Submittable, LedgerOf, Exists, Final
<1>6. status'[t] = IF status[t] = "REVISION_REQUIRED" THEN "RESUBMITTED" ELSE "SUBMITTED"
  BY DEF CreateSubmission, TypeOK
<1>7. kind'[t].mode # "DIRECT"
  BY DEF CreateSubmission
<1>8. \A v \in 1..n : s[v].review = "REQUEST_REVISION"
  BY <1>2, <1>5 DEF LedgerOf, Exists
<1>9. submissions'[t] # << >> /\ Final(submissions'[t]) = new
  BY <1>2, <1>4, EmptySeq DEF Final
<1> HIDE DEF s, n, new
<1>10. \A v \in 1..Len(submissions'[t]) :
         v < Len(submissions'[t]) => submissions'[t][v].review = "REQUEST_REVISION"
  BY <1>2, <1>4, <1>8
<1>11. new.review = Unreviewed
  BY DEF new
<1> QED
  BY <1>2, <1>4, <1>5, <1>6, <1>7, <1>9, <1>10, <1>11 DEF LedgerOf, Exists, AwaitingReview, Unreviewed

(* A verdict is given on the last version, and the status follows it.      *)
LEMMA LedgerReview ==
  ASSUME TypeOK, NEW u \in User, NEW t \in Task, NEW v \in 1..MaxVersion,
         NEW action \in ReviewAction, Review(u, t, v, action), LedgerOf(t)
  PROVE  LedgerOf(t)'
<1> DEFINE s == submissions[t]
           n == Len(s)
           new == Decided(s[v], action, u)
<1>1. s \in Seq(Submission) /\ v \in 1..n /\ v = n
  BY DEF TypeOK, Review, Reviewable
<1>2. n \in Nat \ {0}
  BY <1>1, LenProperties
<1>3. submissions'[t] = [s EXCEPT ![n] = new]
  BY <1>1 DEF Review, TypeOK
<1>4. /\ Len(submissions'[t]) = n
      /\ submissions'[t][n] = new
      /\ \A w \in 1..n : w # n => submissions'[t][w] = s[w]
  BY <1>1, <1>3, ExceptSeq
<1>5. status'[t] = IF action = "APPROVE" THEN "COMPLETED" ELSE "REVISION_REQUIRED"
  BY DEF Review, TypeOK
<1>6. kind'[t].mode # "DIRECT"
  BY DEF Review
<1>7. \A w \in 1..n : w < n => s[w].review = "REQUEST_REVISION"
  BY DEF Review, Reviewable, LedgerOf, Exists, AwaitingReview
<1>8. new.review = action /\ action \in {"APPROVE", "REQUEST_REVISION"}
  BY DEF Decided, ReviewAction
<1>9. submissions'[t] # << >> /\ Final(submissions'[t]) = new
  BY <1>2, <1>4, EmptySeq DEF Final
<1> HIDE DEF s, n, new
<1>10. \A w \in 1..n : w < n => submissions'[t][w].review = "REQUEST_REVISION"
  BY <1>2, <1>4, <1>7
<1> QED
  BY <1>2, <1>4, <1>5, <1>6, <1>8, <1>9, <1>10 DEF LedgerOf, Exists, AwaitingReview, Unreviewed

(* Every handler keeps the ledger of its task.                             *)
LEMMA LedgerStep ==
  ASSUME TypeOK, NEW u \in User, NEW t \in Task, TaskStep(u, t), PathOf(t), LedgerOf(t)
  PROVE  LedgerOf(t)'
<1> USE DEF TypeOK
<1>1. CASE CreateTask(u, t)
  BY <1>1, LedgerStaysEmpty DEF CreateTask
<1>2. CASE ImportTask(u, t)
  <2>1. PICK final \in Terminal : /\ status'[t] = final
                                  /\ history'[t] = <<Moved("NONE", final)>>
    BY <1>2 DEF ImportTask
  <2>2. Imported(t)'
    BY <2>1 DEF Imported, Moved
  <2> QED
    BY <1>2, <2>1, <2>2, LedgerStaysEmpty DEF ImportTask
<1>3. CASE ClaimTask(u, t)
  BY <1>3, LedgerStaysEmpty DEF ClaimTask
<1>4. CASE StartTask(u, t)
  BY <1>4, LedgerStaysEmpty DEF StartTask
<1>5. CASE CompleteTask(u, t)
  BY <1>5, LedgerStaysEmpty DEF CompleteTask, Terminal
<1>6. CASE CreateSubmission(u, t)
  BY <1>6, LedgerSubmit
<1>7. ASSUME NEW r \in User, AssignTask(u, t, r) PROVE LedgerOf(t)'
  BY <1>7, LedgerStaysEmpty DEF AssignTask, Assignable
<1>8. ASSUME NEW enabled \in BOOLEAN, UpdateSelfClaim(u, t, enabled) PROVE LedgerOf(t)'
  BY <1>8, LedgerStaysEmpty DEF UpdateSelfClaim
<1>9. ASSUME NEW v \in 1..MaxVersion, NEW action \in ReviewAction, Review(u, t, v, action)
      PROVE  LedgerOf(t)'
  BY <1>9, LedgerReview
<1> QED
  BY <1>1, <1>2, <1>3, <1>4, <1>5, <1>6, <1>7, <1>8, <1>9 DEF TaskStep

TaskBooks == \A t \in Task : PathOf(t) /\ LedgerOf(t)

(* Before any task the books are in order.                                 *)
LEMMA TaskBooksInit == Init => TaskBooks
BY DEF Init, TaskBooks, PathOf, LedgerOf, Exists

(* Every step keeps them.                                                  *)
LEMMA TaskBooksStep == TypeOK /\ TaskBooks /\ [Next]_vars => TaskBooks'
<1> SUFFICES ASSUME TypeOK, TaskBooks, [Next]_vars, NEW t \in Task
             PROVE  PathOf(t)' /\ LedgerOf(t)'
  BY DEF TaskBooks
<1>1. PathOf(t) /\ LedgerOf(t)
  BY DEF TaskBooks
<1>2. CASE SameTask(t)
  BY <1>1, <1>2 DEF SameTask, PathOf, LedgerOf, Exists, Imported
<1>3. ASSUME NEW u \in User, TaskStep(u, t) PROVE PathOf(t)' /\ LedgerOf(t)'
  BY <1>1, <1>3, HistoryStep, LedgerStep
<1> QED
  BY <1>2, <1>3, StepOfTask

(* The status history of a task is the path it took, whichever handlers    *)
(* wrote it: each writes the rows of the steps it makes, and a task begins *)
(* with the rows of its creation or import.                                *)
THEOREM HistoryIsThePathHolds == Spec => []HistoryIsThePath
<1>1. TaskBooks => HistoryIsThePath
  BY DEF TaskBooks, PathOf, Path, HistoryIsThePath
<1> QED
  BY <1>1, TaskBooksInit, TaskBooksStep, TypeCorrect, PTL DEF Spec

(* The verdicts, the version numbers and the status of a task say the      *)
(* same, over any rounds of submission and review.                         *)
THEOREM ReviewLedgerHolds == Spec => []ReviewLedger
<1>1. TaskBooks => ReviewLedger
  BY DEF TaskBooks, LedgerOf, ReviewLedger
<1> QED
  BY <1>1, TaskBooksInit, TaskBooksStep, TypeCorrect, PTL DEF Spec

-----------------------------------------------------------------------------
(* Work that can go on *)

(* WorkCanGoOn for one task, at every status: what creation settles about  *)
(* the people and the team of reviewed work is kept by assignment and      *)
(* claim, long before the work is under way.                               *)
WorkOf(t) ==
  Exists(t) =>
    /\ kind[t].mode = "REVIEW_REQUIRED" => responsible[t] \subseteq Member /\ kind[t].team \in Team
    /\ status[t] = "PENDING" =>
         /\ ~kind[t].recurring
         /\ kind[t].scope = "GLOBAL" => selfClaim[t]

(* A created task satisfies it by the checks of createTask on its input.   *)
LEMMA WorkCreated ==
  ASSUME TypeOK, NEW u \in User, NEW t \in Task, CreateTask(u, t)
  PROVE  WorkOf(t)'
<1>1. PICK k \in Kind, chosen \in Choice, claimFlag \in BOOLEAN :
        /\ k.owner = u
        /\ CreationAllowed(u, k, chosen, claimFlag)
        /\ status' = [status EXCEPT ![t] = IF chosen = {} THEN "PENDING" ELSE "ASSIGNED"]
        /\ kind' = [kind EXCEPT ![t] = k]
        /\ selfClaim' = [selfClaim EXCEPT ![t] = InitialSelfClaim(k, chosen, claimFlag)]
        /\ responsible' = [responsible EXCEPT ![t] = chosen]
        /\ history' = [history EXCEPT ![t] = CreationHistory(chosen)]
  BY Zenon DEF CreateTask
<1>2. /\ status'[t] = "PENDING" => chosen = {}
      /\ kind'[t] = k /\ responsible'[t] = chosen
      /\ selfClaim'[t] = InitialSelfClaim(k, chosen, claimFlag)
  BY <1>1 DEF TypeOK
<1>3. k.mode = "REVIEW_REQUIRED" => k.team \in Team /\ chosen \subseteq Member
  BY <1>1 DEF CreationAllowed, Eligible, Kind
<1>4. chosen = {} => ~k.recurring
  BY <1>1 DEF CreationAllowed
<1>5. chosen = {} /\ k.scope = "GLOBAL" => InitialSelfClaim(k, chosen, claimFlag)
  BY <1>4 DEF InitialSelfClaim
<1> QED
  BY <1>2, <1>3, <1>4, <1>5 DEF WorkOf

(* Whatever a handler does to its task, the work can go on.                *)
LEMMA WorkStep ==
  ASSUME TypeOK, NEW u \in User, NEW t \in Task, TaskStep(u, t), WorkOf(t)
  PROVE  WorkOf(t)'
<1> USE DEF TypeOK, WorkOf, Exists
<1>1. CASE CreateTask(u, t)
  BY <1>1, WorkCreated
<1>2. CASE ImportTask(u, t)
  <2>1. PICK owner \in User, team \in Team, m \in Member, final \in Terminal :
          /\ status' = [status EXCEPT ![t] = final]
          /\ kind' = [kind EXCEPT ![t] = ImportedKind(owner, team)]
          /\ responsible' = [responsible EXCEPT ![t] = {m}]
          /\ history' = [history EXCEPT ![t] = <<Moved("NONE", final)>>]
    BY <1>2, Zenon DEF ImportTask
  <2>2. /\ status'[t] = final /\ status'[t] # "PENDING"
        /\ responsible'[t] = {m}
        /\ kind'[t].team = team
    BY <2>1 DEF ImportedKind, Terminal
  <2> QED
    BY <2>2
<1>3. CASE ClaimTask(u, t)
  BY <1>3 DEF ClaimTask, Claimant
<1>4. CASE StartTask(u, t)
  BY <1>4 DEF StartTask
<1>5. CASE CompleteTask(u, t)
  BY <1>5 DEF CompleteTask
<1>6. CASE CreateSubmission(u, t)
  BY <1>6 DEF CreateSubmission, Submittable
<1>7. ASSUME NEW r \in User, AssignTask(u, t, r) PROVE WorkOf(t)'
  BY <1>7 DEF AssignTask, Assignable, Reassigned, Eligible
<1>8. ASSUME NEW enabled \in BOOLEAN, UpdateSelfClaim(u, t, enabled) PROVE WorkOf(t)'
  BY <1>8 DEF UpdateSelfClaim, CanonicalGlobal
<1>9. ASSUME NEW v \in 1..MaxVersion, NEW action \in ReviewAction, Review(u, t, v, action)
      PROVE  WorkOf(t)'
  BY <1>9 DEF Review, Reviewable, AwaitingReview
<1> QED
  BY <1>1, <1>2, <1>3, <1>4, <1>5, <1>6, <1>7, <1>8, <1>9 DEF TaskStep

Work == \A t \in Task : WorkOf(t)

(* So it holds of every task at all times.                                 *)
LEMMA WorkHolds == Spec => []Work
<1>1. Init => Work
  BY DEF Init, Work, WorkOf, Exists
<1>2. TypeOK /\ Work /\ [Next]_vars => Work'
  <2> SUFFICES ASSUME TypeOK, Work, [Next]_vars, NEW t \in Task PROVE WorkOf(t)'
    BY DEF Work
  <2>1. CASE SameTask(t)
    BY <2>1 DEF SameTask, Work, WorkOf, Exists
  <2>2. ASSUME NEW u \in User, TaskStep(u, t) PROVE WorkOf(t)'
    BY <2>2, WorkStep DEF Work
  <2> QED
    BY <2>1, <2>2, StepOfTask
<1> QED
  BY <1>1, <1>2, TypeCorrect, PTL DEF Spec

(* Reviewed work under way is with a member on a team's task, and open     *)
(* work is open to somebody, through any assignments and claims.           *)
THEOREM WorkCanGoOnHolds == Spec => []WorkCanGoOn
<1>1. Work => WorkCanGoOn
  BY DEF Work, WorkOf, WorkCanGoOn, Exists
<1> QED
  BY <1>1, WorkHolds, PTL

-----------------------------------------------------------------------------
(* The review cycle: what ReviewCycle would see of the tasks               *)

(* A decision has been taken on each version but perhaps the last.         *)
LEMMA DecisionsLength ==
  ASSUME TypeOK, NEW t \in Task, LedgerOf(t)
  PROVE  /\ DecidedCount(t) \in Nat
         /\ DecisionsOf(t) \in Seq(ReviewAction \cup {Unreviewed})
         /\ Len(DecisionsOf(t)) = DecidedCount(t)
         /\ \A v \in 1..DecidedCount(t) : DecisionsOf(t)[v] = submissions[t][v].review
<1>1. submissions[t] \in Seq(Submission) /\ Len(submissions[t]) \in Nat
  BY LenProperties DEF TypeOK
<1>2. DecidedCount(t) \in Nat /\ DecidedCount(t) <= Len(submissions[t])
  <2>1. status[t] \in AwaitingReview => Len(submissions[t]) # 0
    BY <1>1, EmptySeq DEF LedgerOf, Exists, AwaitingReview
  <2> QED
    BY <1>1, <2>1 DEF DecidedCount
<1>3. \A v \in 1..DecidedCount(t) : submissions[t][v].review \in ReviewAction \cup {Unreviewed}
  <2>1. \A v \in 1..DecidedCount(t) : submissions[t][v] \in Submission
    BY <1>1, <1>2, ElementOfSeq
  <2> QED
    BY <2>1 DEF Submission
<1>4. DecisionsOf(t) \in [1..DecidedCount(t) -> ReviewAction \cup {Unreviewed}]
  BY <1>3 DEF DecisionsOf
<1>5. DecisionsOf(t) \in Seq(ReviewAction \cup {Unreviewed})
  BY <1>2, <1>4, SeqDef
<1>6. Len(DecisionsOf(t)) = DecidedCount(t)
  BY <1>2, <1>4, <1>5, LenProperties
<1> QED
  BY <1>2, <1>5, <1>6 DEF DecisionsOf

(* Tasks start where the review cycle starts.                              *)
LEMMA CycleStarts == Init => Cycle!CycleInit
<1> SUFFICES ASSUME Init PROVE Cycle!CycleInit
  OBVIOUS
<1>1. \A t \in Task : PhaseOf(t) = "DRAFTING" /\ Len(submissions[t]) = 0
  BY EmptySeq DEF Init, PhaseOf, AwaitingReview
<1>2. ASSUME NEW t \in Task PROVE DecisionsOf(t) = << >>
  <2>1. TypeOK /\ LedgerOf(t) /\ DecidedCount(t) = 0
    BY <1>1, TaskBooksInit DEF Init, TypeOK, User, DecidedCount, TaskBooks, AwaitingReview
  <2>2. Len(DecisionsOf(t)) = 0 /\ DecisionsOf(t) \in Seq(ReviewAction \cup {Unreviewed})
    BY <2>1, DecisionsLength
  <2> QED
    BY <2>2, EmptySeq
<1> QED
  BY <1>1, <1>2 DEF Cycle!CycleInit

(* How the cycle sees a task, and that a step leaves it so.                *)
LooksTheSame(t) ==
  /\ PhaseOf(t)' = PhaseOf(t) /\ Len(submissions[t])' = Len(submissions[t])
  /\ DecisionsOf(t)' = DecisionsOf(t)

(* A task nobody works on looks the same afterwards.                       *)
LEMMA UntouchedLooksTheSame ==
  ASSUME NEW t \in Task, SameTask(t)
  PROVE  LooksTheSame(t)
BY DEF SameTask, LooksTheSame, PhaseOf, DecisionsOf, DecidedCount

(* Outside submission and review the cycle sees nothing.                   *)
LEMMA QuietStep ==
  ASSUME TypeOK, NEW u \in User, NEW t \in Task, TaskStep(u, t), LedgerOf(t),
         ~CreateSubmission(u, t),
         ~\E v \in 1..MaxVersion, action \in ReviewAction : Review(u, t, v, action)
  PROVE  LooksTheSame(t)
<1> DEFINE Early == {"NONE", "PENDING", "ASSIGNED", "IN_PROGRESS"} \cup Terminal
<1> USE DEF TypeOK
<1>1. submissions'[t] = submissions[t] /\ status[t] \in Early /\ status'[t] \in Early
  <2>1. CASE CreateTask(u, t) \/ ImportTask(u, t)
    BY <2>1 DEF CreateTask, ImportTask
  <2>2. CASE ClaimTask(u, t) \/ StartTask(u, t) \/ CompleteTask(u, t)
    BY <2>2 DEF ClaimTask, StartTask, CompleteTask, Terminal
  <2>3. ASSUME NEW r \in User, AssignTask(u, t, r)
        PROVE  submissions'[t] = submissions[t] /\ status[t] \in Early /\ status'[t] \in Early
    BY <2>3 DEF AssignTask, Assignable
  <2>4. ASSUME NEW enabled \in BOOLEAN, UpdateSelfClaim(u, t, enabled)
        PROVE  submissions'[t] = submissions[t] /\ status[t] \in Early /\ status'[t] \in Early
    BY <2>4 DEF UpdateSelfClaim
  <2> QED
    BY <2>1, <2>2, <2>3, <2>4 DEF TaskStep
<1>2. \A s \in Early : s \notin AwaitingReview /\ s # "REVISION_REQUIRED"
  BY DEF Terminal, AwaitingReview
<1> QED
  BY <1>1, <1>2 DEF LooksTheSame, PhaseOf, DecidedCount, DecisionsOf

(* createSubmission hands in a version, in the abstract cycle.             *)
LEMMA SubmissionHandsIn ==
  ASSUME TypeOK, NEW u \in User, NEW t \in Task, CreateSubmission(u, t), LedgerOf(t),
         \A w \in Task \ {t} : LooksTheSame(w)
  PROVE  Cycle!HandIn(t)
<1> DEFINE n == Len(submissions[t])
           new == [by |-> u, review |-> Unreviewed, reviewer |-> {}]
<1>1. submissions[t] \in Seq(Submission) /\ n \in Nat /\ new \in Submission
  BY LenProperties DEF TypeOK, Submission
<1>2. submissions'[t] = Append(submissions[t], new) /\ status'[t] \in AwaitingReview
  BY DEF CreateSubmission, TypeOK, AwaitingReview
<1> HIDE DEF new
<1>3. Len(submissions'[t]) = n + 1 /\ \A v \in 1..n : submissions'[t][v] = submissions[t][v]
  BY <1>1, <1>2, AppendProperties
<1>4. PhaseOf(t) \in {"DRAFTING", "REVISING"} /\ PhaseOf(t)' = "AWAITING"
  BY <1>2, NotYetSubmitted DEF CreateSubmission, Submittable, PhaseOf, AwaitingReview
<1>5. DecidedCount(t) = n /\ DecidedCount(t)' = n
  BY <1>1, <1>2, <1>3 DEF CreateSubmission, Submittable, DecidedCount, AwaitingReview
<1>6. DecisionsOf(t)' = DecisionsOf(t)
  BY <1>3, <1>5 DEF DecisionsOf
<1> QED
  BY <1>3, <1>4, <1>6 DEF Cycle!HandIn, LooksTheSame

(* A review of the latest version is a decision of the abstract cycle.     *)
LEMMA ReviewDecides ==
  ASSUME TypeOK, NEW u \in User, NEW t \in Task, NEW v \in 1..MaxVersion,
         NEW action \in ReviewAction, Review(u, t, v, action), LedgerOf(t),
         \A w \in Task \ {t} : LooksTheSame(w)
  PROVE  Cycle!Decide(t, action)
<1> DEFINE s == submissions[t]
           n == Len(s)
           verdict == Decided(s[v], action, u)
<1>1. s \in Seq(Submission) /\ v \in 1..n /\ v = n
  BY DEF TypeOK, Review, Reviewable
<1>2. n \in Nat \ {0}
  BY <1>1, LenProperties
<1>3. submissions'[t] = [s EXCEPT ![n] = verdict]
  BY <1>1 DEF Review, TypeOK
<1>4. /\ Len(submissions'[t]) = n
      /\ submissions'[t][n] = verdict
      /\ \A w \in 1..n : w # n => submissions'[t][w] = s[w]
  BY <1>1, <1>3, ExceptSeq
<1>5. status'[t] = IF action = "APPROVE" THEN "COMPLETED" ELSE "REVISION_REQUIRED"
  BY DEF Review, TypeOK
<1>6. verdict.review = action
  BY DEF Decided
<1> HIDE DEF verdict
<1>7. status[t] \in AwaitingReview /\ PhaseOf(t) = "AWAITING"
  BY DEF Review, Reviewable, PhaseOf
<1>8. submissions'[t] # << >>
  BY <1>2, <1>4, EmptySeq
<1>9. PhaseOf(t)' = IF action = "APPROVE" THEN "APPROVED" ELSE "REVISING"
  BY <1>5, <1>8 DEF PhaseOf, AwaitingReview
<1>10. DecidedCount(t) = n - 1 /\ DecidedCount(t)' = n
  BY <1>4, <1>5, <1>7 DEF DecidedCount, AwaitingReview
<1>11. DecisionsOf(t)' = Append(DecisionsOf(t), action)
  <2> DEFINE D == ReviewAction \cup {Unreviewed}
             old == DecisionsOf(t)
             new == DecisionsOf(t)'
  <2>1. /\ old \in Seq(D) /\ Len(old) = n - 1
        /\ \A w \in 1..(n - 1) : old[w] = s[w].review
    BY <1>10, DecisionsLength
  <2>2. new = [w \in 1..n |-> submissions'[t][w].review]
    BY <1>10 DEF DecisionsOf
  <2>3. \A w \in 1..n : new[w] = IF w = n THEN action ELSE old[w]
    <3> HIDE DEF n, s, old, new
    <3> SUFFICES ASSUME NEW w \in 1..n PROVE new[w] = IF w = n THEN action ELSE old[w]
      OBVIOUS
    <3>1. new[w] = submissions'[t][w].review
      BY <2>2
    <3>2. CASE w = n
      BY <1>4, <1>6, <3>1, <3>2
    <3>3. CASE w # n
      <4>1. w \in 1..(n - 1)
        BY <1>2, <3>3
      <4> QED
        BY <1>4, <2>1, <3>1, <3>3, <4>1
    <3> QED
      BY <3>2, <3>3
  <2>4. \A w \in 1..n : new[w] \in D
    BY <2>1, <2>3, ElementOfSeq
  <2>5. new \in [1..n -> D]
    BY <2>2, <2>4
  <2>6. new \in Seq(D) /\ Len(new) = n
    BY <1>2, <2>5, SeqDef, LenProperties
  <2>7. /\ Append(old, action) \in Seq(D) /\ Len(Append(old, action)) = n
        /\ \A w \in 1..n : Append(old, action)[w] = IF w = n THEN action ELSE old[w]
    BY <1>2, <2>1, AppendProperties
  <2> HIDE DEF D, old, new
  <2>8. new = Append(old, action)
    BY <2>3, <2>6, <2>7, SeqEqual
  <2> QED
    BY <2>8 DEF new, old
<1> QED
  BY <1>4, <1>7, <1>9, <1>11 DEF Cycle!Decide, LooksTheSame

(* Every step is a step of the review cycle, or none.                      *)
LEMMA CycleStep ==
  ASSUME TypeOK, TaskBooks, [Next]_vars
  PROVE  [Cycle!CycleNext]_(Cycle!cycleVars)
<1>1. CASE UNCHANGED taskVars
  BY <1>1 DEF taskVars, Cycle!cycleVars, PhaseOf, DecisionsOf, DecidedCount
<1>2. ASSUME NEW u \in User, NEW t \in Task, TaskStep(u, t)
      PROVE  [Cycle!CycleNext]_(Cycle!cycleVars)
  <2>1. LedgerOf(t) /\ \A w \in Task \ {t} : LooksTheSame(w)
    BY <1>2, OthersStay, UntouchedLooksTheSame DEF TaskBooks
  <2>2. CASE CreateSubmission(u, t)
    BY <2>1, <2>2, SubmissionHandsIn DEF Cycle!CycleNext
  <2>3. ASSUME NEW v \in 1..MaxVersion, NEW action \in ReviewAction, Review(u, t, v, action)
        PROVE  Cycle!CycleNext
    BY <2>1, <2>3, ReviewDecides DEF Cycle!CycleNext, Cycle!Decision, ReviewAction
  <2>4. CASE /\ ~CreateSubmission(u, t)
             /\ ~\E v \in 1..MaxVersion, action \in ReviewAction : Review(u, t, v, action)
    <3>1. \A w \in Task : LooksTheSame(w)
      BY <1>2, <2>1, <2>4, QuietStep
    <3> QED
      BY <3>1 DEF LooksTheSame, Cycle!cycleVars
  <2> QED
    BY <2>2, <2>3, <2>4
<1> QED
  BY <1>1, <1>2, StepCases DEF TaskStep

(* Submission and review of tasks go through the cycle that reports go     *)
(* through as well; assignment, reassignment, direct completion and import *)
(* never take part in it.                                                  *)
THEOREM ImplementsReviewCycleHolds == Spec => ImplementsReviewCycle
BY CycleStarts, CycleStep, TaskBooksInit, TaskBooksStep, TypeCorrect, PTL
   DEF Spec, ImplementsReviewCycle, Cycle!CycleSpec

-----------------------------------------------------------------------------
(* The pages                                                               *)

(* Every revision counted for somebody concerns a task counted for them.   *)
LEMMA CreditStaysTogether ==
  ASSUME TypeOK, SingleAuthor, NEW u \in User
  PROVE  {r[1] : r \in RevisionsOf(u)} \subseteq CurrentAssignmentTasks(u)
<1> SUFFICES ASSUME NEW r \in RevisionsOf(u) PROVE r[1] \in CurrentAssignmentTasks(u)
  OBVIOUS
<1>1. /\ r[1] \in Stored
      /\ r[2] \in 1..MaxVersion
      /\ r[2] <= Len(submissions[r[1]])
      /\ submissions[r[1]][r[2]].by = u
  BY DEF RevisionsOf, Revisions
<1>2. r[1] \in Task
  BY <1>1 DEF Stored
<1>3. Len(submissions[r[1]]) \in Nat
  BY <1>2 DEF TypeOK
<1>4. r[2] \in 1..Len(submissions[r[1]])
  BY <1>1, <1>3, MaxVersionAssumption
<1>5. u \in responsible[r[1]]
  BY <1>1, <1>2, <1>4 DEF SingleAuthor
<1> QED
  BY <1>1, <1>5 DEF CurrentAssignmentTasks

(* Credit for tasks and credit for revisions never part, although the one  *)
(* moves with the assignment and the other stays with the author.          *)
THEOREM RevisionsAreOwnHolds == Spec => []RevisionsAreOwn
<1>1. TypeOK /\ SingleAuthor => RevisionsAreOwn
  <2> SUFFICES ASSUME TypeOK, SingleAuthor, NEW u \in User
               PROVE  /\ {r[1] : r \in RevisionsOf(u)} \subseteq CurrentAssignmentTasks(u)
                      /\ MemberSummary(u).performance.tasksWithRevision
                           <= MemberSummary(u).performance.totalTasks
    BY DEF RevisionsAreOwn
  <2>1. {r[1] : r \in RevisionsOf(u)} \subseteq CurrentAssignmentTasks(u)
    BY CreditStaysTogether
  <2>2. IsFiniteSet(CurrentAssignmentTasks(u))
    BY TasksAssumption, FS_Subset DEF CurrentAssignmentTasks, Stored
  <2>3. Cardinality({r[1] : r \in RevisionsOf(u)}) <= Cardinality(CurrentAssignmentTasks(u))
    BY <2>1, <2>2, FS_Subset
  <2> QED
    BY <2>1, <2>3 DEF MemberSummary, PerformanceMetrics
<1> QED
  BY <1>1, TypeCorrect, SingleAuthorHolds, PTL

-----------------------------------------------------------------------------
(* Sums of counts over the rows of a page.  They are shown as in           *)
(* Inventory_proofs, by a smallest subset for which they would fail.       *)

(* A set of subsets of a finite set has a smallest one.                    *)
LEMMA SmallestSubset ==
  ASSUME NEW S, IsFiniteSet(S), NEW B \in SUBSET (SUBSET S), B # {}
  PROVE  \E T \in B : \A U \in B : U \subseteq T => U = T
<1> DEFINE R == StrictSubsetOrdering(S)
<1>1. IsWellFoundedOn(R, SUBSET S)
  <2>1. IsWellFoundedOn(R, FiniteSubsetsOf(S))
    BY FS_StrictSubsetOrderingWellFounded
  <2>2. FiniteSubsetsOf(S) = SUBSET S
    BY FS_FiniteSubsetsOfFinite
  <2> HIDE DEF R
  <2> QED
    BY <2>1, <2>2
<1>2. PICK T \in B : \A U \in B : ~ (<<U, T>> \in R)
  <2> HIDE DEF R
  <2> QED
    BY <1>1, WFMin
<1>3. \A U \in B : U \subseteq T /\ U # T => <<U, T>> \in R
  BY DEF StrictSubsetOrdering
<1> HIDE DEF R
<1>4. \A U \in B : U \subseteq T => U = T
  BY <1>2, <1>3
<1> QED
  BY <1>4

One(s) == CHOOSE x \in s : TRUE

(* What is chosen of a set is in it.                                       *)
LEMMA OneIsIn == ASSUME NEW s, s # {} PROVE One(s) \in s
BY DEF One

(* g sums f over the subsets of S.                                         *)
Adds(g, f, S) ==
  g = [s \in SUBSET S |-> IF s = {} THEN 0 ELSE f[One(s)] + g[s \ {One(s)}]]

(* A sum, as the folds of the library define it.                          *)
LEMMA SumIsChosen ==
  ASSUME NEW S, NEW f
  PROVE  SumFunctionOnSet(f, S) = (CHOOSE g : Adds(g, f, S))[S]
BY DEF SumFunctionOnSet, FoldFunctionOnSet, MapThenFoldSet, Adds, One

(* Sums do not depend on the set within which they are taken.              *)
LEMMA AddsAlike ==
  ASSUME NEW S, IsFiniteSet(S), NEW T, NEW f, NEW g, NEW h,
         Adds(g, f, S), Adds(h, f, T), NEW U \in SUBSET S, U \subseteq T
  PROVE  g[U] = h[U]
<1> DEFINE B == {V \in SUBSET S : V \subseteq T /\ g[V] # h[V]}
<1> SUFFICES ASSUME B # {} PROVE FALSE
  OBVIOUS
<1>1. PICK V \in B : \A W \in B : W \subseteq V => W = V
  <2>1. B \in SUBSET (SUBSET S)
    OBVIOUS
  <2> HIDE DEF B
  <2> QED
    BY <2>1, SmallestSubset
<1>2. /\ g[V] = IF V = {} THEN 0 ELSE f[One(V)] + g[V \ {One(V)}]
      /\ h[V] = IF V = {} THEN 0 ELSE f[One(V)] + h[V \ {One(V)}]
  BY DEF Adds
<1>3. V # {}
  BY <1>2
<1>4. One(V) \in V
  BY <1>3, OneIsIn
<1>5. V \ {One(V)} \notin B
  BY <1>1, <1>4
<1>6. g[V \ {One(V)}] = h[V \ {One(V)}]
  BY <1>5
<1> QED
  BY <1>2, <1>3, <1>6

(* Whatever sums f over the subsets of S gives its sum.                    *)
LEMMA SumIsASum ==
  ASSUME NEW S, IsFiniteSet(S), NEW f, NEW g, Adds(g, f, S)
  PROVE  SumFunctionOnSet(f, S) = g[S]
<1> DEFINE h == CHOOSE k : Adds(k, f, S)
<1>1. Adds(h, f, S)
  OBVIOUS
<1>2. h[S] = g[S]
  <2> HIDE DEF h
  <2> QED
    BY <1>1, AddsAlike
<1> QED
  BY <1>2, SumIsChosen

(* count gives the sizes of disjoint parts of W, one for each of S.        *)
Counts(count, part, S, W) ==
  /\ IsFiniteSet(S) /\ IsFiniteSet(W)
  /\ \A x \in S : part[x] \subseteq W /\ count[x] = Cardinality(part[x])
  /\ \A x, y \in S : x # y => part[x] \cap part[y] = {}

Whole(part, S) == UNION {part[x] : x \in S}

(* What falls into one part each is counted once by the sum of the parts.  *)
LEMMA CountByParts ==
  ASSUME NEW S, NEW W, NEW part, NEW count, Counts(count, part, S, W)
  PROVE  /\ SumFunctionOnSet(count, S) = Cardinality(Whole(part, S))
         /\ IsFiniteSet(Whole(part, S))
<1> USE DEF Counts
<1> DEFINE all(V) == UNION {part[x] : x \in V}
           g == [V \in SUBSET S |-> Cardinality(all(V))]
<1>1. ASSUME NEW V \in SUBSET S PROVE all(V) \subseteq W /\ IsFiniteSet(all(V))
  <2>1. all(V) \subseteq W
    OBVIOUS
  <2> HIDE DEF all
  <2> QED
    BY <2>1, FS_Subset
<1>2. ASSUME NEW V \in SUBSET S, V # {}
      PROVE  Cardinality(all(V)) = count[One(V)] + Cardinality(all(V \ {One(V)}))
  <2> DEFINE z == One(V)
             D == V \ {z}
  <2>1. z \in V
    BY <1>2, OneIsIn
  <2> HIDE DEF z
  <2>2. all(V) = part[z] \cup all(D) /\ part[z] \cap all(D) = {}
    BY <2>1
  <2>3. IsFiniteSet(part[z]) /\ IsFiniteSet(all(D)) /\ D \in SUBSET S
    BY <1>1, <2>1, FS_Subset
  <2>4. count[z] = Cardinality(part[z])
    BY <2>1
  <2> HIDE DEF all, D
  <2>5. /\ Cardinality(all(V)) = Cardinality(part[z]) + Cardinality(all(D)) - Cardinality({})
        /\ Cardinality(part[z]) \in Nat /\ Cardinality(all(D)) \in Nat /\ Cardinality({}) = 0
    BY <2>2, <2>3, FS_Union, FS_CardinalityType, FS_EmptySet
  <2> QED
    BY <2>4, <2>5 DEF z, D
<1>3. Cardinality(all({})) = 0
  BY FS_EmptySet
<1>4. Adds(g, count, S)
  <2> DEFINE h == [V \in SUBSET S |-> IF V = {} THEN 0 ELSE count[One(V)] + g[V \ {One(V)}]]
  <2>1. ASSUME NEW V \in SUBSET S PROVE g[V] = h[V]
    <3>1. V \ {One(V)} \in SUBSET S
      OBVIOUS
    <3> HIDE DEF all
    <3> QED
      BY <1>2, <1>3, <3>1
  <2>2. g = h
    <3> HIDE DEF all
    <3> QED
      BY <2>1
  <2> HIDE DEF all
  <2> QED
    BY <2>2 DEF Adds
<1>5. g[S] = Cardinality(all(S))
  OBVIOUS
<1> HIDE DEF g, all
<1>6. SumFunctionOnSet(count, S) = Cardinality(all(S)) /\ IsFiniteSet(all(S))
  BY <1>1, <1>4, <1>5, SumIsASum
<1> QED
  BY <1>6 DEF all, Whole

(* What is in two parts is counted by both.                                *)
LEMMA TwoParts ==
  ASSUME NEW S, IsFiniteSet(S), NEW T, IsFiniteSet(T), S \cap T = {}
  PROVE  /\ Cardinality(S \cup T) = Cardinality(S) + Cardinality(T)
         /\ IsFiniteSet(S \cup T) /\ Cardinality(S) \in Nat /\ Cardinality(T) \in Nat
<1>1. Cardinality(S \cup T) = Cardinality(S) + Cardinality(T) - Cardinality({})
  BY FS_Union
<1> QED
  BY <1>1, FS_Union, FS_CardinalityType, FS_EmptySet

-----------------------------------------------------------------------------
(* The pages agree *)

OpenIn(tasks) == InStatus(tasks, TaskStatus \ Terminal)

(* Any stored tasks are finitely many.                                     *)
LEMMA StoredIsFinite ==
  ASSUME NEW tasks, tasks \subseteq Stored
  PROVE  /\ IsFiniteSet(tasks) /\ Cardinality(tasks) \in Nat
         /\ \A some : InStatus(tasks, some) \subseteq tasks /\ IsFiniteSet(InStatus(tasks, some))
<1>1. ASSUME NEW part, part \subseteq tasks PROVE IsFiniteSet(part)
  BY <1>1, TasksAssumption, FS_Subset DEF Stored
<1>2. \A some : InStatus(tasks, some) \subseteq tasks
  BY DEF InStatus
<1> QED
  BY <1>1, <1>2, FS_CardinalityType

(* activeTasks, a difference of counts, counts the open tasks.             *)
LEMMA ActiveIsOpen ==
  ASSUME TypeOK, NEW tasks, tasks \subseteq Stored
  PROVE  WorkloadMetrics(tasks).activeTasks = Cardinality(OpenIn(tasks))
<1> DEFINE done == InStatus(tasks, Terminal)
<1>1. OpenIn(tasks) = tasks \ done /\ tasks \cap done = done
  BY DEF OpenIn, InStatus, Stored, Exists, TypeOK
<1>2. IsFiniteSet(tasks)
  BY StoredIsFinite
<1> HIDE DEF done
<1>3. Cardinality(tasks \ done) = Cardinality(tasks) - Cardinality(tasks \cap done)
  BY <1>2, FS_Difference
<1> QED
  BY <1>1, <1>3 DEF WorkloadMetrics, done

(* An open task is with one member, with an admin, or waits for somebody.  *)
LEMMA OpenTasksByMember ==
  ASSUME TypeOK, OneResponsible
  PROVE  SuperAdminOverview.workload.activeTasks
           = SumFunctionOnSet([m \in Member |-> SuperAdminWorkload.byMember[m].activeTasks], Member)
             + Cardinality(OpenIn(WithAdmins))
             + SuperAdminOverview.workload.statusCounts["PENDING"]
<1> DEFINE part == [m \in Member |-> OpenIn(MemberTasks(m))]
           count == [m \in Member |-> SuperAdminWorkload.byMember[m].activeTasks]
           members == Whole(part, Member)
           admins == OpenIn(WithAdmins)
           pending == InStatus(Stored, {"PENDING"})
<1>1. \A m \in Member : part[m] \subseteq Stored
  BY DEF OpenIn, InStatus, MemberTasks, CurrentAssignmentTasks
<1>2. \A m \in Member : count[m] = Cardinality(part[m])
  <2> SUFFICES ASSUME NEW m \in Member PROVE count[m] = Cardinality(part[m])
    OBVIOUS
  <2>1. MemberTasks(m) \subseteq Stored
    BY DEF MemberTasks, CurrentAssignmentTasks
  <2>2. WorkloadMetrics(MemberTasks(m)).activeTasks = Cardinality(OpenIn(MemberTasks(m)))
    BY <2>1, ActiveIsOpen
  <2> QED
    BY <2>2 DEF SuperAdminWorkload, MemberWorkloadRow
<1>3. \A m, n \in Member : m # n => part[m] \cap part[n] = {}
  BY DEF OneResponsible, OpenIn, InStatus, MemberTasks, CurrentAssignmentTasks, Stored
<1>4. /\ OpenIn(Stored) = (members \cup admins) \cup pending
      /\ members \cap admins = {} /\ (members \cup admins) \cap pending = {}
  <2>1. ASSUME NEW t \in OpenIn(Stored) PROVE t \in members \/ t \in admins \/ t \in pending
    <3>1. t \in Stored /\ t \in Task /\ status[t] \in TaskStatus \ Terminal /\ status[t] # "NONE"
      BY DEF OpenIn, InStatus, Stored, Exists
    <3>2. CASE responsible[t] = {}
      BY <3>1, <3>2 DEF OneResponsible, InStatus
    <3>3. ASSUME NEW u \in responsible[t] PROVE t \in members \/ t \in admins
      <4>1. u \in User
        BY <3>1 DEF TypeOK
      <4>2. CASE u \in Member
        BY <3>1, <3>3, <4>2 DEF Whole, OpenIn, InStatus, MemberTasks, CurrentAssignmentTasks
      <4>3. CASE u \in Admin \cup SuperAdmin
        BY <3>1, <3>3, <4>3 DEF OpenIn, InStatus, WithAdmins
      <4> QED
        BY <4>1, <4>2, <4>3 DEF User
    <3> QED
      BY <3>2, <3>3
  <2>2. /\ members \subseteq OpenIn(Stored) /\ admins \subseteq OpenIn(Stored)
        /\ pending \subseteq OpenIn(Stored)
    BY DEF Whole, OpenIn, InStatus, MemberTasks, CurrentAssignmentTasks, WithAdmins, TaskStatus,
           Terminal
  <2>3. ASSUME NEW t \in members PROVE t \notin admins /\ t \notin pending
    <3>1. PICK m \in Member : m \in responsible[t] /\ t \in Task
      BY DEF Whole, OpenIn, InStatus, MemberTasks, CurrentAssignmentTasks, Stored
    <3>2. \A u \in responsible[t] : u = m
      BY <3>1 DEF OneResponsible
    <3>3. m \notin Admin \cup SuperAdmin
      BY RolesAssumption
    <3> QED
      BY <3>1, <3>2, <3>3 DEF OneResponsible, OpenIn, InStatus, WithAdmins
  <2>4. ASSUME NEW t \in admins PROVE t \notin pending
    BY DEF OneResponsible, OpenIn, InStatus, WithAdmins, Stored
  <2> HIDE DEF members, admins, pending
  <2> QED
    BY <2>1, <2>2, <2>3, <2>4
<1>5. IsFiniteSet(admins) /\ IsFiniteSet(pending) /\ IsFiniteSet(Stored)
  <2>1. WithAdmins \subseteq Stored
    BY DEF WithAdmins
  <2> QED
    BY <2>1, StoredIsFinite DEF OpenIn
<1>6. SuperAdminOverview.workload.activeTasks = Cardinality(OpenIn(Stored))
  BY ActiveIsOpen DEF SuperAdminOverview, TaskKpis
<1>7. SuperAdminOverview.workload.statusCounts["PENDING"] = Cardinality(pending)
  BY DEF SuperAdminOverview, TaskKpis, WorkloadMetrics, TaskStatus
<1> HIDE DEF part, count
<1>8. SumFunctionOnSet(count, Member) = Cardinality(members) /\ IsFiniteSet(members)
  <2>1. Counts(count, part, Member, Stored)
    BY <1>1, <1>2, <1>3, <1>5, RowsAssumption DEF Counts
  <2> QED
    BY <2>1, CountByParts
<1> HIDE DEF members, admins, pending
<1>9. Cardinality((members \cup admins) \cup pending)
        = Cardinality(members) + Cardinality(admins) + Cardinality(pending)
  BY <1>4, <1>5, <1>8, TwoParts
<1> QED
  BY <1>4, <1>6, <1>7, <1>8, <1>9 DEF count, admins

(* An open task is in one team, or global.                                 *)
LEMMA OpenTasksByTeam ==
  ASSUME TypeOK, KindKnown
  PROVE  SuperAdminOverview.workload.activeTasks
           = SumFunctionOnSet([team \in Team |->
                                 SuperAdminWorkload.byTeam[team].workload.activeTasks], Team)
             + Cardinality(OpenIn(TeamTasks({NoTeam})))
<1> DEFINE part == [team \in Team |-> OpenIn(TeamTasks({team}))]
           count == [team \in Team |-> SuperAdminWorkload.byTeam[team].workload.activeTasks]
           teams == Whole(part, Team)
           global == OpenIn(TeamTasks({NoTeam}))
<1>1. \A some : TeamTasks(some) \subseteq Stored
  BY DEF TeamTasks
<1>2. \A team \in Team : part[team] \subseteq Stored /\ count[team] = Cardinality(part[team])
  <2> SUFFICES ASSUME NEW team \in Team
               PROVE  part[team] \subseteq Stored /\ count[team] = Cardinality(part[team])
    OBVIOUS
  <2>1. WorkloadMetrics(TeamTasks({team})).activeTasks = Cardinality(OpenIn(TeamTasks({team})))
    BY <1>1, ActiveIsOpen
  <2>2. part[team] \subseteq Stored
    BY <1>1 DEF OpenIn, InStatus
  <2> QED
    BY <2>1, <2>2 DEF SuperAdminWorkload, TeamWorkloadRow
<1>3. \A x, y \in Team : x # y => part[x] \cap part[y] = {}
  BY DEF OpenIn, InStatus, TeamTasks
<1>4. OpenIn(Stored) = teams \cup global /\ teams \cap global = {}
  <2>1. \A t \in Stored : kind[t].team \in Team \cup {NoTeam}
    BY DEF Stored, Exists, KindKnown, Kind
  <2>2. OpenIn(Stored) \subseteq teams \cup global
    BY <2>1 DEF Whole, OpenIn, InStatus, TeamTasks
  <2>3. teams \subseteq OpenIn(Stored) /\ global \subseteq OpenIn(Stored)
    BY DEF Whole, OpenIn, InStatus, TeamTasks
  <2>4. teams \cap global = {}
    BY NoTeamAssumption DEF Whole, OpenIn, InStatus, TeamTasks
  <2> HIDE DEF teams, global
  <2> QED
    BY <2>2, <2>3, <2>4
<1>5. IsFiniteSet(global) /\ IsFiniteSet(Stored)
  BY <1>1, StoredIsFinite DEF OpenIn
<1>6. SuperAdminOverview.workload.activeTasks = Cardinality(OpenIn(Stored))
  BY ActiveIsOpen DEF SuperAdminOverview, TaskKpis
<1> HIDE DEF part, count
<1>7. SumFunctionOnSet(count, Team) = Cardinality(teams) /\ IsFiniteSet(teams)
  <2>1. Counts(count, part, Team, Stored)
    BY <1>2, <1>3, <1>5, RowsAssumption DEF Counts
  <2> QED
    BY <2>1, CountByParts
<1> HIDE DEF teams, global
<1> QED
  BY <1>4, <1>5, <1>6, <1>7, TwoParts DEF count, global

(* Every revision was asked of a member, of work on a team's task.         *)
LEMMA RevisionsByTeamAndMember ==
  ASSUME TypeOK, KindKnown, TaskBooks, Work, SingleAuthor
  PROVE  SumFunctionOnSet([team \in Team |-> TeamSummary(team).performance.revisionCount], Team)
           = SumFunctionOnSet([m \in Member |-> MemberSummary(m).performance.revisionCount], Member)
<1> DEFINE all == Revisions(Stored)
           ofTeam == [team \in Team |-> TeamRevisions(team)]
           ofMember == [m \in Member |-> RevisionsOf(m)]
           byTeam == [team \in Team |-> TeamSummary(team).performance.revisionCount]
           byMember == [m \in Member |-> MemberSummary(m).performance.revisionCount]
<1>1. IsFiniteSet(all)
  <2>1. IsFiniteSet(Stored) /\ IsFiniteSet(1..MaxVersion)
    BY MaxVersionAssumption, StoredIsFinite, FS_Interval
  <2>2. IsFiniteSet(Stored \X (1..MaxVersion))
    BY <2>1, FS_Product
  <2> QED
    BY <2>2, FS_Subset DEF Revisions
<1>2. ASSUME NEW r \in all
      PROVE  /\ r[1] \in Stored /\ kind[r[1]].team \in Team
             /\ submissions[r[1]][r[2]].by \in Member
  <2>1. /\ r[1] \in Stored /\ r[1] \in Task /\ r[2] \in 1..MaxVersion
        /\ r[2] <= Len(submissions[r[1]])
    BY DEF Revisions, Stored
  <2>2. submissions[r[1]] \in Seq(Submission)
    BY <2>1 DEF TypeOK
  <2>3. r[2] \in 1..Len(submissions[r[1]]) /\ submissions[r[1]] # << >>
    BY <2>1, <2>2, MaxVersionAssumption, LenProperties, EmptySeq
  <2>4. kind[r[1]] \in Kind /\ kind[r[1]].mode # "DIRECT"
    BY <2>1, <2>3 DEF KindKnown, TaskBooks, LedgerOf, Stored, Exists
  <2>5. kind[r[1]].mode = "REVIEW_REQUIRED"
    BY <2>4 DEF Kind
  <2>6. kind[r[1]].team \in Team /\ responsible[r[1]] \subseteq Member
    BY <2>1, <2>5 DEF Work, WorkOf, Stored
  <2>7. submissions[r[1]][r[2]].by \in responsible[r[1]]
    BY <2>1, <2>3 DEF SingleAuthor
  <2> QED
    BY <2>1, <2>6, <2>7
<1>3. \A team \in Team : ofTeam[team] = {r \in all : kind[r[1]].team = team}
  <2> SUFFICES ASSUME NEW team \in Team
               PROVE  Revisions(TeamTasks({team}))
                        = {r \in Revisions(Stored) : kind[r[1]].team = team}
    BY DEF TeamRevisions
  <2> QED
    BY DEF Revisions, TeamTasks
<1>4. \A m \in Member : ofMember[m] = {r \in all : submissions[r[1]][r[2]].by = m}
  BY DEF RevisionsOf
<1>5. \A team \in Team : byTeam[team] = Cardinality(ofTeam[team])
  BY DEF TeamSummary, PerformanceMetrics
<1>6. \A m \in Member : byMember[m] = Cardinality(ofMember[m])
  BY DEF MemberSummary, PerformanceMetrics
<1> HIDE DEF all, ofTeam, ofMember, byTeam, byMember
<1>7. SumFunctionOnSet(byTeam, Team) = Cardinality(Whole(ofTeam, Team))
  <2>1. \A x \in Team : ofTeam[x] \subseteq all
    BY <1>3
  <2>2. \A x, y \in Team : x # y => ofTeam[x] \cap ofTeam[y] = {}
    BY <1>3
  <2>3. Counts(byTeam, ofTeam, Team, all)
    BY <1>1, <1>5, <2>1, <2>2, RowsAssumption DEF Counts
  <2> QED
    BY <2>3, CountByParts
<1>8. SumFunctionOnSet(byMember, Member) = Cardinality(Whole(ofMember, Member))
  <2>1. \A x \in Member : ofMember[x] \subseteq all
    BY <1>4
  <2>2. \A x, y \in Member : x # y => ofMember[x] \cap ofMember[y] = {}
    BY <1>4
  <2>3. Counts(byMember, ofMember, Member, all)
    BY <1>1, <1>6, <2>1, <2>2, RowsAssumption DEF Counts
  <2> QED
    BY <2>3, CountByParts
<1>9. Whole(ofTeam, Team) = all /\ Whole(ofMember, Member) = all
  BY <1>2, <1>3, <1>4 DEF Whole
<1> QED
  BY <1>7, <1>8, <1>9 DEF byTeam, byMember

(* What waits for the admin of some teams waits in the rows of the teams.  *)
LEMMA QueueByTeam ==
  ASSUME NEW teams, teams \subseteq Team
  PROVE  AdminOverview(teams).reviewQueueTasks
           = SumFunctionOnSet([team \in Team |-> SuperAdminWorkload.byTeam[team].reviewQueueTasks],
                              teams)
<1> DEFINE part == [team \in Team |-> ReviewQueue(TeamTasks({team}))]
           count == [team \in Team |-> SuperAdminWorkload.byTeam[team].reviewQueueTasks]
<1>1. \A team \in teams : part[team] \subseteq Stored /\ count[team] = Cardinality(part[team])
  BY DEF SuperAdminWorkload, TeamWorkloadRow, ReviewQueue, InStatus, TeamTasks
<1>2. \A x, y \in teams : x # y => part[x] \cap part[y] = {}
  BY DEF ReviewQueue, InStatus, TeamTasks
<1>3. ReviewQueue(TeamTasks(teams)) = Whole(part, teams)
  <2>1. \A team \in teams : part[team] = ReviewQueue(TeamTasks({team}))
    OBVIOUS
  <2> HIDE DEF part
  <2>2. ASSUME NEW t
        PROVE  t \in ReviewQueue(TeamTasks(teams)) <=> \E team \in teams : t \in part[team]
    BY <2>1 DEF ReviewQueue, InStatus, TeamTasks
  <2> QED
    BY <2>2 DEF Whole
<1>4. AdminOverview(teams).reviewQueueTasks = Cardinality(ReviewQueue(TeamTasks(teams)))
  BY DEF AdminOverview, AdminTasks, TaskKpis
<1>5. IsFiniteSet(teams) /\ IsFiniteSet(Stored)
  BY RowsAssumption, StoredIsFinite, FS_Subset
<1> HIDE DEF part, count
<1>6. SumFunctionOnSet(count, teams) = Cardinality(Whole(part, teams))
  <2>1. Counts(count, part, teams, Stored)
    BY <1>1, <1>2, <1>5 DEF Counts
  <2> QED
    BY <2>1, CountByParts
<1> QED
  BY <1>3, <1>4, <1>6 DEF count

(* The queue shows what may be reviewed: by the ledger, a status that      *)
(* awaits review is a latest version without a verdict.                    *)
LEMMA QueueIsReviewable ==
  ASSUME TypeOK, TaskBooks, NEW a \in Admin
  PROVE  ReviewQueue(DashboardTasks(a, TeamsOf(a))) =
           {t \in Stored : /\ kind[t].team \in TeamsOf(a)
                           /\ kind[t].mode # "DIRECT"
                           /\ \E v \in 1..Len(submissions[t]) : Reviewable(t, v)}
<1>1. DashboardTasks(a, TeamsOf(a)) = TeamTasks(TeamsOf(a))
  BY RolesAssumption DEF DashboardTasks, AdminTasks
<1>2. ASSUME NEW t \in Stored, status[t] \in AwaitingReview
      PROVE  kind[t].mode # "DIRECT" /\ \E v \in 1..Len(submissions[t]) : Reviewable(t, v)
  <2>1. t \in Task /\ LedgerOf(t) /\ Exists(t)
    BY DEF Stored, TaskBooks
  <2>2. /\ submissions[t] # << >> /\ Final(submissions[t]).review = Unreviewed
        /\ kind[t].mode # "DIRECT"
    BY <1>2, <2>1 DEF LedgerOf
  <2>3. Len(submissions[t]) \in Nat \ {0}
    BY <2>1, <2>2, FinalReview
  <2>4. Len(submissions[t]) \in 1..Len(submissions[t]) /\ Reviewable(t, Len(submissions[t]))
    BY <1>2, <2>2, <2>3 DEF Reviewable, Final
  <2> QED
    BY <2>2, <2>4
<1> QED
  BY <1>1, <1>2 DEF ReviewQueue, InStatus, TeamTasks, Reviewable

(* The pages agree in every state the workflow reaches, for any members,   *)
(* teams and tasks: no work is counted twice or nowhere, the rows of teams *)
(* and members show the same revisions, and an admin's queue is what that  *)
(* admin may review.                                                       *)
THEOREM PagesAgreeHolds == Spec => []PagesAgree
<1>1. TypeOK /\ OneResponsible /\ TaskBooks /\ Work /\ SingleAuthor /\ ReviewerInv => PagesAgree
  <2> SUFFICES ASSUME TypeOK, OneResponsible, TaskBooks, Work, SingleAuthor, KindKnown
               PROVE  PagesAgree
    BY DEF ReviewerInv
  <2>1. \A a \in Admin : TeamsOf(a) \subseteq Team
    BY DEF TeamsOf
  <2> QED
    BY <2>1, OpenTasksByMember, OpenTasksByTeam, RevisionsByTeamAndMember, QueueByTeam,
       QueueIsReviewable DEF PagesAgree, OpenIn
<1> QED
  BY <1>1, OneResponsibleHolds, TaskBooksInit, TaskBooksStep, WorkHolds, SingleAuthorHolds,
     ReviewerInvHolds, TypeCorrect, PTL DEF Spec
=============================================================================
