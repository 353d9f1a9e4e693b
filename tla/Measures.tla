------------------------------ MODULE Measures ------------------------------
(***************************************************************************)
(* What the dashboard and the performance pages say of the work that       *)
(* TaskWorkflow moves.  Each operator is one query with the arithmetic     *)
(* done on its rows; nothing here changes state.  A page makes several     *)
(* queries outside a transaction, each of which may see another state.     *)
(*                                                                         *)
(* Counts by due date, start and duration are left out, the workflow keeps *)
(* no time.  Which members an admin may list (by team membership) is left  *)
(* out: it hides rows and changes none.                                    *)
(***************************************************************************)
EXTENDS TaskWorkflow, Functions

(* What the pages count can be counted.                                    *)
ASSUME TasksAssumption == IsFiniteSet(Task)
ASSUME RowsAssumption == IsFiniteSet(Member) /\ IsFiniteSet(Team)

(* Mistakes, each put in the place of the definition it is named for.      *)
OpenAssignments(u) == {t \in Task : u \in responsible[t] /\ status[t] \notin Terminal}
WorkInReview(tasks) ==
  {t \in tasks : status[t] \in AwaitingReview \cup {"UNDER_REVIEW", "REVISION_REQUIRED"}}
-----------------------------------------------------------------------------
Stored == {t \in Task : Exists(t)}
InStatus(tasks, some) == {t \in tasks : status[t] \in some}

(* Credit goes to whoever is responsible now.                              *)
CurrentAssignmentTasks(u) == {t \in Stored : u \in responsible[t]}

(* A request for revision, as the task and the version sent back.          *)
Revisions(tasks) ==
  {r \in tasks \X (1..MaxVersion) :
     /\ r[2] <= Len(submissions[r[1]])
     /\ submissions[r[1]][r[2]].review = "REQUEST_REVISION"}

(* Credit for a revision goes to whoever handed the version in.            *)
RevisionsOf(u) == {r \in Revisions(Stored) : submissions[r[1]][r[2]].by = u}

TeamTasks(teams) == {t \in Stored : kind[t].team \in teams}

TeamRevisions(team) == Revisions(TeamTasks({team}))

PerformanceMetrics(tasks, revisions) ==
  LET completed == InStatus(tasks, {"COMPLETED"})
      cancelled == InStatus(tasks, {"CANCELLED"})
  IN [totalTasks |-> Cardinality(tasks),
      eligibleTasks |-> Cardinality(tasks) - Cardinality(cancelled),
      completedTasks |-> Cardinality(completed),
      revisionCount |-> Cardinality(revisions),
      tasksWithRevision |-> Cardinality({r[1] : r \in revisions})]

WorkloadMetrics(tasks) ==
  [activeTasks |-> Cardinality(tasks) - Cardinality(InStatus(tasks, Terminal)),
   statusCounts |-> [s \in TaskStatus |-> Cardinality(InStatus(tasks, {s}))]]

MemberSummary(m) ==
  [performance |-> PerformanceMetrics(CurrentAssignmentTasks(m), RevisionsOf(m)),
   workload |-> WorkloadMetrics(CurrentAssignmentTasks(m))]

TeamSummary(team) ==
  [performance |-> PerformanceMetrics(TeamTasks({team}), TeamRevisions(team)),
   workload |-> WorkloadMetrics(TeamTasks({team}))]

-----------------------------------------------------------------------------
(* The dashboard *)

ReviewQueue(tasks) == InStatus(tasks, AwaitingReview)

(* The tasks a viewer's dashboard counts; the teams of an admin are those  *)
(* the guard loaded.                                                       *)
AdminTasks(teams) == TeamTasks(teams)
MemberTasks(u) == CurrentAssignmentTasks(u)

DashboardTasks(u, teams) ==
  CASE u \in SuperAdmin -> Stored
    [] u \in Admin -> AdminTasks(teams)
    [] OTHER -> MemberTasks(u)

TaskKpis(tasks) ==
  [performance |-> PerformanceMetrics(tasks, {}),
   workload |-> WorkloadMetrics(tasks),
   reviewQueueTasks |-> Cardinality(ReviewQueue(tasks)),
   revisionRequiredTasks |-> Cardinality(InStatus(tasks, {"REVISION_REQUIRED"}))]

SuperAdminOverview == TaskKpis(Stored)
AdminOverview(teams) == TaskKpis(AdminTasks(teams))
MemberOverview(u) == TaskKpis(MemberTasks(u))

TeamWorkloadRow(team) ==
  [workload |-> WorkloadMetrics(TeamTasks({team})),
   reviewQueueTasks |-> Cardinality(ReviewQueue(TeamTasks({team})))]

(* Of one person; the lists show the members, although an admin may have   *)
(* a task as well.                                                         *)
MemberWorkloadRow(u) == WorkloadMetrics(MemberTasks(u))

SuperAdminWorkload ==
  [byTeam |-> [team \in Team |-> TeamWorkloadRow(team)],
   byMember |-> [m \in Member |-> MemberWorkloadRow(m)]]

AdminWorkload(teams) ==
  [teamSummary |-> TaskKpis(AdminTasks(teams)),
   byMember |-> [m \in Member |-> MemberWorkloadRow(m)]]
-----------------------------------------------------------------------------
(* Properties *)

(* Credit for tasks moves with the assignment, credit for revisions stays  *)
(* with the author.  The two never part: every revision counted for        *)
(* somebody concerns a task counted for them, so nobody has more tasks     *)
(* with a revision than tasks (the open question of the comment on         *)
(* loadCurrentAssignmentTasksByMemberId).                                  *)
RevisionsAreOwn ==
  \A u \in User :
    /\ {r[1] : r \in RevisionsOf(u)} \subseteq CurrentAssignmentTasks(u)
    /\ MemberSummary(u).performance.tasksWithRevision
         <= MemberSummary(u).performance.totalTasks

TeamsOf(a) == {team \in Team : teamAdmin[team] = a}
WithAdmins == {t \in Stored : responsible[t] \cap (Admin \cup SuperAdmin) # {}}

(* The pages agree.  Every active task is in exactly one place: in the row *)
(* of the one member who has it, or with an admin, or unassigned; in the   *)
(* row of its team, or global.  An admin sees of the teams what the rows   *)
(* of the super admin show of them.  Every revision of a team is one of    *)
(* some member.  And the review queue of an admin, which looks at the      *)
(* status of tasks, is what that admin may review, which looks at the      *)
(* submissions: nothing waits unseen, nothing in the queue is refused.     *)
PagesAgree ==
  LET all == SuperAdminOverview.workload
      page == SuperAdminWorkload
      perMember == SumFunctionOnSet([m \in Member |-> page.byMember[m].activeTasks], Member)
      perTeam == SumFunctionOnSet([team \in Team |-> page.byTeam[team].workload.activeTasks], Team)
      others(tasks) == Cardinality(InStatus(tasks, TaskStatus \ Terminal))
  IN /\ all.activeTasks = perMember + others(WithAdmins) + all.statusCounts["PENDING"]
     /\ all.activeTasks = perTeam + others(TeamTasks({NoTeam}))
     /\ SumFunctionOnSet([team \in Team |-> TeamSummary(team).performance.revisionCount], Team) =
          SumFunctionOnSet([m \in Member |-> MemberSummary(m).performance.revisionCount], Member)
     /\ \A a \in Admin :
          /\ AdminOverview(TeamsOf(a)).reviewQueueTasks =
               SumFunctionOnSet([team \in Team |-> page.byTeam[team].reviewQueueTasks], TeamsOf(a))
          /\ ReviewQueue(DashboardTasks(a, TeamsOf(a))) =
               {t \in Stored : /\ kind[t].team \in TeamsOf(a)
                               /\ kind[t].mode # "DIRECT"
                               /\ \E v \in 1..Len(submissions[t]) : Reviewable(t, v)}
=============================================================================
