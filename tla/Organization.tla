---------------------------- MODULE Organization ----------------------------
(***************************************************************************)
(* Teams, the admins responsible for them, and the members who move from   *)
(* team to team.                                                           *)
(*                                                                         *)
(* Requests that decide from what they read run in different ways.  Making *)
(* and handing over a team, changing the status of an admin and placing a  *)
(* member run serializably and again after a conflict; a transfer runs in  *)
(* a plain (READ COMMITTED) transaction and relies on the row it deletes   *)
(* and on the unique index on the member; an update of a member reads      *)
(* before its transaction and then writes by id.                           *)
(*                                                                         *)
(* The database is serializable only towards serializable transactions: a  *)
(* plain write is noticed only by a transaction that writes the same row.  *)
(* One whose reads a serializable commit has overwritten is taken to       *)
(* conflict; were it let through, it would count as having come first.     *)
(***************************************************************************)
EXTENDS Naturals, Sequences, FiniteSets

CONSTANTS
  Admin, SuperAdmin, NoAdmin,
  Member, NoMember,
  Team, NoTeam,               \* the teams that can be made (bound: their number)
  Employee, NoEmployee,       \* employee ids
  Designation, NoDesignation,
  Keep,                       \* a field an update does not mention
  Request,                    \* the requests that may be made
  MaxCalls,                   \* bound: how many of them are made in all
  MaxAttempts                 \* MAX_TRANSACTION_RETRIES

ASSUME NobodyAssumption == NoAdmin \notin Admin /\ SuperAdmin \notin Admin
ASSUME NowhereAssumption == NoTeam \notin Team /\ NoMember \notin Member
ASSUME NoValueAssumption == NoEmployee \notin Employee /\ NoDesignation \notin Designation
ASSUME KeepAssumption == Keep \notin Employee \cup {NoEmployee} \cup Designation \cup {NoDesignation}
ASSUME MembersAssumption == IsFiniteSet(Member)
ASSUME CallsAssumption == MaxCalls \in Nat
ASSUME AttemptsAssumption == MaxAttempts \in Nat \ {0}

VARIABLES
  teamAdmin,    \* the admin of each team; NoAdmin before it is made
  activeAdmin,  \* the admins whose account is ACTIVE
  member,       \* the accounts of the members
  membership,   \* the team_member row of each member; row 0 is none
  moves,        \* the activity that records each member's placements
  request       \* the requests under way

orgVars == <<teamAdmin, activeAdmin, member, membership, moves, request>>

Unplaced == [row |-> 0, team |-> NoTeam]

NoAsk == [op |-> "CREATE", viewer |-> SuperAdmin, scope |-> {}, member |-> NoMember,
          team |-> NoTeam, admin |-> NoAdmin, active |-> FALSE,
          employee |-> Keep, designation |-> Keep]
ToMake == [phase |-> "toMake", ask |-> NoAsk, attempt |-> 0, fresh |-> FALSE,
           rows |-> {}, from |-> Unplaced]
Done == [ToMake EXCEPT !.phase = "done"]

(* Some teams have been made, and some members placed.                    *)
OrgInit ==
  /\ teamAdmin \in [Team -> Admin \cup {NoAdmin}]
  /\ activeAdmin = Admin
  /\ member \in [Member -> [active : {TRUE}, employee : Employee, designation : {NoDesignation}]]
  /\ \A m, n \in Member : member[m].employee = member[n].employee => m = n
  /\ \E at \in [Member -> {t \in Team : teamAdmin[t] # NoAdmin} \cup {NoTeam}] :
       /\ membership = [m \in Member |-> IF at[m] = NoTeam THEN Unplaced
                                         ELSE [row |-> 1, team |-> at[m]]]
       /\ moves = [m \in Member |-> IF at[m] = NoTeam THEN <<>>
                                    ELSE <<[from |-> NoTeam, to |-> at[m]]>>]
  /\ request = [r \in Request |-> ToMake]

(* Mistakes: each is a definition below with one plausible error, put in   *)
(* its place to see the property that catches it.                          *)
NeverConflicts(r) == FALSE
AnyMembership(m, row) == membership[m].team # NoTeam
-----------------------------------------------------------------------------
(* Who may see whom: a viewer's scope is what the guard of the request     *)
(* found, before the handler reads.                                        *)
Scope(viewer) == {t \in Team : viewer \in {SuperAdmin, teamAdmin[t]}}

VisibleMember(viewer, scope, m) == viewer = SuperAdmin \/ membership[m].team \in scope

(* What may be asked.  Only members are also updated by an admin, who may  *)
(* not change an employee id.                                              *)
TeamAsk(op, t, a) == [NoAsk EXCEPT !.op = op, !.team = t, !.admin = a]
StatusAsk(a, active) == [NoAsk EXCEPT !.op = "STATUS", !.admin = a, !.active = active]
PlaceAsk(op, m, t) == [NoAsk EXCEPT !.op = op, !.member = m, !.team = t]
MemberStatusAsk(m, active) ==
  [NoAsk EXCEPT !.op = "MEMBER_STATUS", !.member = m, !.active = active]
UpdateAsk(viewer, m, e, d) ==
  [NoAsk EXCEPT !.op = "UPDATE", !.viewer = viewer, !.member = m, !.employee = e, !.designation = d]

Asks ==
  {TeamAsk(op, t, a) : op \in {"CREATE", "REASSIGN"}, t \in Team, a \in Admin}
  \cup {StatusAsk(a, active) : a \in Admin, active \in BOOLEAN}
  \cup {PlaceAsk(op, m, t) : op \in {"ASSIGN", "TRANSFER"}, m \in Member, t \in Team}
  \cup {MemberStatusAsk(m, active) : m \in Member, active \in BOOLEAN}
  \cup {UpdateAsk(SuperAdmin, m, e, Keep) : m \in Member, e \in Employee \cup {NoEmployee}}
  \cup {UpdateAsk(viewer, m, Keep, d) :
          viewer \in Admin \cup {SuperAdmin}, m \in Member, d \in Designation \cup {NoDesignation}}

Made == {r \in Request : request[r].phase # "toMake"}

Ask(r, q) ==
  /\ request[r].phase = "toMake"
  /\ Cardinality(Made) < MaxCalls
  /\ q.op = "CREATE" => /\ teamAdmin[q.team] = NoAdmin
                        /\ \A s \in Request : ~(request[s].ask.op = "CREATE"
                                                 /\ request[s].ask.team = q.team)
  /\ request' = [request EXCEPT ![r] =
       [ToMake EXCEPT !.phase = "asked", !.attempt = 1,
                    !.ask = [q EXCEPT !.scope = IF q.op = "UPDATE" THEN Scope(q.viewer) ELSE {}]]]
  /\ UNCHANGED <<teamAdmin, activeAdmin, member, membership, moves>>

-----------------------------------------------------------------------------
(* The handler reads, and may refuse                                       *)

IsActiveAdmin(a) == a \in activeAdmin
HasActiveAdmin(t) == IsActiveAdmin(teamAdmin[t])

OwnsTeam(a) == \E t \in Team : teamAdmin[t] = a

Updated(account, q) ==
  [account EXCEPT !.employee = IF q.employee = Keep THEN @ ELSE q.employee,
                  !.designation = IF q.designation = Keep THEN @ ELSE q.designation]

RefusesCreate(q) == ~IsActiveAdmin(q.admin)
RefusesReassign(q) == \/ teamAdmin[q.team] = NoAdmin
                      \/ ~IsActiveAdmin(q.admin)
                      \/ teamAdmin[q.team] = q.admin
RefusesStatus(q) == \/ q.active = IsActiveAdmin(q.admin)
                    \/ ~q.active /\ OwnsTeam(q.admin)
RefusesAssign(q) == \/ ~HasActiveAdmin(q.team)
                    \/ ~member[q.member].active
                    \/ membership[q.member] # Unplaced
RefusesTransfer(q) == \/ membership[q.member] = Unplaced
                      \/ ~HasActiveAdmin(q.team)
                      \/ membership[q.member].team = q.team
RefusesUpdate(q) == \/ ~VisibleMember(q.viewer, q.scope, q.member)
                    \/ Updated(member[q.member], q) = member[q.member]

Refused(q) ==
  CASE q.op = "CREATE" -> RefusesCreate(q)
    [] q.op = "REASSIGN" -> RefusesReassign(q)
    [] q.op = "STATUS" -> RefusesStatus(q)
    [] q.op = "ASSIGN" -> RefusesAssign(q)
    [] q.op = "TRANSFER" -> RefusesTransfer(q)
    [] q.op = "MEMBER_STATUS" -> member[q.member].active = q.active
    [] OTHER -> RefusesUpdate(q)

Serializable == {"CREATE", "REASSIGN", "STATUS", "ASSIGN"}

(* The rows, and the sets of rows, a serializable transaction goes by      *)
Reads(q) ==
  CASE q.op = "CREATE" -> {<<"user", q.admin>>}
    [] q.op = "REASSIGN" -> {<<"team", q.team>>, <<"user", q.admin>>}
    [] q.op = "STATUS" -> {<<"user", q.admin>>, <<"teams of", q.admin>>}
    [] q.op = "ASSIGN" -> {<<"team", q.team>>, <<"user", teamAdmin[q.team]>>,
                           <<"membership", q.member>>}
    [] OTHER -> {}

Read(r) ==
  LET q == request[r].ask IN
  /\ request[r].phase = "asked"
  /\ request' = [request EXCEPT ![r] =
       IF Refused(q) THEN Done
       ELSE [@ EXCEPT !.phase = "writing", !.fresh = TRUE, !.rows = Reads(q),
                      !.from = IF q.op = "TRANSFER" THEN membership[q.member] ELSE Unplaced]]
  /\ UNCHANGED <<teamAdmin, activeAdmin, member, membership, moves>>

-----------------------------------------------------------------------------
(* ... and writes                                                          *)

Conflicts(r) == ~request[r].fresh

(* r has committed serializably, having written `rows`.                    *)
Committed(r, rows) ==
  [s \in Request |->
     IF s = r THEN Done
     ELSE IF request[s].rows \cap rows # {} THEN [request[s] EXCEPT !.fresh = FALSE]
     ELSE request[s]]

Writing(r, op) == request[r].phase = "writing" /\ request[r].ask.op = op

TryAgain(r) ==
  /\ request[r].phase = "writing" /\ request[r].ask.op \in Serializable
  /\ Conflicts(r)
  /\ request' = [request EXCEPT ![r] =
       IF @.attempt = MaxAttempts THEN Done
       ELSE [ToMake EXCEPT !.phase = "asked", !.ask = request[r].ask,
                         !.attempt = request[r].attempt + 1]]
  /\ UNCHANGED <<teamAdmin, activeAdmin, member, membership, moves>>

(* createTeam (a new row each time) and reassignTeamAdmin                  *)
CommitTeam(r) ==
  LET q == request[r].ask IN
  /\ Writing(r, "CREATE") \/ Writing(r, "REASSIGN")
  /\ ~Conflicts(r)
  /\ teamAdmin' = [teamAdmin EXCEPT ![q.team] = q.admin]
  /\ request' = Committed(r, {<<"team", q.team>>, <<"teams of", q.admin>>,
                              <<"teams of", teamAdmin[q.team]>>})
  /\ UNCHANGED <<activeAdmin, member, membership, moves>>

(* updateAdminStatus                                                       *)
CommitStatus(r) ==
  LET q == request[r].ask IN
  /\ Writing(r, "STATUS") /\ ~Conflicts(r)
  /\ activeAdmin' = IF q.active THEN activeAdmin \cup {q.admin} ELSE activeAdmin \ {q.admin}
  /\ request' = Committed(r, {<<"user", q.admin>>})
  /\ UNCHANGED <<teamAdmin, member, membership, moves>>

Place(m, from, to) ==
  /\ membership' = [membership EXCEPT ![m] = [row |-> Len(moves[m]) + 1, team |-> to]]
  /\ moves' = [moves EXCEPT ![m] = Append(@, [from |-> from, to |-> to])]

(* assignMember; a second row for the member is refused by the index.      *)
CommitAssign(r) ==
  LET q == request[r].ask IN
  /\ Writing(r, "ASSIGN") /\ ~Conflicts(r)
  /\ membership[q.member] = Unplaced
  /\ Place(q.member, NoTeam, q.team)
  /\ request' = Committed(r, {<<"membership", q.member>>})
  /\ UNCHANGED <<teamAdmin, activeAdmin, member>>

(* transferMember deletes the row it read and makes another ...            *)
SameRow(m, row) == membership[m].row = row

CommitTransfer(r) ==
  LET q == request[r].ask IN
  /\ Writing(r, "TRANSFER")
  /\ SameRow(q.member, request[r].from.row)
  /\ Place(q.member, request[r].from.team, q.team)
  /\ request' = [request EXCEPT ![r] = Done]
  /\ UNCHANGED <<teamAdmin, activeAdmin, member>>

(* ... or finds it gone: MEMBER_ASSIGNMENT_CHANGED.                        *)
TransferRaced(r) ==
  /\ Writing(r, "TRANSFER")
  /\ ~SameRow(request[r].ask.member, request[r].from.row)
  /\ request' = [request EXCEPT ![r] = Done]
  /\ UNCHANGED <<teamAdmin, activeAdmin, member, membership, moves>>

(* updateMember writes by id what it was given, unless another account has *)
(* the employee id.                                                        *)
WriteUpdate(r) ==
  LET q == request[r].ask
      taken == q.employee \in {member[n].employee : n \in Member \ {q.member}} \ {NoEmployee}
  IN
  /\ Writing(r, "UPDATE")
  /\ member' = IF taken THEN member ELSE [member EXCEPT ![q.member] = Updated(@, q)]
  /\ request' = [request EXCEPT ![r] = Done]
  /\ UNCHANGED <<teamAdmin, activeAdmin, membership, moves>>

(* updateMemberStatus                                                      *)
WriteMemberStatus(r) ==
  LET q == request[r].ask IN
  /\ Writing(r, "MEMBER_STATUS")
  /\ member' = [member EXCEPT ![q.member].active = q.active]
  /\ request' = [request EXCEPT ![r] = Done]
  /\ UNCHANGED <<teamAdmin, activeAdmin, membership, moves>>

OrgNext ==
  \/ \E r \in Request, q \in Asks : Ask(r, q)
  \/ \E r \in Request :
       \/ Read(r) \/ TryAgain(r)
       \/ CommitTeam(r) \/ CommitStatus(r) \/ CommitAssign(r)
       \/ CommitTransfer(r) \/ TransferRaced(r)
       \/ WriteUpdate(r) \/ WriteMemberStatus(r)

OrgSpec == OrgInit /\ [][OrgNext]_orgVars

-----------------------------------------------------------------------------
(* Properties *)

AskType == [op : Serializable \cup {"TRANSFER", "UPDATE", "MEMBER_STATUS"}, viewer : Admin \cup {SuperAdmin},
            scope : SUBSET Team, member : Member \cup {NoMember}, team : Team \cup {NoTeam},
            admin : Admin \cup {NoAdmin}, active : BOOLEAN,
            employee : Employee \cup {NoEmployee, Keep},
            designation : Designation \cup {NoDesignation, Keep}]
MembershipType == [row : Nat, team : Team \cup {NoTeam}]

OrgTypeOK ==
  /\ teamAdmin \in [Team -> Admin \cup {NoAdmin}]
  /\ activeAdmin \subseteq Admin
  /\ member \in [Member -> [active : BOOLEAN, employee : Employee \cup {NoEmployee},
                            designation : Designation \cup {NoDesignation}]]
  /\ membership \in [Member -> MembershipType]
  /\ moves \in [Member -> Seq([from : Team \cup {NoTeam}, to : Team])]
  /\ \A r \in Request :
       /\ request[r].phase \in {"toMake", "asked", "writing", "done"}
       /\ request[r].ask \in AskType
       /\ request[r].attempt \in 0..MaxAttempts
       /\ request[r].fresh \in BOOLEAN
       /\ request[r].from \in MembershipType

(* The activity of a member is the path they took: it starts with their    *)
(* first team, each transfer leaves the team they were then in, and the    *)
(* last arrives at the team they are in now.  A transfer runs in a plain   *)
(* transaction, and only the identity of the row it deletes keeps two of   *)
(* them from both leaving the same team.                                   *)
TeamAfter(m, n) == IF n = 0 THEN NoTeam ELSE moves[m][n].to

MovesAreAPath ==
  \A m \in Member :
    /\ \A n \in 1..Len(moves[m]) : moves[m][n].from = TeamAfter(m, n - 1)
    /\ membership[m].team = TeamAfter(m, Len(moves[m]))

(* A team's admin is active, even when the admin is deactivated while a    *)
(* team is being given to them: each reads what the other writes, and only *)
(* serializability keeps both from going ahead.                            *)
EveryTeamHasAnActiveAdmin ==
  \A t \in Team : teamAdmin[t] # NoAdmin => HasActiveAdmin(t)
=============================================================================
