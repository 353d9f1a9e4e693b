------------------------------- MODULE Import -------------------------------
(***************************************************************************)
(* The imports of spreadsheets, beside the requests of Organization: one   *)
(* sets the designations of members, the other adds tasks that were        *)
(* finished before the system existed.                                     *)
(*                                                                         *)
(* An import first judges every row of its sheet against the database, and *)
(* goes on only if none is invalid or in conflict.  It then carries out    *)
(* the rows judged to change something, in one serializable transaction    *)
(* that reads the database again: all of them, or none.                    *)
(***************************************************************************)
EXTENDS Organization

CONSTANTS
  Import,                \* the imports that are made (bound: their number)
  Workbook,              \* the workbooks that are uploaded
  Reference,             \* the reference codes of historical tasks
  NoTask

VARIABLES
  history,   \* the historical tasks, by reference
  import     \* the imports under way

vars == <<orgVars, history, import>>

(* A row of a workbook is "blank", or "broken" by a formula or by a value  *)
(* that cannot be read, or "sound".  One account stands for the creator    *)
(* and the assigner of a task, and `title` for all its other columns.      *)
MemberRow == [form : {"blank", "broken", "sound"}, employee : Employee \cup {NoEmployee},
              email : Member \cup {NoMember}, team : Team \cup {NoTeam},
              designation : Designation \cup {NoDesignation}]
TaskRow == [form : {"blank", "broken", "sound"}, reference : Reference,
            status : {"COMPLETED", "CANCELLED", "PENDING"}, ended : SUBSET {"completedAt", "cancelledAt"},
            team : Team, employee : Employee, by : Admin \cup {NoAdmin}, title : Designation]

(* Of a workbook: whether the file is one that is read at all, which       *)
(* profiles find their sheet, whether the header of that sheet has the     *)
(* columns it must have, and the rows below it.                            *)
ASSUME WorkbookAssumption ==
  \A w \in Workbook :
    /\ w.sheets \subseteq {"MEMBER", "HISTORICAL_TASK"}
    /\ w.accepted \in BOOLEAN /\ w.header \in BOOLEAN
    /\ w.sheets = {"MEMBER"} => w.rows \in Seq(MemberRow)
    /\ w.sheets = {"HISTORICAL_TASK"} => w.rows \in Seq(TaskRow)

(* What is kept of a historical task, in a row to import and in the        *)
(* database.                                                               *)
HistoricalTask == [reference : Reference, status : {"COMPLETED", "CANCELLED"}, team : Team,
                   by : Admin, title : Designation, member : Member]

ASSUME NoTaskAssumption == NoTask \notin HistoricalTask

NotBegun == [phase |-> "toMake", kind |-> "MEMBER", rows |-> {}, toWrite |-> {}, attempt |-> 0,
             fresh |-> FALSE]
Refuse == [NotBegun EXCEPT !.phase = "refused"]

Init ==
  /\ OrgInit
  /\ history = [c \in Reference |-> NoTask]
  /\ import = [i \in Import |-> NotBegun]

(* Mistakes                                                                *)
UnchangedSincePreview(row) == TRUE
AnyContents(task, row) == TRUE
-----------------------------------------------------------------------------
(* Recognising the workbook: exactly one profile must find its sheet, and  *)
(* it must be the one asked for.                                           *)
Accepted(w) == w.accepted
Structured(w) == w.header
Recognized(w, kind) == Accepted(w) /\ w.sheets = {kind} /\ Structured(w)

-----------------------------------------------------------------------------
(* Judging the rows of members                                             *)

Complete(row) ==
  /\ row.form = "sound"
  /\ row.employee # NoEmployee \/ row.email # NoMember
  /\ row.team # NoTeam

(* The members the employee id and the email lead to                       *)
Found(row) ==
  {m \in Member : row.employee # NoEmployee /\ member[m].employee = row.employee}
  \cup ({row.email} \cap Member)

SameIdentity(row, m) ==
  /\ row.employee \in {NoEmployee, member[m].employee}
  /\ row.email \in {NoMember, m}

Repeated(rows, m) ==
  Cardinality({n \in 1..Len(rows) : Complete(rows[n]) /\ Found(rows[n]) = {m}}) > 1

MemberVerdict(rows, n) ==
  LET row == rows[n]
      found == Found(row)
      m == CHOOSE x \in found : TRUE
  IN IF row.form = "blank" THEN "IGNORED_ROW"
     ELSE IF ~Complete(row) THEN "INVALID"
     ELSE IF teamAdmin[row.team] = NoAdmin \/ Cardinality(found) > 1 THEN "CONFLICT"
     ELSE IF found = {} \/ Repeated(rows, m) THEN "INVALID"
     ELSE IF ~SameIdentity(row, m) \/ membership[m].team # row.team THEN "CONFLICT"
     ELSE IF row.designation \in {NoDesignation, member[m].designation} THEN "ALREADY_PRESENT"
     ELSE "CANDIDATE_UPDATE"

(* What is kept of a row: whom and what it was found to concern, and the   *)
(* designation it would replace.                                           *)
MemberCanonical(row) ==
  LET m == CHOOSE x \in Found(row) : TRUE IN
  [member |-> m, employee |-> row.employee, email |-> row.email, team |-> row.team,
   target |-> row.designation, baseline |-> member[m].designation]

-----------------------------------------------------------------------------
(* Judging the rows of historical tasks                                    *)

Parses(row) ==
  /\ row.form = "sound"
  /\ \/ row.status = "COMPLETED" /\ row.ended = {"completedAt"}
     \/ row.status = "CANCELLED" /\ row.ended = {"cancelledAt"}

TaskCanonical(row) ==
  [reference |-> row.reference, status |-> row.status, team |-> row.team, by |-> row.by,
   title |-> row.title,
   member |-> CHOOSE m \in Member : member[m].employee = row.employee]

HistoricalTaskMatches(task, row) == task = row

RepeatedReference(rows, n) ==
  \E k \in 1..Len(rows) \ {n} : Parses(rows[k]) /\ rows[k].reference = rows[n].reference

Resolved(row) ==
  /\ teamAdmin[row.team] # NoAdmin
  /\ row.by # NoAdmin
  /\ \E m \in Member : member[m].employee = row.employee

TaskVerdict(rows, n) ==
  LET row == rows[n] IN
  IF row.form = "blank" THEN "IGNORED_ROW"
  ELSE IF ~Parses(row) THEN "INVALID"
  ELSE IF RepeatedReference(rows, n) THEN "CONFLICT"
  ELSE IF ~Resolved(row) THEN "INVALID"
  ELSE IF history[row.reference] = NoTask THEN "CANDIDATE"
  ELSE IF HistoricalTaskMatches(history[row.reference], TaskCanonical(row)) THEN "ALREADY_PRESENT"
  ELSE "CONFLICT"

-----------------------------------------------------------------------------
(* The import                                                              *)

Verdict(kind, rows, n) ==
  IF kind = "MEMBER" THEN MemberVerdict(rows, n) ELSE TaskVerdict(rows, n)

Canonical(kind, row) == IF kind = "MEMBER" THEN MemberCanonical(row) ELSE TaskCanonical(row)

Judged(kind, rows, verdicts) == {n \in 1..Len(rows) : Verdict(kind, rows, n) \in verdicts}

Begun == {i \in Import : import[i].phase # "toMake"}

Preview(i, kind, w) ==
  LET toDo == Judged(kind, w.rows, {"CANDIDATE", "CANDIDATE_UPDATE"}) IN
  /\ import[i].phase = "toMake"
  /\ Cardinality(Made) + Cardinality(Begun) < MaxCalls
  /\ import' = [import EXCEPT ![i] =
       IF ~Recognized(w, kind) \/ Judged(kind, w.rows, {"INVALID", "CONFLICT"}) # {}
       THEN Refuse
       ELSE [phase |-> IF toDo = {} THEN "done" ELSE "previewed", kind |-> kind,
             rows |-> {Canonical(kind, w.rows[n]) : n \in toDo}, toWrite |-> {},
             attempt |-> 1, fresh |-> FALSE]]
  /\ UNCHANGED <<orgVars, history>>

(* The transaction reads again.  Members: the identity and the team must   *)
(* be as in the sheet, and the designation the one that was previewed or   *)
(* already the one wanted.                                                 *)
ProtectedFieldsMatch(row) ==
  SameIdentity(row, row.member) /\ membership[row.member].team = row.team

Replaceable(row) == member[row.member].designation = row.baseline

Present(kind, row) ==
  IF kind = "MEMBER" THEN member[row.member].designation = row.target
  ELSE /\ history[row.reference] # NoTask
       /\ HistoricalTaskMatches(history[row.reference], row)

(* Tasks: accounts and teams are never removed, so only the task itself    *)
(* can have appeared.                                                      *)
StillApplies(kind, row) ==
  IF kind = "MEMBER" THEN ProtectedFieldsMatch(row) /\ (Present(kind, row) \/ Replaceable(row))
  ELSE history[row.reference] = NoTask \/ Present(kind, row)

Execute(i) ==
  LET kind == import[i].kind IN
  /\ import[i].phase = "previewed"
  /\ import' = [import EXCEPT ![i] =
       IF \E row \in @.rows : ~StillApplies(kind, row) THEN Refuse
       ELSE IF \A row \in @.rows : Present(kind, row) THEN [@ EXCEPT !.phase = "done"]
       ELSE [@ EXCEPT !.phase = "writing", !.fresh = TRUE,
                      !.toWrite = {row \in import[i].rows : ~Present(kind, row)}]]
  /\ UNCHANGED <<orgVars, history>>

Concerns(kind, rows, members, references) ==
  \E row \in rows :
    IF kind = "MEMBER" THEN row.member \in members ELSE row.reference \in references

(* A serializable commit conflicts with the imports that read what it has  *)
(* written.                                                                *)
Notice(i, members, references) ==
  [j \in Import |->
     IF j = i THEN [import[j] EXCEPT !.phase = "done", !.toWrite = {}, !.fresh = FALSE]
     ELSE IF /\ import[j].phase = "writing"
             /\ Concerns(import[j].kind, import[j].rows, members, references)
     THEN [import[j] EXCEPT !.fresh = FALSE] ELSE import[j]]

CommitMembers(i) ==
  LET written == {row.member : row \in import[i].toWrite}
      Row(m) == CHOOSE row \in import[i].toWrite : row.member = m
  IN
  /\ import[i].phase = "writing" /\ import[i].fresh /\ import[i].kind = "MEMBER"
  /\ member' = [m \in Member |->
       IF m \in written THEN [member[m] EXCEPT !.designation = Row(m).target] ELSE member[m]]
  /\ import' = Notice(i, written, {})
  /\ UNCHANGED <<teamAdmin, activeAdmin, membership, moves, request, history>>

CommitTasks(i) ==
  LET written == {row.reference : row \in import[i].toWrite} IN
  /\ import[i].phase = "writing" /\ import[i].fresh /\ import[i].kind = "HISTORICAL_TASK"
  /\ history' = [c \in Reference |->
       IF c \in written THEN CHOOSE row \in import[i].toWrite : row.reference = c
       ELSE history[c]]
  /\ import' = Notice(i, {}, written)
  /\ UNCHANGED orgVars

(* A conflict: the transaction runs again, or has had its attempts.  For a *)
(* reference that now exists, the database may report that instead.        *)
RunAgain(i) ==
  /\ import[i].phase = "writing" /\ ~import[i].fresh
  /\ \/ import' = [import EXCEPT ![i] =
          IF @.attempt = MaxAttempts THEN Refuse
          ELSE [@ EXCEPT !.phase = "previewed", !.attempt = import[i].attempt + 1, !.toWrite = {}]]
     \/ /\ import[i].kind = "HISTORICAL_TASK"
        /\ import' = [import EXCEPT ![i] = Refuse]
  /\ UNCHANGED <<orgVars, history>>

(* The requests of Organization go on beside the imports.  Those that      *)
(* write the account of a member are plain, so only an import about to     *)
(* write it conflicts; a transfer is not noticed at all, and the import    *)
(* then counts as having come before it.                                   *)
OrganizationStep ==
  /\ OrgNext
  /\ Cardinality(Made') + Cardinality(Begun) <= MaxCalls
  /\ import' = [j \in Import |->
       IF /\ import[j].phase = "writing"
          /\ Concerns(import[j].kind, import[j].toWrite,
                      {m \in Member : member'[m] # member[m]}, {})
       THEN [import[j] EXCEPT !.fresh = FALSE] ELSE import[j]]
  /\ UNCHANGED history

Next ==
  \/ OrganizationStep
  \/ \E i \in Import :
       \/ \E kind \in {"MEMBER", "HISTORICAL_TASK"}, w \in Workbook : Preview(i, kind, w)
       \/ Execute(i) \/ CommitMembers(i) \/ CommitTasks(i) \/ RunAgain(i)

Spec == Init /\ [][Next]_vars

-----------------------------------------------------------------------------
(* Properties *)

TypeOK ==
  /\ OrgTypeOK
  /\ history \in [Reference -> HistoricalTask \cup {NoTask}]
  /\ \A c \in Reference : history[c] # NoTask => history[c].reference = c
  /\ \A i \in Import :
       /\ import[i].phase \in {"toMake", "previewed", "writing", "done", "refused"}
       /\ import[i].kind \in {"MEMBER", "HISTORICAL_TASK"}
       /\ import[i].attempt \in 0..MaxAttempts
       /\ import[i].fresh \in BOOLEAN

(* An import replaces only what its preview showed: the designation it     *)
(* overwrites is the one the sheet was judged against, and the account is  *)
(* still the one the sheet names, however the member is updated between    *)
(* the preview, the transaction's reading and its commit.                  *)
Writes(i) == import[i].phase = "writing" /\ import'[i].phase = "done"

ImportReplacesWhatItSaw ==
  [][\A i \in Import : Writes(i) /\ import[i].kind = "MEMBER" =>
       \A row \in import[i].rows :
         member'[row.member] # member[row.member] =>
           /\ member[row.member].designation = row.baseline
           /\ SameIdentity(row, row.member)
           /\ member'[row.member] = [member[row.member] EXCEPT !.designation = row.target]]_vars

(* An import of historical tasks that reports success has every task it    *)
(* set out to add in the database, with the contents of its own row, also  *)
(* when another import adds a task with the same reference meanwhile.      *)
ImportedMeansPresent ==
  \A i \in Import :
    import[i].phase = "done" /\ import[i].kind = "HISTORICAL_TASK" =>
      \A row \in import[i].rows : history[row.reference] = row
=============================================================================
