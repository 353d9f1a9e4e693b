--------------------------- MODULE MCOrganization ---------------------------
(***************************************************************************)
(* Organization with its imports, for TLC: workbooks that want the same    *)
(* member or the same task differently, and one of each mistake.           *)
(***************************************************************************)
EXTENDS Import, TLC

CONSTANTS t1, t2, m1, m2, e1, e2, d1, d2, a1, c1, c2

Sheet(kind, rows) == [accepted |-> TRUE, sheets |-> {kind}, header |-> TRUE, rows |-> rows]

Of(employee, email, team, designation) ==
  [form |-> "sound", employee |-> employee, email |-> email, team |-> team,
   designation |-> designation]

Task(reference, status, ended, employee, title) ==
  [form |-> "sound", reference |-> reference, status |-> status, ended |-> {ended},
   team |-> t1, employee |-> employee, by |-> a1, title |-> title]

BlankRow == [Of(NoEmployee, NoMember, NoTeam, NoDesignation) EXCEPT !.form = "blank"]

Workbooks ==
  {Sheet("MEMBER", <<Of(e1, NoMember, t1, d1)>>),
   Sheet("MEMBER", <<BlankRow, Of(NoEmployee, m1, t1, d2), Of(e2, m2, t1, d1)>>),
   Sheet("MEMBER", <<Of(e1, NoMember, t1, d1), Of(NoEmployee, m1, t1, d2)>>),
   Sheet("HISTORICAL_TASK", <<Task(c1, "COMPLETED", "completedAt", e1, d1)>>),
   Sheet("HISTORICAL_TASK", <<Task(c1, "COMPLETED", "completedAt", e1, d2),
                              Task(c2, "CANCELLED", "cancelledAt", e2, d2)>>),
   Sheet("HISTORICAL_TASK", <<Task(c1, "CANCELLED", "completedAt", e1, d1)>>),
   [Sheet("MEMBER", <<>>) EXCEPT !.sheets = {"MEMBER", "HISTORICAL_TASK"}]}

Symmetry == Permutations(Request) \cup Permutations(Import)
=============================================================================
