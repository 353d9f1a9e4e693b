--------------------------- MODULE MCTaskWorkflow ---------------------------
(***************************************************************************)
(* TaskWorkflow and Measures for TLC: one super admin, two admins who can  *)
(* hand a team to each other, and two members who can take work from each  *)
(* other.                                                                  *)
(***************************************************************************)
EXTENDS Measures

CONSTANTS s1, a1, a2, m1, m2

MCSuperAdmin == {s1}
MCAdmin == {a1, a2}
MCMember == {m1, m2}
=============================================================================
