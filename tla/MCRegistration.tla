--------------------------- MODULE MCRegistration ---------------------------
(***************************************************************************)
(* Registration for TLC.  Approvers and requests are interchangeable       *)
(* without fairness.                                                       *)
(***************************************************************************)
EXTENDS Registration, TLC

Symmetry == Permutations(Worker) \cup Permutations(Request)
=============================================================================
