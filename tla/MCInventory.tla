---------------------------- MODULE MCInventory ----------------------------
(***************************************************************************)
(* Inventory for TLC.  Loans and callers are interchangeable.              *)
(***************************************************************************)
EXTENDS Inventory, TLC

Symmetry == Permutations(Loan) \cup Permutations(Caller)
=============================================================================
