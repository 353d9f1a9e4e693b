------------------------- MODULE MCManagementReport -------------------------
(***************************************************************************)
(* ManagementReport for TLC: complete and incomplete contents.             *)
(***************************************************************************)
EXTENDS ManagementReport, TLC

CONSTANTS c1, c2, unfinished

MCContent == {c1, c2, unfinished}
MCComplete == {c1, c2}
=============================================================================
