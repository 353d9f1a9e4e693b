-------------------------- MODULE MCTaskAutomation --------------------------
(***************************************************************************)
(* TaskAutomation for TLC.  The cron runs are interchangeable.             *)
(***************************************************************************)
EXTENDS TaskAutomation

CronSymmetry == Permutations(Cron)
=============================================================================
