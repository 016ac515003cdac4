---------------------------- MODULE MCTesterRun ----------------------------
(***************************************************************************)
(* Three groups: one that is disabled, one whose list of tests is empty,   *)
(* and one of two tests; two outcomes; two runs in the same directory.     *)
(***************************************************************************)
EXTENDS TesterRun

MCEnabledGroups == {2, 3}
MCTestCount == <<1, 0, 2>>
============================================================================
