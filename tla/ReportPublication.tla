------------------------- MODULE ReportPublication -------------------------
(***************************************************************************)
(* What the sandbox tester promises to whoever reads its output directory  *)
(* (runner.run_from_files): a run publishes one whole report, covering     *)
(* every test of every enabled group, all at once; only after that does it *)
(* announce that it is done; and it never takes back what an earlier run   *)
(* published.  A run may stop before either step.                          *)
(***************************************************************************)
EXTENDS Integers, Sequences

CONSTANTS EnabledGroups, TestCount, Outcomes

VARIABLES
  run,       \* the number of the latest run
  published, \* [run, results] of the report in place; run 0 when there is none
  announced  \* the run the completion marker is of; 0 when there is none

vars == <<run, published, announced>>

Capabilities == [{"shell", "tool", "alternates"} -> Outcomes]

IsWhole(results) ==
  /\ DOMAIN results = EnabledGroups
  /\ \A g \in EnabledGroups :
       /\ results[g] \in Seq(Capabilities)
       /\ Len(results[g]) = TestCount[g]

Init == /\ run = 0
        /\ published = [run |-> 0, results |-> <<>>]
        /\ announced = 0

Start == /\ run' = run + 1
         /\ UNCHANGED <<published, announced>>

Publish == /\ published.run < run
           /\ published' = [run |-> run, results |-> published'.results]
           /\ IsWhole(published'.results)
           /\ UNCHANGED <<run, announced>>

Announce == /\ announced < run
            /\ published.run = run
            /\ announced' = run
            /\ UNCHANGED <<run, published>>

Next == Start \/ Publish \/ Announce

Spec == Init /\ [][Next]_vars
============================================================================
