-------------------------- MODULE MCVirtualBoxRuns --------------------------
(***************************************************************************)
(* Two runs and two seconds, two ports.  The base is missing, or stopped   *)
(* with a system that was installed but not finalized.  Both runs work in  *)
(* clones, or both finalize, or one does each.                             *)
(***************************************************************************)
EXTENDS VirtualBoxRuns

CONSTANTS r1, r2

MCRuns == {r1, r2}
MCCommands == {[r \in MCRuns |-> "run"], [r \in MCRuns |-> "finalize"],
               [r \in MCRuns |-> IF r = r1 THEN "run" ELSE "finalize"]}
MCPorts == {1, 2}
MCBases == {NoVM, [NoVM EXCEPT !.power = "off", !.disk = "installed"]}
MCInstalledBase == {[NoVM EXCEPT !.power = "off", !.disk = "installed"]}

\* One run, for what needs no second one, and a run beside a finalization.
MCOneRun == {r1}
MCOneFinalization == {[r \in MCOneRun |-> "finalize"]}
MCOneClone == {[r \in MCOneRun |-> "run"]}
MCOneOfEach == {[r \in MCRuns |-> IF r = r1 THEN "run" ELSE "finalize"]}
============================================================================
