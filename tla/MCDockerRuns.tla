---------------------------- MODULE MCDockerRuns ----------------------------
(***************************************************************************)
(* Two runs and two seconds: the runs may share a second, or overlap in    *)
(* different ones.  The profiles are the two extremes: neither fixtures    *)
(* nor a gateway, and both.                                                *)
(***************************************************************************)
EXTENDS DockerRuns

MCProfiles == {[fixtures |-> FALSE, gateway |-> FALSE],
               [fixtures |-> TRUE, gateway |-> TRUE]}
============================================================================
