-------------------------- MODULE MCCapabilityProbes --------------------------
(* Instances of CapabilityProbes for TLC: all capabilities of the registry. *)
EXTENDS CapabilityProbes, CapabilityGroups
=============================================================================
