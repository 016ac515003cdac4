-------------------------- MODULE DisposableClones --------------------------
(***************************************************************************)
(* What a harness promises of the clones it makes of a base machine        *)
(* (virtualbox_sandbox.cli.main): a run makes one clone at most, under a   *)
(* name that nothing has; only this run saves results under the name while *)
(* the clone is there; only this run takes the clone away, as the last     *)
(* thing it does; and what it leaves when it is over stays there.  A run   *)
(* may be over at any time.                                                *)
(***************************************************************************)
CONSTANTS
  Runs,
  NoRun,   \* is the owner of a name that nothing has
  Seconds  \* clones and results are named after the second they are made in

VARIABLES
  stage,   \* per run: "before" it has a clone, "using" it, or "after"
  owner,   \* per second: the run whose clone has the name
  results  \* per second: the run that saved the latest results

vars == <<stage, owner, results>>

Init == /\ stage = [r \in Runs |-> "before"]
        /\ owner = [s \in Seconds |-> NoRun]
        /\ results = [s \in Seconds |-> NoRun]

Clone(r, s) == /\ stage[r] = "before" /\ owner[s] = NoRun
               /\ stage' = [stage EXCEPT ![r] = "using"]
               /\ owner' = [owner EXCEPT ![s] = r]
               /\ UNCHANGED results

\* Saving may be the last thing the run does: it keeps its clone.
Save(r, s) == /\ stage[r] = "using" /\ owner[s] = r
              /\ results' = [results EXCEPT ![s] = r]
              /\ \/ UNCHANGED stage
                 \/ stage' = [stage EXCEPT ![r] = "after"]
              /\ UNCHANGED owner

Remove(r, s) == /\ stage[r] = "using" /\ owner[s] = r
                /\ stage' = [stage EXCEPT ![r] = "after"]
                /\ owner' = [owner EXCEPT ![s] = NoRun]
                /\ UNCHANGED results

Leave(r) == /\ stage[r] # "after"
            /\ stage' = [stage EXCEPT ![r] = "after"]
            /\ UNCHANGED <<owner, results>>

Next == \E r \in Runs :
          \/ Leave(r)
          \/ \E s \in Seconds : Clone(r, s) \/ Save(r, s) \/ Remove(r, s)

Spec == Init /\ [][Next]_vars
============================================================================
