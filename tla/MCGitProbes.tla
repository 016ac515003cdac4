---------------------------- MODULE MCGitProbes ----------------------------
(***************************************************************************)
(* The six probes of the allowed repository (T10, T12, T14, T16, T18 and   *)
(* T20), any two commands that misbehave, and a repository that is         *)
(* suitable for all of them or for all but a few.                          *)
(***************************************************************************)
EXTENDS GitProbes

MCKinds == <<"branch", "track", "stage", "commit", "push", "pull">>

Suited == [commits |-> TRUE, named |-> TRUE, origin |-> TRUE,
           tracked |-> TRUE, dirty |-> FALSE]

MCUserFacts ==
    {Suited, [Suited EXCEPT !.commits = FALSE, !.named = FALSE],
     [Suited EXCEPT !.named = FALSE], [Suited EXCEPT !.origin = FALSE],
     [Suited EXCEPT !.tracked = FALSE], [Suited EXCEPT !.dirty = TRUE]}
=============================================================================
