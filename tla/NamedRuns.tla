------------------------------ MODULE NamedRuns ------------------------------
(***************************************************************************)
(* What the Docker and the QEMU harness promise of the things they name    *)
(* after the second in which a run starts (docker_sandbox.cli.main and     *)
(* qemu_sandbox.cli.main): a run takes its name once, and names are given  *)
(* in the order of the clock; it touches nothing that has another name; it *)
(* makes all its things before it removes the first one, and then makes    *)
(* none any more.  A run may be over at any time.                          *)
(*                                                                         *)
(* Two runs of one second share a name.  Nothing keeps them apart: each    *)
(* removes what has the name, and may make it anew, whoever made it.       *)
(***************************************************************************)
EXTENDS Naturals

CONSTANTS
  Runs,
  NoRun,    \* is the owner of what is not there
  Things,   \* the kinds of things that a run may make, one of each
  LastName  \* bound: names are the seconds 1 to LastName

VARIABLES
  phase,  \* per run: "before", "making", "working", "removing", "over"
  name,   \* per run: its second, 0 before it has one
  owner   \* per thing and second: the run that made what has the name

vars == <<phase, name, owner>>

Names == 1..LastName
Phases == {"before", "making", "working", "removing", "over"}

\* What may come later in a run.
Later == [before   |-> {"making", "over"},
          making   |-> {"working", "over"},
          working  |-> {"removing", "over"},
          removing |-> {"over"},
          over     |-> {}]

Init == /\ phase = [r \in Runs |-> "before"]
        /\ name = [r \in Runs |-> 0]
        /\ owner = [x \in Things |-> [n \in Names |-> NoRun]]

Enter(r, phases) == \E p \in phases : phase' = [phase EXCEPT ![r] = p]

Start(r, n) == /\ phase[r] = "before" /\ Enter(r, {"making"})
               /\ \A q \in Runs : name[q] <= n
               /\ name' = [name EXCEPT ![r] = n]
               /\ UNCHANGED owner

\* The thing takes the place of one of a run of the same second, if any.
Make(r, x) == /\ phase[r] = "making"
              /\ Enter(r, {"making"} \cup Later["making"])
              /\ owner' = [owner EXCEPT ![x][name[r]] = r]
              /\ UNCHANGED name

Remove(r, x) == /\ phase[r] = "removing"
                /\ Enter(r, {"removing"} \cup Later["removing"])
                /\ owner' = [owner EXCEPT ![x][name[r]] = NoRun]
                /\ UNCHANGED name

GoOn(r) == /\ phase[r] # "before"
           /\ Enter(r, Later[phase[r]])
           /\ UNCHANGED <<name, owner>>

\* Without a name: the run could not start.
Refuse(r) == /\ phase[r] = "before" /\ Enter(r, {"over"})
             /\ UNCHANGED <<name, owner>>

Next == \E r \in Runs :
          \/ \E n \in Names : Start(r, n)
          \/ \E x \in Things : Make(r, x) \/ Remove(r, x)
          \/ GoOn(r) \/ Refuse(r)

Spec == Init /\ [][Next]_vars

-----------------------------------------------------------------------------
\* What has a name was made by a run of that name.
TypeOK ==
  /\ phase \in [Runs -> Phases]
  /\ name \in [Runs -> 0..LastName]
  /\ owner \in [Things -> [Names -> Runs \cup {NoRun}]]
  /\ \A r \in Runs :
       /\ phase[r] = "before" => name[r] = 0
       /\ phase[r] \in {"making", "working", "removing"} => name[r] # 0

Belongs ==
  \A x \in Things : \A n \in Names :
    owner[x][n] # NoRun => name[owner[x][n]] = n

Alone == \A r, q \in Runs : r # q /\ name[r] # 0 => name[r] # name[q]

\* Only a run of the name changes what has the name, and it replaces and
\* removes nothing of another run as long as no two runs share a name.
OnlyNamesakesChange ==
  [][\A x \in Things : \A n \in Names :
       owner'[x][n] # owner[x][n] =>
         \E r \in Runs : /\ name[r] = n
                         /\ phase[r] \in {"making", "removing"}
                         /\ Alone => owner[x][n] \in {NoRun, r}
                         /\ owner[x][n] # NoRun /\ Alone =>
                              phase[r] = "removing" /\ owner'[x][n] = NoRun]_vars

\* What is left under a name when its runs are over and a later name has been
\* given stays as it is for ever: no run takes an old name again.
Abandoned(n) ==
  /\ \A r \in Runs : name[r] = n => phase[r] = "over"
  /\ \E q \in Runs : name[q] > n

LeftoversStay ==
  [][\A n \in Names : Abandoned(n) =>
       /\ Abandoned(n)'
       /\ \A x \in Things : owner'[x][n] = owner[x][n]]_vars
=============================================================================
