-------------------------- MODULE NamedRunsTheorems --------------------------
(***************************************************************************)
(* What follows from NamedRuns for whoever implements it: that only runs   *)
(* of a name change what has the name, and that nobody changes what is     *)
(* left under a name that has been passed.  Both come from one invariant:  *)
(* what has a name was made by a run of that name (Belongs).               *)
(***************************************************************************)
EXTENDS NamedRuns, TLAPS

Inv == TypeOK /\ Belongs

\* The constants are those of a harness.
Constants == NoRun \notin Runs /\ LastName \in Nat

LEMMA InitInv == ASSUME Constants PROVE Init => Inv
BY DEF Constants, Init, Inv, TypeOK, Belongs, Phases, Names

LEMMA TypeStep ==
  ASSUME Constants, TypeOK, [Next]_vars
  PROVE  TypeOK'
<1>1. ASSUME NEW r \in Runs, NEW n \in Names, Start(r, n) PROVE TypeOK'
  BY <1>1 DEF Constants, TypeOK, Start, Enter, Phases, Names
<1>2. ASSUME NEW r \in Runs, NEW x \in Things, Make(r, x) PROVE TypeOK'
  <2>1. name[r] \in Names
    BY <1>2 DEF Constants, TypeOK, Make, Names
  <2>2. owner' \in [Things -> [Names -> Runs \cup {NoRun}]]
    BY <1>2, <2>1 DEF TypeOK, Make
  <2> QED
    BY <1>2, <2>1, <2>2 DEF TypeOK, Make, Enter, Later, Phases
<1>3. ASSUME NEW r \in Runs, NEW x \in Things, Remove(r, x) PROVE TypeOK'
  <2>1. owner' \in [Things -> [Names -> Runs \cup {NoRun}]]
    BY <1>3 DEF TypeOK, Remove
  <2> QED
    BY <1>3, <2>1 DEF TypeOK, Remove, Enter, Later, Phases
<1>4. ASSUME NEW r \in Runs, GoOn(r) PROVE TypeOK'
  BY <1>4 DEF TypeOK, GoOn, Enter, Later, Phases
<1>5. ASSUME NEW r \in Runs, Refuse(r) PROVE TypeOK'
  BY <1>5 DEF TypeOK, Refuse, Enter, Phases
<1>6. CASE UNCHANGED vars
  BY <1>6 DEF TypeOK, vars
<1> QED
  BY <1>1, <1>2, <1>3, <1>4, <1>5, <1>6 DEF Next

LEMMA BelongsStep ==
  ASSUME Constants, Inv, [Next]_vars
  PROVE  Belongs'
<1> USE DEF Inv, Belongs
<1>1. ASSUME NEW r \in Runs, NEW n \in Names, Start(r, n) PROVE Belongs'
  BY <1>1 DEF Constants, TypeOK, Start, Names
<1>2. ASSUME NEW r \in Runs, NEW x \in Things, Make(r, x) PROVE Belongs'
  BY <1>2 DEF Constants, TypeOK, Make
<1>3. ASSUME NEW r \in Runs, NEW x \in Things, Remove(r, x) PROVE Belongs'
  BY <1>3 DEF Constants, TypeOK, Remove
<1>4. CASE UNCHANGED <<name, owner>>
  BY <1>4
<1> QED
  BY <1>1, <1>2, <1>3, <1>4 DEF Next, GoOn, Refuse, vars

LEMMA InvHolds == ASSUME Constants PROVE Spec => []Inv
<1>1. Init => Inv
  BY InitInv
<1>2. Inv /\ [Next]_vars => Inv'
  BY TypeStep, BelongsStep DEF Inv
<1> QED
  BY <1>1, <1>2, PTL DEF Spec

-----------------------------------------------------------------------------
\* What one step may do to what has a name.
Changed(x, n) ==
  owner'[x][n] # owner[x][n] =>
    \E r \in Runs : /\ name[r] = n
                    /\ phase[r] \in {"making", "removing"}
                    /\ Alone => owner[x][n] \in {NoRun, r}
                    /\ owner[x][n] # NoRun /\ Alone =>
                         phase[r] = "removing" /\ owner'[x][n] = NoRun

LEMMA OwnersAlone ==
  ASSUME Constants, Inv, Alone, NEW r \in Runs, NEW x \in Things,
         NEW n \in Names, name[r] = n
  PROVE  owner[x][n] \in {NoRun, r}
BY DEF Constants, Inv, TypeOK, Belongs, Alone, Names

LEMMA ChangeStep ==
  ASSUME Constants, Inv, [Next]_vars, NEW x \in Things, NEW n \in Names
  PROVE  Changed(x, n)
<1>1. ASSUME NEW r \in Runs, NEW y \in Things, Make(r, y) PROVE Changed(x, n)
  BY <1>1, OwnersAlone DEF Inv, TypeOK, Make, Changed
<1>2. ASSUME NEW r \in Runs, NEW y \in Things, Remove(r, y) PROVE Changed(x, n)
  BY <1>2, OwnersAlone DEF Inv, TypeOK, Remove, Changed
<1>3. CASE UNCHANGED owner
  BY <1>3 DEF Changed
<1> QED
  BY <1>1, <1>2, <1>3 DEF Next, Start, GoOn, Refuse, vars

\* Only a run of the name changes what has the name; and one that shares it
\* with no other replaces nothing, and removes only what it made, when it has
\* made all it makes (docker rm and unlink by name).
THEOREM NamesakesChange == ASSUME Constants PROVE Spec => OnlyNamesakesChange
<1>1. Inv /\ [Next]_vars =>
        [\A x \in Things : \A n \in Names : Changed(x, n)]_vars
  BY ChangeStep
<1> QED
  BY <1>1, InvHolds, PTL DEF Spec, OnlyNamesakesChange, Changed

-----------------------------------------------------------------------------
LEMMA AbandonedStep ==
  ASSUME Constants, Inv, [Next]_vars, NEW n \in Names, Abandoned(n)
  PROVE  /\ Abandoned(n)'
         /\ \A x \in Things : owner'[x][n] = owner[x][n]
<1> USE DEF Inv, Abandoned
<1>1. ASSUME NEW r \in Runs, NEW m \in Names, Start(r, m)
      PROVE  Abandoned(n)' /\ UNCHANGED owner
  <2>1. PICK q \in Runs : name[q] > n
    OBVIOUS
  <2>2. m > n /\ name'[r] = m /\ name'[q] > n
    BY <1>1, <2>1 DEF Constants, TypeOK, Start, Names
  <2>3. \A p \in Runs \ {r} : name'[p] = name[p] /\ phase'[p] = phase[p]
    BY <1>1 DEF TypeOK, Start, Enter
  <2> QED
    BY <1>1, <2>2, <2>3 DEF Constants, TypeOK, Start, Names
<1>2. ASSUME NEW r \in Runs, phase[r] # "over", UNCHANGED name,
             NEW p, phase' = [phase EXCEPT ![r] = p]
      PROVE  Abandoned(n)' /\ name[r] # n
  BY <1>2 DEF TypeOK
<1>3. ASSUME NEW r \in Runs, NEW y \in Things, Make(r, y) \/ Remove(r, y)
      PROVE  Abandoned(n)' /\ \A x \in Things : owner'[x][n] = owner[x][n]
  <2>1. Abandoned(n)' /\ name[r] # n
    <3>1. phase[r] # "over" /\ UNCHANGED name
          /\ \E p : phase' = [phase EXCEPT ![r] = p]
      BY <1>3 DEF Make, Remove, Enter
    <3> QED
      BY <1>2, <3>1
  <2> QED
    BY <1>3, <2>1 DEF Make, Remove, TypeOK
<1>4. ASSUME NEW r \in Runs, GoOn(r) \/ Refuse(r)
      PROVE  Abandoned(n)' /\ UNCHANGED owner
  BY <1>2, <1>4 DEF GoOn, Refuse, Enter, Later
<1>5. CASE UNCHANGED vars
  BY <1>5 DEF vars
<1> QED
  BY <1>1, <1>3, <1>4, <1>5 DEF Next

\* What runs that are over have left under their name stays as it is once a
\* later second has been used: no run takes an old name again.
THEOREM AbandonedStays == ASSUME Constants PROVE Spec => LeftoversStay
<1>1. Inv /\ [Next]_vars =>
        [\A n \in Names : Abandoned(n) =>
           /\ Abandoned(n)'
           /\ \A x \in Things : owner'[x][n] = owner[x][n]]_vars
  BY AbandonedStep
<1> QED
  BY <1>1, InvHolds, PTL DEF Spec, LeftoversStay
=============================================================================
