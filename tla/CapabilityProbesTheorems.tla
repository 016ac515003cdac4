----------------------- MODULE CapabilityProbesTheorems -----------------------
(***************************************************************************)
(* What run_group makes of the answers of the world, for every set of      *)
(* capabilities written in the terms of Probing, every configuration and   *)
(* any number of runs.                                                     *)
(*                                                                         *)
(* The outcome of a path hangs on the answers it met in one way only: the  *)
(* last try of a shell or tool path, or the sum over the alternates, is    *)
(* the judgement of answers that it met.  Nothing is met before a path is  *)
(* found applicable, and nothing after a shell or a tool has succeeded.    *)
(***************************************************************************)
EXTENDS CapabilityProbes, WellFoundedInduction, TLAPS

\* The types of CapabilityProbes, and that the capability is one of them.
Typed == test \in Capabilities /\ TypeOK

\* Nothing is met by a path that does not apply, or before the preparation.
Untried ==
  at \in Paths /\ (~Applicable(at) \/ (at = "alternates" /\ ~begun))
    => met = {}

\* Every answer that a path has met has an outcome.
AllTaken == at \in Paths => \A a \in met : Taken(a)

\* A shell or a tool has all its tries, or the outcome of one of them.
LastIsJudged ==
  at \in {"shell", "tool"} =>
    \/ met = {} /\ left # 0
    \/ \E a \in met : last = Judged(Probe, a)

\* A shell or a tool that has succeeded tries no more.
SuccessIsLast ==
  at \in {"shell", "tool"} /\ "done" \in met => left = 0 /\ last = "Allowed"

Inv == Typed /\ Untried /\ AllTaken /\ LastIsJudged /\ SuccessIsLast

-----------------------------------------------------------------------------
(***************************************************************************)
(* The operators of Probing.                                               *)
(***************************************************************************)

\* A nonempty set of numbers has a least one.
LEMMA LeastNumber ==
  ASSUME NEW S \in SUBSET Nat, S # {}
  PROVE  \E m \in S : \A k \in S : ~(k < m)
<1>1. \E m \in S : \A k \in S : <<k, m>> \notin OpToRel(<, Nat)
  BY WFMin, NatLessThanWellFounded, Zenon
<1>2. \A k, m \in S : k < m => <<k, m>> \in OpToRel(<, Nat)
  BY DEF OpToRel
<1> QED
  BY <1>1, <1>2

\* The handlers of a try give the exception that they take an outcome: that
\* of the first one that matches.
LEMMA HandledIsOutcome ==
  ASSUME NEW h \in Handlers, NEW e, Handles(h, e)
  PROVE  \E i \in DOMAIN h : IsA(e, h[i][1]) /\ Handled(h, e) = h[i][2]
<1> DEFINE Matches == {i \in DOMAIN h : IsA(e, h[i][1])}
           First(i) == /\ IsA(e, h[i][1])
                       /\ \A j \in 1..(i - 1) : ~IsA(e, h[j][1])
<1>1. Len(h) \in Nat /\ DOMAIN h = 1..Len(h)
  BY DEF Handlers
<1>2. Matches \in SUBSET Nat /\ Matches # {}
  BY <1>1 DEF Handles
<1>3. PICK m \in Matches : \A k \in Matches : ~(k < m)
  BY <1>2, LeastNumber
<1>4. m \in DOMAIN h /\ First(m)
  BY <1>1, <1>3
<1>5. LET first == CHOOSE i \in DOMAIN h : First(i)
      IN first \in DOMAIN h /\ First(first)
  BY <1>4
<1> QED
  BY <1>5 DEF Handled

LEMMA HandledIsTyped ==
  ASSUME NEW h \in Handlers, NEW e, Handles(h, e)
  PROVE  Handled(h, e) \in Outcomes
<1>1. PICK i \in DOMAIN h : Handled(h, e) = h[i][2]
  BY HandledIsOutcome
<1>2. h[i] \in STRING \X Outcomes
  BY DEF Handlers
<1> QED
  BY <1>1, <1>2

\* A handler can only give an outcome that it is written with.
LEMMA HandledDiffers ==
  ASSUME NEW h \in Handlers, NEW e, Handles(h, e), NEW o,
         \A i \in DOMAIN h : h[i][2] # o
  PROVE  Handled(h, e) # o
  BY HandledIsOutcome

\* What the registry is assumed to be, for one path.
LEMMA PathIsWritten ==
  ASSUME Typed, at \in Paths
  PROVE  /\ "done" \in Distinguished(Probe)
         /\ "stale" \notin Distinguished(Probe)
         /\ Judged(Probe, "done") = "Allowed"
         /\ \A a \in Distinguished(Probe) : Probe.on[a] \in Outcomes
         /\ Probe.on["done"] = "Allowed"
         /\ Probe.catch \in Handlers /\ Probe.prepare.catch \in Handlers
         /\ Probe.idle \in Outcomes /\ Probe.otherwise \in Outcomes
<1>1. /\ "done" \in DOMAIN Probe.on /\ "stale" \notin DOMAIN Probe.on
      /\ \A a \in DOMAIN Probe.on : Probe.on[a] \in Outcomes \cup {"never"}
      /\ Probe.on["done"] = "Allowed"
      /\ Probe.catch \in Handlers /\ Probe.prepare.catch \in Handlers
      /\ Probe.idle \in Outcomes /\ Probe.otherwise \in Outcomes
  BY CapabilitiesAssumption DEF CapabilitiesAssumption, Typed, Probe
<1>2. "done" \in Distinguished(Probe) /\ "stale" \notin Distinguished(Probe)
  BY <1>1 DEF Distinguished
<1>3. \A a \in Distinguished(Probe) : Probe.on[a] \in Outcomes
  BY <1>1 DEF Distinguished
<1>4. Judged(Probe, "done") = "Allowed"
  BY <1>1, <1>2 DEF Judged
<1> QED
  BY <1>1, <1>2, <1>3, <1>4

\* A path is tried a number of times, a shell or a tool at least once.
LEMMA BudgetIsNumber ==
  ASSUME Typed, NEW p \in Paths
  PROVE  Budget(p) \in Nat /\ (p # "alternates" => Budget(p) # 0)
<1>1. test \in Capabilities /\ os \in Systems
  BY DEF Typed, TypeOK
<1>2. test[p].tries \in Nat \ {0} /\ test[p].count \in [Systems -> Nat]
  BY <1>1, CapabilitiesAssumption DEF CapabilitiesAssumption
<1> QED
  BY <1>1, <1>2 DEF Budget

\* An answer that is taken has an outcome.
LEMMA JudgedIsTyped ==
  ASSUME Typed, at \in Paths, NEW a, Taken(a)
  PROVE  Judged(Probe, a) \in Outcomes
<1>1. CASE a \in Distinguished(Probe) \cup {"stale"}
  BY <1>1, PathIsWritten DEF Judged, Outcomes
<1>2. CASE a \notin Distinguished(Probe) \cup {"stale"}
  BY <1>2, PathIsWritten, HandledIsTyped DEF Judged, Taken
<1> QED
  BY <1>1, <1>2

\* A success among the alternates is a success of them all.
LEMMA TotalOfSuccess ==
  ASSUME NEW path, NEW outcomes, "Allowed" \in outcomes
  PROVE  Total(path, outcomes) = "Allowed"
  BY DEF Total

LEMMA TotalIsTyped ==
  ASSUME NEW path, path.idle \in Outcomes, path.otherwise \in Outcomes,
         NEW outcomes
  PROVE  Total(path, outcomes) \in Outcomes
  BY DEF Total, Outcomes

-----------------------------------------------------------------------------
(***************************************************************************)
(* The steps.                                                              *)
(***************************************************************************)

\* A path that is started has met nothing and has all its tries.
LEMMA StartKeepsInv ==
  ASSUME Inv, NEW p \in {"shell", "tool", "alternates", "finished"},
         Start(p), UNCHANGED <<test, os, configured>>, run' \in 1..Runs,
         reported'.path \in Paths \cup {"none"},
         reported'.outcome \in Outcomes \cup {"none"},
         \A r \in remains' : r[1] \in Paths
  PROVE  Inv'
<1> USE DEF Inv, Paths
<1>1. Budget(p)' = Budget(p)
  BY DEF Budget
<1>2. left' \in Nat /\ (p \in {"shell", "tool"} => left' # 0)
  BY BudgetIsNumber DEF Start
<1>3. Typed'
  BY <1>2 DEF Typed, TypeOK, Start, Settings, Outcomes
<1>4. met' = {} /\ at' = p
  BY DEF Start
<1> QED
  BY <1>2, <1>3, <1>4 DEF Untried, AllTaken, LastIsJudged, SuccessIsLast

LEMMA ReportKeepsInv ==
  ASSUME Inv, at \in Paths, NEW o \in Outcomes, Report(o),
         UNCHANGED <<test, os, configured, run>>,
         \A r \in remains' : r[1] \in Paths
  PROVE  Inv'
<1>1. After[at] \in {"tool", "alternates", "finished"}
  BY DEF After, Paths
<1>2. reported'.path = at /\ reported'.outcome = o
  BY DEF Report
<1> QED
  BY <1>1, <1>2, StartKeepsInv DEF Report, Inv, Typed, TypeOK

\* An exception that escapes ends the paths.
LEMMA EscapeKeepsInv ==
  ASSUME Inv, NEW e, Escape(e), reported' = None,
         UNCHANGED <<test, os, configured, run>>,
         \A r \in remains' : r[1] \in Paths
  PROVE  Inv'
<1>1. Typed'
  BY DEF Inv, Typed, TypeOK, Escape, None, Settings
<1>2. at' \notin Paths /\ at' \notin {"shell", "tool"}
  BY DEF Escape, Paths
<1> QED
  BY <1>1, <1>2 DEF Inv, Untried, AllTaken, LastIsJudged, SuccessIsLast

LEMMA NotConfiguredKeepsInv == Inv /\ NotConfigured => Inv'
<1> SUFFICES ASSUME Inv, NotConfigured PROVE Inv'
  OBVIOUS
<1>1. \A r \in remains' : r[1] \in Paths
  BY DEF NotConfigured, Inv, Typed, TypeOK
<1> QED
  BY <1>1, ReportKeepsInv DEF NotConfigured, Outcomes

LEMMA PrepareKeepsInv == Inv /\ Prepare => Inv'
<1> SUFFICES ASSUME Inv, Prepare PROVE Inv'
  OBVIOUS
<1>1. at = "alternates" /\ at \in Paths /\ ~begun
  BY DEF Prepare, Paths
<1>2. \A r \in remains' : r[1] \in Paths
  BY <1>1 DEF Prepare, Left, Inv, Typed, TypeOK
<1>3. CASE /\ begun' = TRUE
          /\ reported' = None
          /\ UNCHANGED <<at, left, met, last, raised>>
  <2>1. Typed'
    BY <1>2, <1>3 DEF Prepare, Inv, Typed, TypeOK, None, Settings
  <2>2. met' = {} /\ at' = "alternates"
    BY <1>1, <1>3 DEF Inv, Untried
  <2> QED
    BY <2>1, <2>2 DEF Inv, Untried, AllTaken, LastIsJudged, SuccessIsLast
<1>4. ASSUME NEW e \in Probe.prepare.raises,
             Handles(Probe.prepare.catch, e),
             Report(Handled(Probe.prepare.catch, e))
      PROVE  Inv'
  <2>1. Handled(Probe.prepare.catch, e) \in Outcomes
    BY <1>1, <1>4, HandledIsTyped, PathIsWritten DEF Inv
  <2> QED
    BY <1>1, <1>2, <1>4, <2>1, ReportKeepsInv DEF Prepare
<1>5. ASSUME NEW e \in Probe.prepare.raises, Escape(e), reported' = None
      PROVE  Inv'
  BY <1>2, <1>5, EscapeKeepsInv DEF Prepare
<1> QED
  BY <1>3, <1>4, <1>5 DEF Prepare

\* A try has an outcome for its answer: a success is the last one.
LEMMA TryKeepsInv ==
  ASSUME Inv, Working, NEW answer, Taken(answer),
         met' = met \cup {answer}, last' = Judged(Probe, answer),
         left' = Remaining(Judged(Probe, answer)), reported' = None,
         UNCHANGED <<test, os, configured, run, at, begun>>,
         \A r \in remains' : r[1] \in Paths
  PROVE  Inv'
<1>1. at \in Paths /\ Applicable(at) /\ (at = "alternates" => begun)
  BY DEF Working
<1>2. left \in Nat /\ left > 0
  BY DEF Inv, Typed, TypeOK, Working
<1>3. Judged(Probe, answer) \in Outcomes
  BY <1>1, JudgedIsTyped DEF Inv
<1>4. left' \in Nat
  BY <1>2 DEF Remaining
<1>5. Typed'
  BY <1>3, <1>4 DEF Inv, Typed, TypeOK, None, Settings
<1>6. Probe' = Probe
  BY DEF Probe
<1>7. Untried'
  BY <1>1 DEF Untried, Applicable
<1>8. AllTaken'
  <2>1. \A a \in met' : Taken(a)
    BY <1>1 DEF Inv, AllTaken
  <2> QED
    BY <1>6, <2>1 DEF AllTaken, Taken
<1>9. LastIsJudged'
  <2>1. answer \in met' /\ last' = Judged(Probe', answer)
    BY <1>6
  <2> QED
    BY <2>1 DEF LastIsJudged
<1>10. SuccessIsLast'
  <2> SUFFICES ASSUME at \in {"shell", "tool"}, "done" \in met'
               PROVE  left' = 0 /\ last' = "Allowed"
    BY DEF SuccessIsLast
  <2>1. "done" \notin met
    BY <1>2 DEF Inv, SuccessIsLast
  <2>2. Judged(Probe, answer) = "Allowed"
    BY <1>1, <2>1, PathIsWritten DEF Inv
  <2> QED
    BY <2>2 DEF Remaining
<1> QED
  BY <1>5, <1>7, <1>8, <1>9, <1>10 DEF Inv

LEMMA AttemptKeepsInv == Inv /\ Attempt => Inv'
<1> SUFFICES ASSUME Inv, Attempt PROVE Inv'
  OBVIOUS
<1>1. PICK answer \in Answers :
        /\ met' = met \cup {answer}
        /\ IF Taken(answer)
           THEN /\ last' = Judged(Probe, answer)
                /\ left' = Remaining(Judged(Probe, answer))
                /\ UNCHANGED <<at, raised>>
           ELSE /\ at' = "escaped"
                /\ raised' = raised \cup {<<at, answer>>}
                /\ UNCHANGED <<left, last>>
        /\ \E things \in SUBSET Probe.makes :
             remains' = remains \cup Left(things)
  BY DEF Attempt
<1>2. at \in Paths /\ Working /\ reported' = None
  BY DEF Attempt, Working
<1>3. \A r \in remains' : r[1] \in Paths
  BY <1>1, <1>2 DEF Left, Inv, Typed, TypeOK
<1>4. CASE Taken(answer)
  BY <1>1, <1>2, <1>3, <1>4, TryKeepsInv DEF Attempt
<1>5. CASE ~Taken(answer)
  <2>1. Typed'
    BY <1>1, <1>3, <1>5 DEF Attempt, Inv, Typed, TypeOK, None, Settings
  <2>2. at' \notin Paths /\ at' \notin {"shell", "tool"}
    BY <1>1, <1>5 DEF Paths
  <2> QED
    BY <2>1, <2>2 DEF Inv, Untried, AllTaken, LastIsJudged, SuccessIsLast
<1> QED
  BY <1>4, <1>5

\* What a path returns is an outcome.
LEMMA VerdictIsTyped ==
  ASSUME Inv, at \in Paths, left = 0
  PROVE  Verdict \in Outcomes
<1>1. CASE at = "alternates"
  BY <1>1, PathIsWritten, TotalIsTyped DEF Verdict, Inv
<1>2. CASE at # "alternates"
  <2>1. PICK a \in met : last = Judged(Probe, a)
    BY <1>2 DEF Inv, LastIsJudged, Paths
  <2>2. Taken(a)
    BY DEF Inv, AllTaken
  <2> QED
    BY <1>2, <2>1, <2>2, JudgedIsTyped DEF Verdict, Inv
<1> QED
  BY <1>1, <1>2

LEMMA ConcludeKeepsInv == Inv /\ Conclude => Inv'
<1> SUFFICES ASSUME Inv, Conclude PROVE Inv'
  OBVIOUS
<1>1. \A r \in remains' : r[1] \in Paths
  BY DEF Conclude, Undone, Inv, Typed, TypeOK
<1> QED
  BY <1>1, VerdictIsTyped, ReportKeepsInv DEF Conclude

LEMMA RaiseKeepsInv == Inv /\ Raise => Inv'
  BY EscapeKeepsInv DEF Raise, Inv, Typed, TypeOK

LEMMA NextRunKeepsInv ==
  ASSUME Inv, NextRun, \A r \in remains' : r[1] \in Paths
  PROVE  Inv'
<1>1. run' \in 1..Runs
  BY RunsAssumption DEF NextRun, Inv, Typed, TypeOK
<1>2. reported' = None
  BY DEF NextRun
<1> QED
  BY <1>1, <1>2, StartKeepsInv DEF NextRun, None

LEMMA RunAgainKeepsInv == Inv /\ (RunAgain \/ RunAfresh) => Inv'
<1> SUFFICES ASSUME Inv, RunAgain \/ RunAfresh PROVE Inv'
  OBVIOUS
<1>1. \A r \in remains' : r[1] \in Paths
  BY DEF RunAgain, RunAfresh, Inv, Typed, TypeOK
<1> QED
  BY <1>1, NextRunKeepsInv DEF RunAgain, RunAfresh

LEMMA IdleKeepsInv == Inv /\ UNCHANGED vars => Inv'
<1> SUFFICES ASSUME Inv, UNCHANGED vars PROVE Inv'
  OBVIOUS
<1> USE DEF vars
<1>1. Probe' = Probe /\ (Applicable(at)' <=> Applicable(at))
  BY DEF Probe, Applicable
<1>2. Typed'
  BY DEF Inv, Typed, TypeOK, Settings
<1>3. \A a : Taken(a)' <=> Taken(a)
  BY <1>1 DEF Taken
<1> QED
  BY <1>1, <1>2, <1>3
     DEF Inv, Untried, AllTaken, LastIsJudged, SuccessIsLast

LEMMA InitInv == Init => Inv
<1> SUFFICES ASSUME Init PROVE Inv
  OBVIOUS
<1>1. "shell" \in Paths /\ test \in Capabilities /\ os \in Systems
  BY DEF Init, Paths
<1>2. Budget("shell") \in Nat /\ Budget("shell") # 0
  BY <1>1, CapabilitiesAssumption DEF CapabilitiesAssumption, Budget
<1>3. /\ configured \subseteq Settings(test) /\ run \in 1..Runs
      /\ reported.path = "none" /\ reported.outcome = "none"
  BY RunsAssumption DEF Init, None
<1>4. Typed
  BY <1>1, <1>2, <1>3 DEF Init, Typed, TypeOK
<1> QED
  BY <1>2, <1>4
     DEF Init, Inv, Untried, AllTaken, LastIsJudged, SuccessIsLast

LEMMA StepKeepsInv == Inv /\ [Next]_vars => Inv'
  BY NotConfiguredKeepsInv, PrepareKeepsInv, AttemptKeepsInv,
     ConcludeKeepsInv, RaiseKeepsInv, RunAgainKeepsInv, IdleKeepsInv
     DEF Next, Step, Terminated

\* Every reachable state keeps the relation between the answers that a path
\* has met, the tries it has left and the outcome of its last one.
LEMMA Invariance == Spec => []Inv
  BY InitInv, StepKeepsInv, PTL DEF Spec

\* Every outcome is one of the four, tries are counted down to zero and no
\* further, and what remains was made by one of the three paths.
THEOREM TypeCorrect == Spec => []TypeOK
<1>1. Inv => TypeOK
  BY DEF Inv, Typed
<1> QED
  BY <1>1, Invariance, PTL

-----------------------------------------------------------------------------
(***************************************************************************)
(* What is reported.                                                       *)
(***************************************************************************)

\* A path that returns reports its verdict on the answers it has met.
Concluded ==
  /\ at \in Paths /\ left = 0
  /\ reported' = [path |-> at, outcome |-> Verdict, met |-> met]

\* A path that returns before it has tried anything.
Skipped ==
  /\ at \in Paths
  /\ reported'.met = {}
  /\ \/ reported'.outcome = "N/A"
     \/ \E e : /\ Handles(Probe.prepare.catch, e)
              /\ reported'.outcome = Handled(Probe.prepare.catch, e)

\* A step reports nothing, or in one of these two ways.
LEMMA ReportsAreVerdicts ==
  ASSUME Inv, [Next]_vars
  PROVE  \/ reported' = None
         \/ UNCHANGED <<test, reported>>
         \/ UNCHANGED test /\ (Concluded \/ Skipped)
<1>1. CASE NotConfigured
  <2>1. met = {}
    BY <1>1 DEF NotConfigured, Inv, Untried
  <2> QED
    BY <1>1, <2>1 DEF NotConfigured, Report, Skipped
<1>2. CASE Prepare
  <2>1. met = {} /\ at \in Paths
    BY <1>2 DEF Prepare, Inv, Untried, Paths
  <2> QED
    BY <1>2, <2>1 DEF Prepare, Report, Skipped
<1>3. CASE Attempt \/ Raise \/ NextRun
  BY <1>3 DEF Attempt, Raise, NextRun
<1>4. CASE Conclude
  BY <1>4 DEF Conclude, Report, Concluded
<1>5. CASE UNCHANGED vars
  BY <1>5 DEF vars
<1> QED
  BY <1>1, <1>2, <1>3, <1>4, <1>5
     DEF Next, Step, Terminated, RunAgain, RunAfresh

\* The judgements of what the alternates have met.
LEMMA VerdictOfSuccess ==
  ASSUME Inv, at \in Paths, left = 0, "done" \in met
  PROVE  Verdict = "Allowed"
<1>1. CASE at = "alternates"
  <2>1. "Allowed" \in {Judged(Probe, a) : a \in met}
    BY PathIsWritten DEF Inv
  <2> QED
    BY <1>1, <2>1, TotalOfSuccess DEF Verdict
<1>2. CASE at # "alternates"
  BY <1>2 DEF Inv, SuccessIsLast, Verdict, Paths
<1> QED
  BY <1>1, <1>2

\* A path that met a success is Allowed, whatever else it met before or
\* after it: for every capability, configuration and order of answers.
THEOREM SuccessesAreSeen == Spec => []SuccessIsSeen
<1>1. Init => SuccessIsSeen
  BY DEF Init, None, SuccessIsSeen
<1>2. ASSUME Inv, SuccessIsSeen, [Next]_vars PROVE SuccessIsSeen'
  <2>1. CASE reported' = None
    BY <2>1 DEF None, SuccessIsSeen
  <2>2. CASE UNCHANGED reported
    BY <1>2, <2>2 DEF SuccessIsSeen
  <2>3. CASE Concluded
    BY <1>2, <2>3, VerdictOfSuccess DEF Concluded, SuccessIsSeen
  <2>4. CASE Skipped
    BY <2>4 DEF Skipped, SuccessIsSeen
  <2> QED
    BY <1>2, <2>1, <2>2, <2>3, <2>4, ReportsAreVerdicts
<1> QED
  BY <1>1, <1>2, Invariance, PTL DEF Spec

-----------------------------------------------------------------------------
(***************************************************************************)
(* What holds of the capabilities whose paths are written with some care.  *)
(* The registry is a table of data, and TLC checks it.                     *)
(***************************************************************************)

\* What a path calls Allowed is an exit status, a return or the exception
\* that is a server's answer, and a list without a success is not.
AllowsSuccesses(path) ==
  /\ \A a \in Distinguished(path) :
       path.on[a] = "Allowed" => a \in {"done", "nothing"} \cup ServerAnswers
  /\ \A i \in DOMAIN path.catch :
       path.catch[i][2] = "Allowed" => path.catch[i][1] \in ServerAnswers
  /\ \A i \in DOMAIN path.prepare.catch :
       path.prepare.catch[i][2] # "Allowed"
  /\ path.idle # "Allowed" /\ path.otherwise # "Allowed"

\* A refusal that a path takes is not taken for a missing program.
TakesRefusals(path) ==
  \A a \in {"refused"} \cup Refusals :
    a \in Distinguished(path) \/ Handles(path.catch, a)
      => Judged(path, a) # "N/A"

\* The body of a path has an outcome for whatever may end it.
GuardsBody(path) ==
  \A a \in path.raises \cup UNION {path.again[s] : s \in Systems} :
    a \in Distinguished(path) \cup {"stale"} \/ Handles(path.catch, a)

LEMMA JudgedAllowed ==
  ASSUME Typed, at \in Paths, AllowsSuccesses(Probe),
         NEW a, Taken(a), Judged(Probe, a) = "Allowed"
  PROVE  a \in {"done", "nothing", "stale"} \cup ServerAnswers
<1>1. CASE a \in Distinguished(Probe) \cup {"stale"}
  BY <1>1, PathIsWritten DEF Judged, AllowsSuccesses
<1>2. CASE a \notin Distinguished(Probe) \cup {"stale"}
  <2>1. Handles(Probe.catch, a) /\ Handled(Probe.catch, a) = "Allowed"
    BY <1>2 DEF Taken, Judged
  <2>2. PICK i \in DOMAIN Probe.catch :
          IsA(a, Probe.catch[i][1]) /\ Probe.catch[i][2] = "Allowed"
    BY <2>1, PathIsWritten, HandledIsOutcome
  <2>3. Probe.catch[i][1] \in ServerAnswers
    BY <2>2 DEF AllowsSuccesses
  <2> QED
    BY <2>2, <2>3 DEF IsA, ServerAnswers
<1> QED
  BY <1>1, <1>2

\* Whatever the retries and the alternates add up: a capability that calls
\* only successes Allowed is not Allowed by refusals, absences or exceptions.
THEOREM RefusalsAreNotAllowed ==
  ASSUME \A t \in Capabilities : \A p \in Paths : AllowsSuccesses(t[p])
  PROVE  Spec => []RefusalIsNotAllowed
<1> DEFINE Successes == {"done", "nothing", "stale"} \cup ServerAnswers
<1>1. Init => RefusalIsNotAllowed
  BY DEF Init, None, RefusalIsNotAllowed
<1>2. ASSUME Inv, RefusalIsNotAllowed, [Next]_vars
      PROVE  RefusalIsNotAllowed'
  <2>1. CASE reported' = None
    BY <2>1 DEF None, RefusalIsNotAllowed
  <2>2. CASE UNCHANGED reported
    BY <1>2, <2>2 DEF RefusalIsNotAllowed
  <2>3. CASE Concluded
    <3>1. at \in Paths /\ left = 0 /\ AllowsSuccesses(Probe)
      BY <1>2, <2>3 DEF Concluded, Inv, Typed, Probe
    <3>2. Verdict = "Allowed" => \E a \in met : Judged(Probe, a) = "Allowed"
      <4>1. CASE at = "alternates"
        BY <3>1, <4>1 DEF Verdict, Total, AllowsSuccesses
      <4>2. CASE at # "alternates"
        BY <1>2, <3>1, <4>2 DEF Verdict, Inv, LastIsJudged, Paths
      <4> QED
        BY <4>1, <4>2
    <3>3. \A a \in met : Judged(Probe, a) = "Allowed" => a \in Successes
      BY <1>2, <3>1, JudgedAllowed DEF Inv, AllTaken
    <3> QED
      BY <2>3, <3>2, <3>3 DEF Concluded, RefusalIsNotAllowed
  <2>4. CASE Skipped
    <3>1. at \in Paths /\ AllowsSuccesses(Probe)
      BY <1>2, <2>4 DEF Skipped, Inv, Typed, Probe
    <3>2. \A e : Handles(Probe.prepare.catch, e)
                 => Handled(Probe.prepare.catch, e) # "Allowed"
      BY <1>2, <3>1, PathIsWritten, HandledDiffers DEF AllowsSuccesses, Inv
    <3> QED
      BY <2>4, <3>2 DEF Skipped, RefusalIsNotAllowed
  <2> QED
    BY <1>2, <2>1, <2>2, <2>3, <2>4, ReportsAreVerdicts
<1> QED
  BY <1>1, <1>2, Invariance, PTL DEF Spec

\* A shell or a tool path that takes no refusal for an absence is not N/A
\* when it has met refusals and nothing else, however often it tried.
THEOREM RefusalsAreApplicable ==
  ASSUME \A t \in Capabilities : \A p \in {"shell", "tool"} :
           TakesRefusals(t[p])
  PROVE  Spec => []RefusalIsApplicable
<1>1. Init => RefusalIsApplicable
  BY DEF Init, None, RefusalIsApplicable
<1>2. ASSUME Inv, RefusalIsApplicable, [Next]_vars
      PROVE  RefusalIsApplicable'
  <2>1. CASE reported' = None
    BY <2>1 DEF None, RefusalIsApplicable
  <2>2. CASE UNCHANGED reported
    BY <1>2, <2>2 DEF RefusalIsApplicable
  <2>3. CASE Concluded
    <3> SUFFICES ASSUME at \in {"shell", "tool"},
                        met \subseteq {"refused"} \cup Refusals
                 PROVE  Verdict # "N/A"
      BY <2>3 DEF Concluded, RefusalIsApplicable
    <3>1. PICK a \in met : last = Judged(Probe, a)
      BY <1>2, <2>3 DEF Concluded, Inv, LastIsJudged
    <3>2. Taken(a) /\ a \in {"refused"} \cup Refusals /\ a # "stale"
      BY <1>2, <2>3 DEF Concluded, Inv, AllTaken, Refusals
    <3>3. TakesRefusals(Probe)
      BY <1>2 DEF Inv, Typed, Probe
    <3>4. Judged(Probe, a) # "N/A"
      BY <3>2, <3>3 DEF TakesRefusals, Taken
    <3> QED
      BY <3>1, <3>4 DEF Verdict
  <2>4. CASE Skipped
    BY <2>4 DEF Skipped, RefusalIsApplicable
  <2> QED
    BY <1>2, <2>1, <2>2, <2>3, <2>4, ReportsAreVerdicts
<1> QED
  BY <1>1, <1>2, Invariance, PTL DEF Spec

\* Where every body handles what may end it, also when it meets the things of
\* an earlier run, only what is outside of the bodies ends the tester.
THEOREM BodiesStayGuarded ==
  ASSUME \A t \in Capabilities : \A p \in Paths : GuardsBody(t[p])
  PROVE  Spec => []BodiesAreGuarded
<1>1. Init => BodiesAreGuarded
  BY DEF Init, BodiesAreGuarded
<1>2. ASSUME Inv, BodiesAreGuarded, [Next]_vars
      PROVE  BodiesAreGuarded'
  <2>1. CASE UNCHANGED <<test, os, raised>>
    BY <1>2, <2>1 DEF BodiesAreGuarded
  <2>2. CASE Prepare
    <3>1. CASE UNCHANGED raised
      BY <2>1, <2>2, <3>1 DEF Prepare
    <3>2. CASE \E e \in Probe.prepare.raises : Escape(e)
      BY <1>2, <2>2, <3>2 DEF Prepare, Escape, Probe, BodiesAreGuarded
    <3> QED
      BY <2>2, <3>1, <3>2 DEF Prepare
  <2>3. CASE Attempt
    <3>1. at \in Paths /\ os \in Systems /\ test \in Capabilities
      BY <1>2, <2>3 DEF Attempt, Working, Inv, Typed, TypeOK
    <3>2. GuardsBody(Probe)
      BY <3>1 DEF Probe
    <3>3. \A answer \in Answers : Taken(answer)
      BY <3>1, <3>2 DEF Answers, GuardsBody, Taken
    <3> QED
      BY <2>1, <2>3, <3>3 DEF Attempt
  <2>4. CASE Raise
    BY <1>2, <2>4 DEF Raise, Escape, Probe, BodiesAreGuarded
  <2>5. CASE NextRun
    BY <2>1, <2>5 DEF NextRun
  <2> QED
    BY <1>2, <2>1, <2>2, <2>3, <2>4, <2>5
       DEF Next, Step, NotConfigured, Conclude, RunAgain, RunAfresh,
           Terminated, vars
<1> QED
  BY <1>1, <1>2, Invariance, PTL DEF Spec

-----------------------------------------------------------------------------
\* What a path may leave outside of the fixtures it tries to undo, what it
\* leaves in the output directory it was configured for, and its preparation
\* leaves nothing to its finally.
AccountsForThings(path) ==
  /\ \A x \in path.makes \cup path.prepare.leaves :
       /\ x.where = "outside" => x.undone # "never"
       /\ x.where = "output" => "output_directory" \in path.needs
  /\ \A x \in path.prepare.leaves : x.undone # "finally"

\* What is for a finally to undo is there only when its path has tried
\* something and goes on, or when an exception has ended that path: a path
\* that returns has undone it, and one that returns early has made nothing.
HeldByPath ==
  \A r \in remains : r[2].undone = "finally" =>
    \/ r[1] = at /\ met # {}
    \/ \E x \in raised : x[1] = r[1]

PlacesExplained ==
  \A r \in remains :
    /\ r[2].where = "outside" => r[2].undone # "never"
    /\ r[2].where = "output" => "output_directory" \in configured

\* Things that a path makes or prepares are in a place that is explained.
LEMMA LeftIsExplained ==
  ASSUME Typed, PlacesExplained, at \in Paths, AccountsForThings(Probe),
         Applicable(at), UNCHANGED configured,
         NEW things \in SUBSET (Probe.makes \cup Probe.prepare.leaves),
         remains' = remains \cup Left(things)
  PROVE  PlacesExplained'
<1>1. "output_directory" \in Probe.needs => "output_directory" \in configured
  BY DEF Applicable, Applies, Probe, Systems
<1>2. ASSUME NEW r \in Left(things)
      PROVE  /\ r[2].where = "outside" => r[2].undone # "never"
             /\ r[2].where = "output" => "output_directory" \in configured
  BY <1>1, <1>2 DEF Left, AccountsForThings
<1> QED
  BY <1>2 DEF PlacesExplained

\* A path ends without an exception only when what is left of its own is not
\* for its finally to undo, or was left before.
LEMMA EndingHolds ==
  ASSUME HeldByPath, UNCHANGED raised,
         \A r \in remains' : r[2].undone = "finally" =>
           r \in remains /\ (r[1] = at => met = {})
  PROVE  HeldByPath'
  BY DEF HeldByPath

\* An exception explains what the path that it leaves has made.
LEMMA EscapeHolds ==
  ASSUME HeldByPath, NEW e, raised' = raised \cup {<<at, e>>},
         NEW things, remains' = remains \cup Left(things)
  PROVE  HeldByPath'
<1>1. \A r \in Left(things) : r[1] = at
  BY DEF Left
<1>2. <<at, e>> \in raised' /\ <<at, e>>[1] = at /\ raised \subseteq raised'
  OBVIOUS
<1> QED
  BY <1>1, <1>2 DEF HeldByPath

LEMMA PrepareHolds ==
  ASSUME Inv, HeldByPath, AccountsForThings(test["alternates"]), Prepare
  PROVE  HeldByPath'
<1>1. at = "alternates" /\ met = {} /\ AccountsForThings(Probe)
  BY DEF Prepare, Inv, Untried, Paths, Probe
<1>2. CASE UNCHANGED <<at, met, raised, remains>>
  BY <1>2 DEF HeldByPath
<1>3. ASSUME NEW things \in SUBSET Probe.prepare.leaves,
             remains' = remains \cup Left(things), UNCHANGED raised
      PROVE  HeldByPath'
  <2>1. \A r \in Left(things) : r[2].undone # "finally"
    BY <1>1, <1>3 DEF Left, AccountsForThings
  <2> QED
    BY <1>1, <1>3, <2>1, EndingHolds
<1>4. ASSUME NEW things \in SUBSET Probe.prepare.leaves, NEW e,
             remains' = remains \cup Left(things), Escape(e)
      PROVE  HeldByPath'
  BY <1>4, EscapeHolds DEF Escape
<1> QED
  BY <1>2, <1>3, <1>4 DEF Prepare

LEMMA AttemptHolds ==
  ASSUME HeldByPath, Attempt
  PROVE  HeldByPath'
<1>1. PICK answer \in Answers, things \in SUBSET Probe.makes :
        /\ met' = met \cup {answer}
        /\ \/ UNCHANGED <<at, raised>>
           \/ raised' = raised \cup {<<at, answer>>}
        /\ remains' = remains \cup Left(things)
  BY DEF Attempt
<1>2. CASE UNCHANGED <<at, raised>>
  <2>1. \A r \in Left(things) : r[1] = at'
    BY <1>2 DEF Left
  <2>2. met' # {}
    BY <1>1
  <2> QED
    BY <1>1, <1>2, <2>1, <2>2 DEF HeldByPath
<1>3. CASE raised' = raised \cup {<<at, answer>>}
  BY <1>1, <1>3, EscapeHolds
<1> QED
  BY <1>1, <1>2, <1>3

LEMMA StepHolds ==
  ASSUME Inv, HeldByPath, \A p \in Paths : AccountsForThings(test[p]),
         [Next]_vars
  PROVE  HeldByPath'
<1>1. CASE NotConfigured
  <2>1. met = {} /\ UNCHANGED <<raised, remains>>
    BY <1>1 DEF NotConfigured, Inv, Untried
  <2> QED
    BY <2>1, EndingHolds
<1>2. CASE Prepare
  BY <1>2, PrepareHolds DEF Paths
<1>3. CASE Attempt
  BY <1>3, AttemptHolds
<1>4. CASE Conclude
  BY <1>4, EndingHolds DEF Conclude, Undone
<1>5. CASE Raise
  <2>1. remains' = remains \cup Left({})
    BY <1>5 DEF Raise, Left
  <2> QED
    BY <1>5, <2>1, EscapeHolds DEF Raise, Escape
<1>6. CASE RunAgain \/ RunAfresh
  <2>1. at \notin Paths /\ remains' \subseteq remains /\ UNCHANGED raised
    BY <1>6 DEF RunAgain, RunAfresh, NextRun, Ended, Paths
  <2>2. \A r \in remains : r[1] # at
    BY <2>1 DEF Inv, Typed, TypeOK
  <2> QED
    BY <2>1, <2>2, EndingHolds
<1>7. CASE UNCHANGED vars
  BY <1>7 DEF vars, HeldByPath
<1> QED
  BY <1>1, <1>2, <1>3, <1>4, <1>5, <1>6, <1>7 DEF Next, Step, Terminated

LEMMA PlacesStayExplained ==
  ASSUME Inv, PlacesExplained,
         \A p \in Paths : AccountsForThings(test[p]), [Next]_vars
  PROVE  PlacesExplained'
<1>1. CASE remains' \subseteq remains /\ UNCHANGED configured
  BY <1>1 DEF PlacesExplained
<1>2. CASE Attempt
  <2>1. at \in Paths /\ Applicable(at) /\ AccountsForThings(Probe)
    BY <1>2 DEF Attempt, Working, Probe
  <2>2. PICK things \in SUBSET Probe.makes : remains' = remains \cup Left(things)
    BY <1>2 DEF Attempt
  <2>3. things \in SUBSET (Probe.makes \cup Probe.prepare.leaves)
    BY <2>2
  <2> QED
    BY <1>2, <2>1, <2>2, <2>3, LeftIsExplained DEF Attempt, Inv
<1>3. CASE Prepare
  <2>1. at \in Paths /\ Applicable(at) /\ AccountsForThings(Probe)
    BY <1>3 DEF Prepare, Paths, Probe
  <2>2. CASE \E things \in SUBSET Probe.prepare.leaves :
               remains' = remains \cup Left(things)
    <3>1. PICK things \in SUBSET Probe.prepare.leaves :
            remains' = remains \cup Left(things)
      BY <2>2
    <3>2. things \in SUBSET (Probe.makes \cup Probe.prepare.leaves)
      BY <3>1
    <3> QED
      BY <1>3, <2>1, <3>1, <3>2, LeftIsExplained DEF Prepare, Inv
  <2> QED
    BY <1>1, <1>3, <2>2 DEF Prepare
<1> QED
  BY <1>1, <1>2, <1>3
     DEF Next, Step, NotConfigured, Conclude, Undone, Raise, RunAgain,
         RunAfresh, NextRun, Terminated, vars

\* However many runs there are and wherever they end: what the finally of a
\* path is for stays only after an exception has left that very path, though
\* each run may end in another one and things outlive the run; what stays
\* outside of the fixtures was to be undone, or is a result where results
\* were asked for.
THEOREM RemainsStayExplained ==
  ASSUME \A t \in Capabilities : \A p \in Paths : AccountsForThings(t[p])
  PROVE  Spec => []RemainsAreExplained
<1> DEFINE Explained == PlacesExplained /\ HeldByPath
<1>1. Init => Explained
  BY DEF Init, PlacesExplained, HeldByPath
<1>2. Inv /\ Explained /\ [Next]_vars => Explained'
  <2> SUFFICES ASSUME Inv, Explained, [Next]_vars PROVE Explained'
    OBVIOUS
  <2>1. \A p \in Paths : AccountsForThings(test[p])
    BY DEF Inv, Typed
  <2> QED
    BY <2>1, StepHolds, PlacesStayExplained
<1>3. Explained => RemainsAreExplained
  BY DEF PlacesExplained, HeldByPath, RemainsAreExplained
<1> QED
  BY <1>1, <1>2, <1>3, Invariance, PTL DEF Spec

-----------------------------------------------------------------------------
\* A path that may try something asks for every field of the context that
\* some path of its capability asks for.
IsUsed(t, p) ==
  /\ "never" \notin t[p].needs
  /\ p = "alternates" => \E s \in Systems : t[p].count[s] # 0

SharesFields(t) ==
  \A p, q \in Paths :
    IsUsed(t, p) => t[q].needs \cap ContextFields \subseteq t[p].needs

\* What has been met, was met by a path that applies and has tries.
MetIsApplicable ==
  met # {} => \E p \in Paths : Applicable(p) /\ Budget(p) # 0

LEMMA MetIsApplicableStep ==
  ASSUME Inv, MetIsApplicable, at \in Paths => left <= Budget(at),
         [Next]_vars
  PROVE  MetIsApplicable' /\ (at' \in Paths => left' <= Budget(at)')
<1> DEFINE Bounded == at \in Paths => left <= Budget(at)
<1>1. ASSUME NEW p, Start(p), UNCHANGED <<test, os, configured>>
      PROVE  MetIsApplicable' /\ Bounded'
  <2>1. met' = {} /\ at' = p /\ (p \in Paths => left' = Budget(p))
    BY <1>1 DEF Start
  <2>2. p \in Paths => Budget(p)' = Budget(p) /\ Budget(p) \in Nat
    BY <1>1, BudgetIsNumber DEF Budget, Inv
  <2> QED
    BY <2>1, <2>2 DEF MetIsApplicable
<1>2. CASE Attempt
  <2>1. /\ at \in Paths /\ Applicable(at) /\ left > 0 /\ left \in Nat
        /\ UNCHANGED <<test, os, configured>>
    BY <1>2 DEF Attempt, Working, Inv, Typed, TypeOK
  <2>2. Budget(at) \in Nat /\ Budget(at) # 0
    BY <2>1, BudgetIsNumber DEF Inv
  <2>3. \A p \in Paths : Applicable(p)' = Applicable(p) /\ Budget(p)' = Budget(p)
    BY <2>1 DEF Applicable, Budget
  <2>4. MetIsApplicable'
    BY <2>1, <2>2, <2>3 DEF MetIsApplicable
  <2>5. CASE at' = at
    <3>1. left' <= left
      BY <1>2, <2>1 DEF Attempt, Remaining
    <3>2. left' \in Nat
      BY <1>2, <2>1 DEF Attempt, Remaining
    <3> QED
      BY <2>1, <2>2, <2>3, <2>4, <2>5, <3>1, <3>2
  <2>6. CASE at' = "escaped"
    BY <2>4, <2>6 DEF Paths
  <2> QED
    BY <1>2, <2>5, <2>6 DEF Attempt
<1>3. CASE UNCHANGED <<test, os, configured, met>> /\
           (UNCHANGED <<at, left>> \/ at' \notin Paths)
  <2>1. \A p \in Paths : Applicable(p)' = Applicable(p) /\ Budget(p)' = Budget(p)
    BY <1>3 DEF Applicable, Budget
  <2> QED
    BY <1>3, <2>1 DEF MetIsApplicable
<1>4. CASE Prepare \/ Raise
  <2>1. ASSUME NEW e, Escape(e), UNCHANGED <<test, os, configured>>
        PROVE  MetIsApplicable' /\ Bounded'
    BY <1>3, <2>1 DEF Escape, Paths
  <2> QED
    BY <1>1, <1>3, <1>4, <2>1 DEF Prepare, Raise, Report
<1> QED
  BY <1>1, <1>2, <1>3, <1>4
     DEF Next, Step, NotConfigured, Conclude, Report, RunAgain, RunAfresh,
         NextRun, Terminated, vars

\* Where every path asks for the fields that the others ask for, one path
\* never tries what another one was not configured for.
THEOREM PathsAlwaysAgree ==
  ASSUME \A t \in Capabilities : SharesFields(t)
  PROVE  Spec => []PathsAgree
<1> DEFINE Met == MetIsApplicable /\ (at \in Paths => left <= Budget(at))
<1>1. Init => Met
  <2> SUFFICES ASSUME Init PROVE Met
    OBVIOUS
  <2>1. Typed
    BY Invariance, InitInv DEF Inv
  <2>2. Budget("shell") \in Nat
    BY <2>1, BudgetIsNumber DEF Paths
  <2> QED
    BY <2>2 DEF Init, MetIsApplicable
<1>2. Inv /\ Met /\ [Next]_vars => Met'
  BY MetIsApplicableStep
<1>3. Inv /\ Met => PathsAgree
  <2> SUFFICES ASSUME Inv, Met, NEW q \in Paths, met # {},
                      NEW c \in test[q].needs \cap ContextFields
               PROVE  c \in configured
    BY DEF PathsAgree
  <2>1. PICK p \in Paths : Applicable(p) /\ Budget(p) # 0
    BY DEF MetIsApplicable
  <2>2. IsUsed(test, p)
    BY <2>1 DEF IsUsed, Applicable, Applies, Budget, Inv, Typed, TypeOK, Systems
  <2>3. c \in test[p].needs
    BY <2>2 DEF SharesFields, Inv, Typed
  <2>4. c \notin Systems
    BY DEF ContextFields, Systems
  <2> QED
    BY <2>1, <2>3, <2>4 DEF Applicable, Applies
<1> QED
  BY <1>1, <1>2, <1>3, Invariance, PTL DEF Spec
=============================================================================
