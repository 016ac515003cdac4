------------------------- MODULE TesterRunTheorems -------------------------
(***************************************************************************)
(* Theorems about TesterRun, for any number of groups, tests, outcomes and *)
(* runs.  The invariant of the proofs, IInv, says what the loops have done *)
(* when the process stands at each stage (LoopOK) and what the files hold  *)
(* (FilesOK); ReportIsComplete, DoneFollowsReport and ExitMeansPublished   *)
(* are not inductive without it.                                           *)
(***************************************************************************)
EXTENDS TesterRun, SequenceTheorems, TLAPS

\* The groups before the current one are finished, with all their tests.
FinishedBefore(g0) ==
  /\ DOMAIN groupResults = {g \in EnabledGroups : g < g0}
  /\ \A g \in DOMAIN groupResults :
       /\ groupResults[g] \in Seq(Capabilities)
       /\ Len(groupResults[g]) = TestCount[g]

\* The current test is a test of an enabled group, and those before it have
\* their results.
InTest ==
  /\ group \in EnabledGroups
  /\ test \in 1..TestCount[group]
  /\ Len(results) = test - 1

LoopOK ==
  /\ stage = "build" => FinishedBefore(group)
  /\ stage = "report" =>
       /\ group \in Groups
       /\ FinishedBefore(group)
       /\ event.kind = "group_skipped" => group \notin EnabledGroups
       /\ event.kind = "group_started" => group \in EnabledGroups
       /\ event.kind \in {"capability_started", "shell_completed",
                          "tool_completed", "alternates_completed"} => InTest
       /\ event.kind = "shell_completed" => capability["shell"] \in Outcomes
       /\ event.kind = "tool_completed" =>
            /\ capability["shell"] \in Outcomes
            /\ capability["tool"] \in Outcomes
       /\ event.kind = "alternates_completed" => capability \in Capabilities
  /\ stage = "probe" =>
       /\ FinishedBefore(group)
       /\ InTest
       /\ part = "tool" => capability["shell"] \in Outcomes
       /\ part = "alternates" => /\ capability["shell"] \in Outcomes
                                 /\ capability["tool"] \in Outcomes
  /\ stage = "writeReport" => IsCompleteResult(groupResults)

\* A whole report of a run up to this one; a whole marker of such a run.
ReportOK(f) == /\ f = Report(f.run, f.results)
               /\ f.run \in 1..run
               /\ IsCompleteResult(f.results)
DoneOK(f) == /\ f = Done(f.run)
             /\ f.run \in 1..run

FilesOK ==
  /\ report = Missing \/ ReportOK(report)
  /\ done = Missing \/ (DoneOK(done) /\ ReportOK(report)
                                     /\ done.run <= report.run)
  /\ stage # "idle" => run \in 1..MaxRuns
  /\ stage \in {"build", "report", "probe", "writeReport", "replaceReport"} =>
       report = Missing \/ report.run < run
  /\ stage \in {"build", "report", "probe", "writeReport", "replaceReport",
                "writeDone", "replaceDone"} =>
       done = Missing \/ done.run < run
  /\ stage = "replaceReport" => ReportOK(reportTmp) /\ reportTmp.run = run
  /\ stage \in {"writeDone", "replaceDone", "announce", "exited"} =>
       ReportOK(report) /\ report.run = run
  /\ stage = "replaceDone" => doneTmp = Done(run)
  /\ stage \in {"announce", "exited"} => done = Done(run)

IInv == TypeOK /\ LoopOK /\ FilesOK
----------------------------------------------------------------------------
\* Lemmas on the operators.

\* Reporting an event, or being cut off while doing so, leaves a sequence of
\* lines.
LEMMA LinesKept ==
  ASSUME NEW l \in Seq(Lines)
  PROVE  /\ \A e \in Events : AppendLine(l, e) \in Seq(Lines)
         /\ AppendCut(l) \in Seq(Lines)
<1>1. MergedLine \in Lines /\ CutLine \in Lines /\ Events \subseteq Lines
  BY DEF Lines
<1>2. l # <<>> => [l EXCEPT ![Len(l)] = MergedLine] \in Seq(Lines)
  BY <1>1, EmptySeq, ExceptSeq
<1>3. QED
  BY <1>1, <1>2 DEF AppendLine, AppendCut, EndsCut

\* An event built from the code's arguments is an event.
LEMMA EventType ==
  ASSUME NEW k \in EventKinds, NEW g \in Nat, NEW t \in Nat,
         NEW o \in Outcomes \cup {"none"}
  PROVE  Event(k, g, t, o) \in Events /\ Event(k, g, t, o).kind = k
  BY DEF Event, Events

LEMMA TestCountType == \A g \in Groups : TestCount[g] \in Nat
  BY TestCountAssumption DEF Groups

LEMMA EnabledAreGroups == EnabledGroups \subseteq Groups
  BY EnabledGroupsAssumption DEF Groups

\* Finishing a group extends the finished groups by it.
LEMMA FinishGroup ==
  ASSUME group \in EnabledGroups, FinishedBefore(group),
         NEW res \in Seq(Capabilities), Len(res) = TestCount[group],
         NEW f, f = [g \in DOMAIN groupResults \cup {group} |->
                      IF g = group THEN res ELSE groupResults[g]]
  PROVE  /\ DOMAIN f = {g \in EnabledGroups : g < group + 1}
         /\ \A g \in DOMAIN f : f[g] \in Seq(Capabilities)
                                /\ Len(f[g]) = TestCount[g]
<1>1. group \in Int /\ \A g \in EnabledGroups : g \in Int
  BY EnabledGroupsAssumption, GroupCountAssumption
<1>2. DOMAIN f = {g \in EnabledGroups : g < group} \cup {group}
  BY DEF FinishedBefore
<1>3. \A g \in EnabledGroups : g < group + 1 <=> g < group \/ g = group
  BY <1>1
<1>4. \A g \in DOMAIN f : f[g] = IF g = group THEN res ELSE groupResults[g]
  BY <1>2 DEF FinishedBefore
<1>5. QED
  BY <1>2, <1>3, <1>4 DEF FinishedBefore

----------------------------------------------------------------------------
\* The invariant holds at first and is kept by every step.

LEMMA InitInv == Init => IInv
<1> SUFFICES ASSUME Init PROVE IInv
  OBVIOUS
<1>1. TypeOK
  <2>1. /\ group \in 1..GroupCount + 1
        /\ test \in Nat
        /\ run \in 0..MaxRuns
    BY GroupCountAssumption, MaxRunsAssumption DEF Init
  <2>2. event \in Events
    BY DEF Init, NoEvent, Event, Events, EventKinds
  <2>3. capability \in [Parts -> Outcomes \cup {"none"}]
    BY DEF Init, NoCapability
  <2>4. log \in Seq(Lines) /\ results \in Seq(Capabilities)
    BY DEF Init
  <2>5. DOMAIN groupResults = {}
    BY DEF Init
  <2>6. QED
    BY <2>1, <2>2, <2>3, <2>4, <2>5 DEF Init, TypeOK, Stages, Parts, Missing
<1>2. LoopOK
  BY DEF Init, LoopOK
<1>3. FilesOK
  BY DEF Init, FilesOK, Missing
<1>4. QED
  BY <1>1, <1>2, <1>3 DEF IInv

LEMMA StartRunInv == IInv /\ StartRun => IInv'
<1> SUFFICES ASSUME IInv, StartRun PROVE IInv'
  OBVIOUS
<1> USE DEF IInv, StartRun, files
<1>1. run' \in 1..MaxRuns /\ run \in 0..MaxRuns /\ run' = run + 1
  BY MaxRunsAssumption DEF TypeOK
<1>2. DOMAIN groupResults' = {}
  OBVIOUS
<1>3. TypeOK'
  <2>1. group' \in 1..GroupCount + 1 /\ test' \in Nat
    BY GroupCountAssumption
  <2>2. event' \in Events
    BY DEF NoEvent, Event, Events, EventKinds
  <2>3. capability' \in [Parts -> Outcomes \cup {"none"}]
    BY DEF NoCapability
  <2>4. results' \in Seq(Capabilities)
    OBVIOUS
  <2>5. QED
    BY <1>1, <1>2, <2>1, <2>2, <2>3, <2>4, MaxRunsAssumption
    DEF TypeOK, Stages, Parts
<1>4. LoopOK'
  <2>1. FinishedBefore(group)'
    <3>1. \A g \in EnabledGroups : ~(g < 1)
      BY EnabledGroupsAssumption, GroupCountAssumption
    <3>2. QED
      BY <1>2, <3>1 DEF FinishedBefore
  <2>2. QED
    BY <2>1 DEF LoopOK
<1>5. FilesOK'
  <2>1. \A f : ReportOK(f) => ReportOK(f)'
    BY <1>1 DEF ReportOK
  <2>2. \A f : DoneOK(f) => DoneOK(f)'
    BY <1>1 DEF DoneOK
  <2>3. /\ report' = Missing \/ ReportOK(report)'
        /\ done' = Missing \/ (DoneOK(done)' /\ ReportOK(report)'
                                            /\ done'.run <= report'.run)
    BY <2>1, <2>2 DEF FilesOK
  <2>4. /\ report' = Missing \/ report'.run < run'
        /\ done' = Missing \/ done'.run < run'
    BY <1>1 DEF FilesOK, ReportOK, DoneOK
  <2>5. QED
    BY <1>1, <2>3, <2>4 DEF FilesOK
<1>6. QED
  BY <1>3, <1>4, <1>5
LEMMA BuildGroupInv == IInv /\ BuildGroup => IInv'
<1> SUFFICES ASSUME IInv, BuildGroup PROVE IInv'
  OBVIOUS
<1> USE DEF IInv, BuildGroup, files
<1>1. group \in Groups
  BY GroupCountAssumption DEF TypeOK, Groups
<1>2. /\ event' \in Events
      /\ event'.kind = IF group \in EnabledGroups THEN "group_started"
                                                  ELSE "group_skipped"
  <2>1. group \in Nat /\ 0 \in Nat
    BY <1>1, GroupCountAssumption DEF Groups
  <2>2. CASE group \in EnabledGroups
    BY <2>1, <2>2, EventType DEF EventKinds
  <2>3. CASE group \notin EnabledGroups
    BY <2>1, <2>3, EventType DEF EventKinds
  <2>4. QED
    BY <2>2, <2>3
<1>3. TypeOK'
  BY <1>2 DEF TypeOK, Stages
<1>4. LoopOK'
  BY <1>1, <1>2 DEF LoopOK, FinishedBefore
<1>5. FilesOK'
  BY DEF FilesOK, ReportOK, DoneOK
<1>6. QED
  BY <1>3, <1>4, <1>5

LEMMA FinishGroupsInv == IInv /\ FinishGroups => IInv'
<1> SUFFICES ASSUME IInv, FinishGroups PROVE IInv'
  OBVIOUS
<1> USE DEF IInv, FinishGroups, files, loop
<1>1. TypeOK'
  BY DEF TypeOK, Stages
<1>2. LoopOK'
  <2>1. \A g \in EnabledGroups : g < group
    BY EnabledGroupsAssumption, GroupCountAssumption DEF TypeOK
  <2>2. DOMAIN groupResults = EnabledGroups
    BY <2>1 DEF LoopOK, FinishedBefore
  <2>3. IsCompleteResult(groupResults)
    BY <2>2 DEF LoopOK, FinishedBefore, IsCompleteResult
  <2>4. QED
    BY <2>3 DEF LoopOK
<1>3. FilesOK'
  BY DEF FilesOK, ReportOK, DoneOK
<1>4. QED
  BY <1>1, <1>2, <1>3

\* ToTest keeps the loop variables right, when `res` holds the results of the
\* tests before t.
LEMMA ToTestInv ==
  ASSUME TypeOK, FinishedBefore(group), group \in EnabledGroups,
         NEW t \in 1..TestCount[group] + 1,
         NEW res \in Seq(Capabilities), Len(res) = t - 1,
         ToTest(t, res), part' = part
  PROVE  /\ stage' \in Stages
         /\ group' \in 1..GroupCount + 1
         /\ test' \in Nat
         /\ event' \in Events
         /\ capability' \in [Parts -> Outcomes \cup {"none"}]
         /\ results' \in Seq(Capabilities)
         /\ DOMAIN groupResults' \subseteq Groups
         /\ \A g \in DOMAIN groupResults' : groupResults'[g] \in Seq(Capabilities)
         /\ stage' \in {"report", "build"}
         /\ LoopOK'
<1>1. /\ TestCount[group] \in Nat
      /\ group \in 1..GroupCount
      /\ group \in Nat
  BY TestCountType, EnabledAreGroups, GroupCountAssumption DEF Groups
<1>2. capability' \in [Parts -> Outcomes \cup {"none"}]
  BY DEF ToTest, NoCapability
<1>3. CASE t <= TestCount[group]
  <2>1. /\ test' = t /\ results' = res /\ stage' = "report"
        /\ event' = Event("capability_started", group, t, "none")
        /\ group' = group /\ groupResults' = groupResults
    BY <1>3 DEF ToTest
  <2>2. event' \in Events /\ event'.kind = "capability_started"
    BY <1>1, <2>1, EventType DEF EventKinds
  <2>3. FinishedBefore(group)'
    BY <2>1 DEF FinishedBefore
  <2>4. InTest'
    BY <1>1, <1>3, <2>1 DEF InTest
  <2>5. LoopOK'
    BY <1>1, <2>1, <2>2, <2>3, <2>4 DEF LoopOK, Groups
  <2>6. QED
    BY <1>1, <1>2, <2>1, <2>2, <2>5 DEF TypeOK, Stages
<1>4. CASE ~(t <= TestCount[group])
  <2>1. /\ groupResults' = [g \in DOMAIN groupResults \cup {group} |->
                              IF g = group THEN res ELSE groupResults[g]]
        /\ group' = group + 1
        /\ test' = 1 /\ results' = <<>> /\ stage' = "build"
        /\ event' = NoEvent
    BY <1>4 DEF ToTest
  <2>2. Len(res) = TestCount[group]
    BY <1>1, <1>4
  <2>3. /\ DOMAIN groupResults' = {g \in EnabledGroups : g < group'}
        /\ \A g \in DOMAIN groupResults' :
             groupResults'[g] \in Seq(Capabilities)
             /\ Len(groupResults'[g]) = TestCount[g]
    BY <2>1, <2>2, FinishGroup
  <2>4. LoopOK'
    BY <2>1, <2>3 DEF LoopOK, FinishedBefore
  <2>5. event' \in Events
    BY <2>1 DEF NoEvent, Event, Events, EventKinds
  <2>6. DOMAIN groupResults' \subseteq Groups
    BY <2>3, EnabledAreGroups
  <2>7. group' \in 1..GroupCount + 1 /\ test' \in Nat
    BY <1>1, <2>1, GroupCountAssumption
  <2>8. results' \in Seq(Capabilities) /\ stage' \in Stages
    BY <2>1 DEF Stages
  <2>9. QED
    BY <1>2, <2>1, <2>3, <2>4, <2>5, <2>6, <2>7, <2>8
<1>5. QED
  BY <1>3, <1>4
LEMMA ReportEventInv == IInv /\ ReportEvent => IInv'
<1> SUFFICES ASSUME IInv, ReportEvent PROVE IInv'
  OBVIOUS
<1> USE DEF IInv, files
<1>1. log' \in Seq(Lines)
  BY LinesKept DEF ReportEvent, TypeOK
<1>2. FilesOK'
  <2>1. /\ stage = "report" /\ stage' \in {"report", "build", "probe"}
        /\ UNCHANGED <<run, files>>
    BY DEF ReportEvent, ToTest, ToProbe
  <2>2. QED
    BY <2>1 DEF FilesOK, ReportOK, DoneOK
<1>3. group \in Groups /\ FinishedBefore(group) /\ stage = "report"
  BY DEF LoopOK, ReportEvent
<1>4. CASE event.kind = "group_skipped"
  <2>1. /\ group' = group + 1 /\ event' = NoEvent /\ stage' = "build"
        /\ UNCHANGED <<run, files, test, part, capability, results, groupResults>>
    BY <1>4 DEF ReportEvent
  <2>2. group' \in 1..GroupCount + 1
    BY <1>3, <2>1, GroupCountAssumption DEF Groups
  <2>3. event' \in Events
    BY <2>1 DEF NoEvent, Event, Events, EventKinds
  <2>4. TypeOK'
    BY <1>1, <2>1, <2>2, <2>3 DEF TypeOK, Stages
  <2>5. group \notin EnabledGroups
    BY <1>3, <1>4 DEF LoopOK
  <2>6. \A g \in EnabledGroups : g < group + 1 <=> g < group
    BY <1>3, <2>5, EnabledAreGroups DEF Groups
  <2>7. LoopOK'
    BY <2>1, <2>6, <1>3 DEF LoopOK, FinishedBefore
  <2>8. QED
    BY <1>2, <2>4, <2>7
<1>5. CASE event.kind = "group_started"
  <2>1. ToTest(1, <<>>) /\ UNCHANGED <<part, run, files>>
    BY <1>5 DEF ReportEvent
  <2>2. group \in EnabledGroups /\ 1 \in 1..TestCount[group] + 1
    BY <1>3, <1>5, TestCountType DEF LoopOK
  <2>3. <<>> \in Seq(Capabilities) /\ Len(<<>>) = 1 - 1
    OBVIOUS
  <2>4. LoopOK' /\ TypeOK'
    BY <1>1, <1>3, <2>1, <2>2, <2>3, ToTestInv DEF TypeOK
  <2>5. QED
    BY <1>2, <2>4
<1>6. CASE event.kind = "alternates_completed"
  <2>1. /\ ToTest(test + 1, Append(results, capability))
        /\ UNCHANGED <<part, run, files>>
    BY <1>6 DEF ReportEvent
  <2>2. InTest /\ capability \in Capabilities
    BY <1>3, <1>6 DEF LoopOK
  <2>3. group \in EnabledGroups /\ test + 1 \in 1..TestCount[group] + 1
    BY <1>3, <2>2, TestCountType DEF InTest
  <2>4. /\ Append(results, capability) \in Seq(Capabilities)
        /\ Len(Append(results, capability)) = (test + 1) - 1
    BY <2>2 DEF TypeOK, InTest
  <2>5. LoopOK' /\ TypeOK'
    BY <1>1, <1>3, <2>1, <2>3, <2>4, ToTestInv DEF TypeOK
  <2>6. QED
    BY <1>2, <2>5
<1>7. CASE event.kind \in {"capability_started", "shell_completed",
                           "tool_completed"}
  <2>1. /\ stage' = "probe"
        /\ UNCHANGED <<run, files, group, test, event, capability, results,
                       groupResults>>
        /\ \/ event.kind = "capability_started" /\ part' = "shell"
           \/ event.kind = "shell_completed" /\ part' = "tool"
           \/ event.kind = "tool_completed" /\ part' = "alternates"
    BY <1>7 DEF ReportEvent, ToProbe
  <2>2. TypeOK'
    BY <1>1, <2>1 DEF TypeOK, Stages, Parts
  <2>3. InTest' /\ FinishedBefore(group)'
    BY <1>3, <1>7, <2>1 DEF LoopOK, InTest, FinishedBefore
  <2>4. LoopOK'
    BY <1>3, <2>1, <2>3 DEF LoopOK
  <2>5. QED
    BY <1>2, <2>2, <2>4
<1>8. QED
  BY <1>4, <1>5, <1>6, <1>7 DEF ReportEvent

LEMMA ProbeInv == IInv /\ Probe => IInv'
<1> SUFFICES ASSUME IInv, Probe PROVE IInv'
  OBVIOUS
<1> USE DEF IInv, files
<1>1. PICK o \in Outcomes :
        /\ capability' = [capability EXCEPT ![part] = o]
        /\ event' = Event(CompletedEvent(part), 0, 0, o)
  BY DEF Probe
<1>2. /\ stage = "probe" /\ stage' = "report"
      /\ UNCHANGED <<run, group, test, part, results, groupResults, log, files>>
  BY DEF Probe
<1>3. part \in Parts /\ capability \in [Parts -> Outcomes \cup {"none"}]
  BY DEF TypeOK
<1>4. /\ event' \in Events
      /\ event'.kind = CompletedEvent(part)
      /\ CompletedEvent(part) \in {"shell_completed", "tool_completed",
                                   "alternates_completed"}
  <2>1. CompletedEvent(part) \in EventKinds
    BY <1>3 DEF CompletedEvent, EventKinds, Parts
  <2>2. CompletedEvent(part) \in {"shell_completed", "tool_completed",
                                  "alternates_completed"}
    BY <1>3 DEF CompletedEvent, Parts
  <2>3. QED
    BY <1>1, <2>1, <2>2, EventType
<1>5. /\ capability' \in [Parts -> Outcomes \cup {"none"}]
      /\ capability'[part] \in Outcomes
      /\ \A p \in Parts : p # part => capability'[p] = capability[p]
  BY <1>1, <1>3
<1>6. TypeOK'
  BY <1>2, <1>4, <1>5 DEF TypeOK, Stages
<1>7. LoopOK'
  <2>1. group \in Groups /\ FinishedBefore(group)' /\ InTest'
    BY <1>2, EnabledAreGroups DEF LoopOK, InTest, FinishedBefore
  <2>2. CASE part = "shell"
    BY <1>2, <1>4, <1>5, <2>1, <2>2 DEF LoopOK, CompletedEvent
  <2>3. CASE part = "tool"
    BY <1>2, <1>4, <1>5, <2>1, <2>3 DEF LoopOK, CompletedEvent, Parts
  <2>4. CASE part = "alternates"
    <3>1. \A p \in Parts : capability'[p] \in Outcomes
      BY <1>2, <1>5, <2>4 DEF LoopOK, Parts
    <3>2. capability' \in Capabilities
      BY <1>5, <3>1 DEF Capabilities
    <3>3. QED
      BY <1>2, <1>4, <2>1, <2>4, <3>2 DEF LoopOK, CompletedEvent
  <2>5. QED
    BY <1>3, <2>2, <2>3, <2>4 DEF Parts
<1>8. FilesOK'
  BY <1>2 DEF FilesOK, ReportOK, DoneOK
<1>9. QED
  BY <1>6, <1>7, <1>8
LEMMA WriteReportInv == IInv /\ WriteReport => IInv'
<1> SUFFICES ASSUME IInv, WriteReport PROVE IInv'
  OBVIOUS
<1> USE DEF IInv, WriteReport, files, loop
<1>1. ReportOK(reportTmp)' /\ reportTmp'.run = run'
  BY DEF FilesOK, LoopOK, ReportOK, Report
<1>2. TypeOK'
  BY DEF TypeOK, Stages, Report
<1>3. LoopOK'
  BY DEF LoopOK
<1>4. FilesOK'
  BY <1>1 DEF FilesOK, ReportOK, DoneOK
<1>5. QED
  BY <1>2, <1>3, <1>4

LEMMA ReplaceReportInv == IInv /\ ReplaceReport => IInv'
<1> SUFFICES ASSUME IInv, ReplaceReport PROVE IInv'
  OBVIOUS
<1> USE DEF IInv, ReplaceReport, files, loop
<1>1. ReportOK(report)' /\ report'.run = run'
  BY DEF FilesOK, ReportOK
<1>2. report'.kind = "whole" /\ reportTmp'.kind = "missing"
  <2>1. report' = Report(report'.run, report'.results)
    BY <1>1 DEF ReportOK
  <2>2. QED
    BY <2>1 DEF Report, Missing
<1>3. TypeOK'
  BY <1>2 DEF TypeOK, Stages
<1>4. LoopOK'
  BY DEF LoopOK
<1>5. FilesOK'
  <2>1. done' = Missing \/ (DoneOK(done)' /\ ReportOK(report)'
                                          /\ done'.run <= report'.run)
    BY <1>1 DEF FilesOK, DoneOK, TypeOK
  <2>2. QED
    BY <1>1, <2>1 DEF FilesOK
<1>6. QED
  BY <1>3, <1>4, <1>5

LEMMA WriteDoneInv == IInv /\ WriteDone => IInv'
<1> SUFFICES ASSUME IInv, WriteDone PROVE IInv'
  OBVIOUS
<1> USE DEF IInv, WriteDone, files, loop
<1>1. TypeOK'
  BY DEF TypeOK, Stages, Done
<1>2. LoopOK'
  BY DEF LoopOK
<1>3. FilesOK'
  BY DEF FilesOK, ReportOK, DoneOK, Done
<1>4. QED
  BY <1>1, <1>2, <1>3

LEMMA ReplaceDoneInv == IInv /\ ReplaceDone => IInv'
<1> SUFFICES ASSUME IInv, ReplaceDone PROVE IInv'
  OBVIOUS
<1> USE DEF IInv, ReplaceDone, files, loop
<1>1. done' = Done(run) /\ run \in 1..MaxRuns
  BY DEF FilesOK
<1>2. done'.kind = "whole" /\ done'.run = run /\ doneTmp'.kind = "missing"
  BY <1>1 DEF Done, Missing
<1>3. TypeOK'
  BY <1>2 DEF TypeOK, Stages
<1>4. LoopOK'
  BY DEF LoopOK
<1>5. FilesOK'
  <2>1. ReportOK(report)' /\ report'.run = run'
    BY DEF FilesOK, ReportOK
  <2>2. DoneOK(done)' /\ done'.run <= report'.run
    BY <1>1, <1>2, <2>1, MaxRunsAssumption DEF DoneOK
  <2>3. QED
    BY <1>1, <2>1, <2>2 DEF FilesOK
<1>6. QED
  BY <1>3, <1>4, <1>5

LEMMA ExitInv == IInv /\ Exit => IInv'
<1> SUFFICES ASSUME IInv, Exit PROVE IInv'
  OBVIOUS
<1> USE DEF IInv, Exit, files, loop
<1>1. TypeOK'
  BY DEF TypeOK, Stages
<1>2. LoopOK'
  BY DEF LoopOK
<1>3. FilesOK'
  BY DEF FilesOK, ReportOK, DoneOK
<1>4. QED
  BY <1>1, <1>2, <1>3

LEMMA FailInv == IInv /\ Fail => IInv'
<1> SUFFICES ASSUME IInv, Fail PROVE IInv'
  OBVIOUS
<1> USE DEF IInv, Fail, loop
<1>1. log' \in Seq(Lines)
  BY LinesKept DEF TypeOK
<1>2. /\ reportTmp'.kind \in {"missing", "partial", "whole"}
      /\ doneTmp'.kind \in {"missing", "partial", "whole"}
  BY DEF TypeOK, Partial
<1>3. TypeOK'
  BY <1>1, <1>2 DEF TypeOK, Stages
<1>4. LoopOK'
  BY DEF LoopOK
<1>5. FilesOK'
  <2>1. stage # "idle" /\ stage' = "failed"
    BY DEF Stopped
  <2>2. QED
    BY <2>1 DEF FilesOK, ReportOK, DoneOK
<1>6. QED
  BY <1>3, <1>4, <1>5

LEMMA NextInv == IInv /\ [Next]_vars => IInv'
<1> SUFFICES ASSUME IInv, [Next]_vars PROVE IInv'
  OBVIOUS
<1>1. CASE Next
  BY <1>1, StartRunInv, BuildGroupInv, FinishGroupsInv, ReportEventInv,
     ProbeInv, WriteReportInv, ReplaceReportInv, WriteDoneInv, ReplaceDoneInv,
     ExitInv, FailInv DEF Next, Step
<1>2. CASE UNCHANGED vars
  <2>1. TypeOK'
    BY <1>2 DEF IInv, TypeOK, vars, loop, files
  <2>2. LoopOK'
    BY <1>2 DEF IInv, LoopOK, FinishedBefore, InTest, vars, loop, files
  <2>3. FilesOK'
    BY <1>2 DEF IInv, FilesOK, ReportOK, DoneOK, vars, loop, files
  <2>4. QED
    BY <2>1, <2>2, <2>3 DEF IInv
<1>3. QED
  BY <1>1, <1>2

----------------------------------------------------------------------------
\* The theorems.

\* The loops and the files of every run are as IInv says, however many groups,
\* tests, outcomes and runs there are.
THEOREM Invariance == Spec => []IInv
<1>1. Init => IInv
  BY InitInv
<1>2. IInv /\ [Next]_vars => IInv'
  BY NextInv
<1>3. QED
  BY <1>1, <1>2, PTL DEF Spec

\* The variables keep their types: report.json and done.json are never partial.
THEOREM TypeCorrect == Spec => []TypeOK
<1>1. IInv => TypeOK
  BY DEF IInv
<1>2. QED
  BY <1>1, Invariance, PTL

\* A report.json that can be found covers every test of every enabled group.
THEOREM ReportsAreComplete == Spec => []ReportIsComplete
<1>1. IInv => ReportIsComplete
  BY DEF IInv, FilesOK, ReportOK, ReportIsComplete, Missing
<1>2. QED
  BY <1>1, Invariance, PTL

\* done.json is never ahead of report.json.
THEOREM DoneComesAfterReport == Spec => []DoneFollowsReport
<1>1. IInv => DoneFollowsReport
  <2>1. ASSUME IInv, done.kind = "whole"
        PROVE  report.kind = "whole" /\ report.run >= done.run
    <3>1. DoneOK(done) /\ ReportOK(report) /\ done.run <= report.run
      BY <2>1 DEF IInv, FilesOK, Missing
    <3>2. report.kind = "whole"
      <4>1. report = Report(report.run, report.results)
        BY <3>1 DEF ReportOK
      <4>2. QED
        BY <4>1 DEF Report
    <3>3. report.run \in Int /\ done.run \in Int
      BY <2>1, <3>1 DEF ReportOK, DoneOK, IInv, TypeOK
    <3>4. QED
      BY <3>1, <3>2, <3>3
  <2>2. QED
    BY <2>1 DEF DoneFollowsReport
<1>2. QED
  BY <1>1, Invariance, PTL

\* A run that returned 0 left its own report and its own marker.
THEOREM ExitsArePublished == Spec => []ExitMeansPublished
<1>1. IInv => ExitMeansPublished
  BY DEF IInv, FilesOK, ReportOK, Report, Done, ExitMeansPublished
<1>2. QED
  BY <1>1, Invariance, PTL
\* The directory implements what ReportPublication promises: every step of the
\* code is a start, a publication or an announcement there, or is not seen.
THEOREM ImplementsPublication == Spec => PublicationSpec
<1> DEFINE published == IF report.kind = "whole"
                          THEN [run |-> report.run, results |-> report.results]
                          ELSE [run |-> 0, results |-> <<>>]
           announced == IF done.kind = "whole" THEN done.run ELSE 0
<1>1. Init => Publication!Init
  BY DEF Init, Publication!Init, Missing
<1>2. IInv /\ [Next]_vars => [Publication!Next]_<<run, published, announced>>
  <2> SUFFICES ASSUME IInv, [Next]_vars
               PROVE  [Publication!Next]_<<run, published, announced>>
    OBVIOUS
  <2>1. CASE StartRun
    <3>1. Publication!Start
      BY <2>1 DEF StartRun, files, Publication!Start
    <3>2. QED
      BY <3>1 DEF Publication!Next
  <2>2. CASE ReplaceReport
    <3>1. /\ ReportOK(reportTmp) /\ reportTmp.run = run
          /\ report = Missing \/ report.run < run
          /\ run \in 1..MaxRuns
          /\ stage = "replaceReport"
      BY <2>2 DEF IInv, FilesOK, ReplaceReport
    <3>2. report' = Report(run, reportTmp.results)
      BY <2>2, <3>1 DEF ReplaceReport, ReportOK
    <3>3. published' = [run |-> run, results |-> reportTmp.results]
      BY <3>2 DEF Report
    <3>4. published.run < run
      BY <3>1 DEF Missing
    <3>5. Publication!IsWhole(reportTmp.results)
      BY <3>1 DEF ReportOK, IsCompleteResult, Capabilities, Parts,
                  Publication!IsWhole, Publication!Capabilities
    <3>6. announced' = announced /\ run' = run
      BY <2>2 DEF ReplaceReport
    <3>7. Publication!Publish
      BY <3>3, <3>4, <3>5, <3>6 DEF Publication!Publish
    <3>8. QED
      BY <3>7 DEF Publication!Next
  <2>3. CASE ReplaceDone
    <3>1. /\ ReportOK(report) /\ report.run = run
          /\ doneTmp = Done(run)
          /\ done = Missing \/ done.run < run
          /\ run \in 1..MaxRuns
      BY <2>3 DEF IInv, FilesOK, ReplaceDone
    <3>2. published.run = run
      BY <3>1 DEF ReportOK, Report
    <3>3. announced < run
      BY <3>1 DEF Missing
    <3>4. announced' = run
      BY <2>3, <3>1 DEF ReplaceDone, Done
    <3>5. published' = published /\ run' = run
      BY <2>3 DEF ReplaceDone
    <3>6. Publication!Announce
      BY <3>2, <3>3, <3>4, <3>5 DEF Publication!Announce
    <3>7. QED
      BY <3>6 DEF Publication!Next
  <2>4. CASE UNCHANGED <<run, report, done>>
    BY <2>4
  <2>5. QED
    BY <2>1, <2>2, <2>3, <2>4
    DEF Next, Step, BuildGroup, FinishGroups, ReportEvent, Probe, WriteReport,
        WriteDone, Exit, Fail, files, vars
<1>3. QED
  BY <1>1, <1>2, Invariance, PTL
  DEF Spec, PublicationSpec, Publication!Spec, Publication!vars

-----------------------------------------------------------------------------
(***************************************************************************)
(* What a reader of status.ndjson learns is what the run found out, for    *)
(* any number of groups, tests, outcomes and runs, and whatever the runs   *)
(* that stopped left in the file (TesterRun!LogReplaysReport).             *)
(*                                                                         *)
(* Reads(l, s) says that s is what a reader has after the lines l.  The    *)
(* invariant relates every such s for the current log to the loop          *)
(* variables, so a step only needs to know how the line it appends changes *)
(* s: nothing is proved by induction on the log.                           *)
(***************************************************************************)

\* f gives what the reader has after each line of l.
IsReplay(f, l) ==
  f = [n \in 0..Len(l) |->
        IF n = 0 THEN Unread ELSE ReplayLine(f[n - 1], l[n])]

Reads(l, s) == \E f : IsReplay(f, l) /\ s = f[Len(l)]

AllTests == UNION {{g} \X (1..TestCount[g]) : g \in EnabledGroups}
Heard == [Parts -> Outcomes \cup {"none"}]

CapabilityEvents == {"capability_started", "shell_completed",
                     "tool_completed", "alternates_completed"}

\* Published results are the ones the loops collected.
Publishing == {"replaceReport", "writeDone", "replaceDone", "announce",
               "exited"}

\* What is read is about tests of enabled groups, also of earlier runs.
IsState(s) ==
  /\ s = [at |-> s.at, known |-> s.known]
  /\ s.at = <<>> \/ s.at \in AllTests
  /\ DOMAIN s.known \subseteq AllTests
  /\ s.known \in [DOMAIN s.known -> Heard]

\* It agrees with what this run has collected.
AgreesGroups(s) ==
  \A g \in DOMAIN groupResults : \A t \in 1..TestCount[g] :
    /\ <<g, t>> \in DOMAIN s.known
    /\ s.known[<<g, t>>] = groupResults[g][t]

AgreesTests(s) ==
  \A t \in 1..Len(results) :
    /\ <<group, t>> \in DOMAIN s.known
    /\ s.known[<<group, t>>] = results[t]

\* A completion that comes next is attributed to the current test, about
\* which everything else is known.
AtTest(s) ==
  /\ s.at = <<group, test>>
  /\ s.at \in DOMAIN s.known

Current(s) ==
  /\ stage = "probe" => AtTest(s) /\ s.known[s.at] = capability
  /\ stage = "report" =>
       \A p \in Parts : event.kind = CompletedEvent(p) =>
         /\ AtTest(s)
         /\ capability = [s.known[s.at] EXCEPT ![p] = event.outcome]

\* The event that opens a test names it, a group's event comes before its
\* tests, and no line of a test continues a line that was cut off: the first
\* line of a run is a group's.
Pending ==
  /\ stage = "report" /\ event.kind = "capability_started" =>
       /\ event = Event("capability_started", group, test, "none")
       /\ capability = NoCapability
  /\ stage = "report" /\ event.kind \notin CapabilityEvents => results = <<>>
  /\ stage = "probe" => ~EndsCut(log)
  /\ stage = "report" /\ event.kind \in CapabilityEvents => ~EndsCut(log)

Collected ==
  /\ stage \in Publishing => IsCompleteResult(groupResults)
  /\ stage = "replaceReport" => reportTmp.results = groupResults
  /\ stage \in Publishing \ {"replaceReport"} => report.results = groupResults

ReadOK(s) == IsState(s) /\ AgreesGroups(s) /\ AgreesTests(s) /\ Current(s)

LogInv == /\ \E s : Reads(log, s)
          /\ \A s : Reads(log, s) => ReadOK(s)
          /\ Pending
          /\ Collected
----------------------------------------------------------------------------
\* Reading a log.

\* Before the first line nothing is known.
LEMMA ReadsNothing ==
  /\ Reads(<<>>, Unread)
  /\ \A s : Reads(<<>>, s) => s = Unread
<1>1. IsReplay([n \in 0..0 |-> Unread], <<>>)
  BY DEF IsReplay
<1>2. \A f : IsReplay(f, <<>>) => f[Len(<<>>)] = Unread
  BY DEF IsReplay
<1>3. QED
  BY <1>1, <1>2 DEF Reads

\* A line more changes what is known as ReplayLine says.
LEMMA ReadsAppend ==
  ASSUME NEW l \in Seq(Lines), NEW e \in Lines
  PROVE  /\ \A s : Reads(l, s) => Reads(Append(l, e), ReplayLine(s, e))
         /\ \A s : Reads(Append(l, e), s) =>
              \E r : Reads(l, r) /\ s = ReplayLine(r, e)
<1> DEFINE k == Append(l, e)
<1>1. /\ Len(l) \in Nat
      /\ Len(k) = Len(l) + 1
      /\ k[Len(l) + 1] = e
      /\ \A n \in 1..Len(l) : k[n] = l[n]
  OBVIOUS
<1>2. ASSUME NEW f, IsReplay(f, l)
      PROVE  Reads(k, ReplayLine(f[Len(l)], e))
  <2> DEFINE h == [n \in 0..Len(l) + 1 |->
                    IF n <= Len(l) THEN f[n] ELSE ReplayLine(f[Len(l)], e)]
  <2>1. \A n \in 0..Len(l) :
          h[n] = IF n = 0 THEN Unread ELSE ReplayLine(f[n - 1], l[n])
    BY <1>1, <1>2 DEF IsReplay
  <2>2. \A n \in 1..Len(l) + 1 : h[n - 1] = f[n - 1]
    BY <1>1
  <2>3. h[Len(l) + 1] = ReplayLine(f[Len(l)], e)
    BY <1>1
  <2> HIDE DEF k
  <2>4. \A n \in 0..Len(l) + 1 :
          h[n] = IF n = 0 THEN Unread ELSE ReplayLine(h[n - 1], k[n])
    <3> SUFFICES ASSUME NEW n \in 0..Len(l) + 1
                 PROVE  h[n] = IF n = 0 THEN Unread
                                        ELSE ReplayLine(h[n - 1], k[n])
      OBVIOUS
    <3>1. CASE n = Len(l) + 1
      <4>1. n # 0 /\ h[n - 1] = f[Len(l)] /\ k[n] = e
        BY <1>1, <2>2, <3>1
      <4> HIDE DEF h
      <4>2. QED
        BY <2>3, <3>1, <4>1
    <3>2. CASE n \in 1..Len(l)
      <4>1. n # 0 /\ h[n - 1] = f[n - 1] /\ k[n] = l[n] /\ n \in 0..Len(l)
        BY <1>1, <2>2, <3>2
      <4> HIDE DEF h
      <4>2. QED
        BY <2>1, <4>1
    <3>3. CASE n = 0
      <4> HIDE DEF h
      <4>1. 0 \in 0..Len(l)
        BY <1>1
      <4>2. QED
        BY <2>1, <3>3, <4>1
    <3>4. QED
      BY <1>1, <3>1, <3>2, <3>3
  <2>5. h = [n \in 0..Len(k) |-> h[n]]
    BY <1>1
  <2> HIDE DEF h
  <2>6. IsReplay(h, k)
    BY <1>1, <2>4, <2>5 DEF IsReplay
  <2>7. QED
    BY <1>1, <2>3, <2>6 DEF Reads
<1>3. ASSUME NEW f, IsReplay(f, k)
      PROVE  \E r : Reads(l, r) /\ f[Len(k)] = ReplayLine(r, e)
  <2> DEFINE h == [n \in 0..Len(l) |-> f[n]]
  <2> HIDE DEF k
  <2>1. \A n \in 0..Len(l) + 1 :
          f[n] = IF n = 0 THEN Unread ELSE ReplayLine(f[n - 1], k[n])
    BY <1>1, <1>3 DEF IsReplay
  <2>2. \A n \in 0..Len(l) :
          h[n] = IF n = 0 THEN Unread ELSE ReplayLine(h[n - 1], l[n])
    <3> SUFFICES ASSUME NEW n \in 0..Len(l)
                 PROVE  h[n] = IF n = 0 THEN Unread
                                        ELSE ReplayLine(h[n - 1], l[n])
      OBVIOUS
    <3>1. CASE n = 0
      BY <1>1, <2>1, <3>1
    <3>2. CASE n # 0
      <4>1. h[n - 1] = f[n - 1] /\ h[n] = f[n] /\ k[n] = l[n]
        BY <1>1, <3>2
      <4> HIDE DEF h
      <4>2. QED
        BY <1>1, <2>1, <3>2, <4>1
    <3>3. QED
      BY <3>1, <3>2
  <2>3. h = [n \in 0..Len(l) |-> h[n]] /\ h[Len(l)] = f[Len(l)]
    BY <1>1
  <2>4. f[Len(k)] = ReplayLine(f[Len(l)], e)
    BY <1>1, <2>1
  <2> HIDE DEF h
  <2>5. IsReplay(h, l)
    BY <2>2, <2>3 DEF IsReplay
  <2>6. QED
    BY <2>3, <2>4, <2>5 DEF Reads
<1>4. QED
  BY <1>2, <1>3 DEF Reads

\* A cut-off line tells nothing, and neither does one that was continued.
LEMMA CutTellsNothing ==
  \A s : ReplayLine(s, CutLine) = s /\ ReplayLine(s, MergedLine) = s
BY DEF ReplayLine, CutLine, MergedLine

\* Continuing a line that was cut off changes nothing that is read.
LEMMA ReadsMerged ==
  ASSUME NEW l \in Seq(Lines), EndsCut(l), NEW s
  PROVE  Reads([l EXCEPT ![Len(l)] = MergedLine], s) <=> Reads(l, s)
<1> DEFINE k == [l EXCEPT ![Len(l)] = MergedLine]
<1>1. /\ Len(l) \in Nat /\ Len(k) = Len(l)
      /\ l[Len(l)] = CutLine /\ k[Len(l)] = MergedLine
      /\ \A n \in 1..Len(l) : n # Len(l) => k[n] = l[n]
  BY DEF EndsCut
<1> HIDE DEF k
<1>2. \A n \in 1..Len(l) : \A r : ReplayLine(r, k[n]) = ReplayLine(r, l[n])
  BY <1>1, CutTellsNothing
<1>3. \A f : IsReplay(f, k) <=> IsReplay(f, l)
  <2> TAKE f
  <2>1. [n \in 0..Len(l) |->
          IF n = 0 THEN Unread ELSE ReplayLine(f[n - 1], l[n])]
        = [n \in 0..Len(k) |->
            IF n = 0 THEN Unread ELSE ReplayLine(f[n - 1], k[n])]
    <3>1. \A n \in 0..Len(l) : n = 0 \/ n \in 1..Len(l)
      BY <1>1
    <3>2. QED
      BY <1>1, <1>2, <3>1
  <2>2. QED
    BY <2>1 DEF IsReplay
<1>4. QED
  BY <1>1, <1>3 DEF Reads, k

\* Replay computes something that is read.
LEMMA ReplayIsRead ==
  ASSUME NEW l, \E s : Reads(l, s)
  PROVE  \E s : Reads(l, s) /\ Replay(l) = s.known
<1> DEFINE f == CHOOSE f : IsReplay(f, l)
<1>1. \E h : IsReplay(h, l)
  BY DEF Reads
<1>2. IsReplay(f, l)
  BY <1>1
<1>3. Replay(l) = f[Len(l)].known
  BY DEF Replay, IsReplay
<1> HIDE DEF f
<1>4. QED
  BY <1>2, <1>3 DEF Reads

\* A line that is about no test tells nothing.
LEMMA OthersTellNothing ==
  \A s, e : e.kind \notin CapabilityEvents => ReplayLine(s, e) = s
BY DEF ReplayLine, CapabilityEvents

\* The event that opens a test tells that nothing is known about it yet.
LEMMA StartTells ==
  ASSUME NEW s, IsState(s), NEW g, NEW t, <<g, t>> \in AllTests,
         NEW r, r = ReplayLine(s, Event("capability_started", g, t, "none"))
  PROVE  /\ IsState(r)
         /\ r.at = <<g, t>>
         /\ DOMAIN r.known = DOMAIN s.known \cup {<<g, t>>}
         /\ r.known[<<g, t>>] = NoCapability
         /\ \A c \in DOMAIN s.known : c # <<g, t>> => r.known[c] = s.known[c]
<1>1. r = [at |-> <<g, t>>,
           known |-> [c \in DOMAIN s.known \cup {<<g, t>>} |->
                        IF c = <<g, t>> THEN NoCapability ELSE s.known[c]]]
  BY DEF ReplayLine, Event
<1>2. NoCapability \in Heard
  BY DEF NoCapability, Heard
<1>3. /\ DOMAIN r.known = DOMAIN s.known \cup {<<g, t>>}
      /\ \A c \in DOMAIN r.known :
           r.known[c] = IF c = <<g, t>> THEN NoCapability ELSE s.known[c]
      /\ r.known = [c \in DOMAIN r.known |-> r.known[c]]
  BY <1>1
<1>4. \A c \in DOMAIN r.known : r.known[c] \in Heard
  BY <1>2, <1>3 DEF IsState
<1>5. r.known \in [DOMAIN r.known -> Heard]
  BY <1>3, <1>4
<1>6. IsState(r)
  BY <1>1, <1>3, <1>5 DEF IsState
<1>7. QED
  BY <1>1, <1>3, <1>6

\* A completion tells the outcome of one part of the test opened last.
LEMMA CompletionTells ==
  ASSUME NEW s, IsState(s), NEW g, NEW t, s.at = <<g, t>>,
         s.at \in DOMAIN s.known,
         NEW p \in Parts, NEW e, e.kind = CompletedEvent(p),
         e.outcome \in Outcomes \cup {"none"},
         NEW r, r = ReplayLine(s, e)
  PROVE  /\ IsState(r)
         /\ r.at = s.at
         /\ DOMAIN r.known = DOMAIN s.known
         /\ r.known[s.at] = [s.known[s.at] EXCEPT ![p] = e.outcome]
         /\ \A c \in DOMAIN s.known : c # s.at => r.known[c] = s.known[c]
<1>1. s.at # <<>>
  OBVIOUS
<1>2. r = [s EXCEPT !.known[s.at][p] = e.outcome]
  <2>1. CASE p = "shell"
    BY <1>1, <2>1 DEF ReplayLine, CompletedEvent
  <2>2. CASE p = "tool"
    BY <1>1, <2>2 DEF ReplayLine, CompletedEvent
  <2>3. CASE p = "alternates"
    BY <1>1, <2>3 DEF ReplayLine, CompletedEvent
  <2>4. QED
    BY <2>1, <2>2, <2>3 DEF Parts
<1>3. /\ s = [at |-> s.at, known |-> s.known]
      /\ s.known \in [DOMAIN s.known -> Heard]
  BY DEF IsState
<1>4. /\ r.at = s.at
      /\ r.known = [s.known EXCEPT ![s.at] =
                      [s.known[s.at] EXCEPT ![p] = e.outcome]]
      /\ r = [at |-> r.at, known |-> r.known]
  BY <1>2, <1>3
<1>5. [s.known[s.at] EXCEPT ![p] = e.outcome] \in Heard
  BY <1>3 DEF Heard
<1>6. /\ DOMAIN r.known = DOMAIN s.known
      /\ r.known \in [DOMAIN r.known -> Heard]
      /\ r.known[s.at] = [s.known[s.at] EXCEPT ![p] = e.outcome]
      /\ \A c \in DOMAIN s.known : c # s.at => r.known[c] = s.known[c]
  BY <1>3, <1>4, <1>5
<1>7. IsState(r)
  BY <1>4, <1>6 DEF IsState
<1>8. QED
  BY <1>4, <1>6, <1>7
----------------------------------------------------------------------------
\* How the invariant is kept.

\* A step after which the same things are read.
LEMMA QuietKeeps ==
  ASSUME LogInv, \A s : Reads(log, s)' <=> Reads(log, s),
         \A s : ReadOK(s) => ReadOK(s)', Pending', Collected'
  PROVE  LogInv'
BY DEF LogInv

\* A step that appends a whole line.
LEMMA AppendKeeps ==
  ASSUME LogInv, log \in Seq(Lines), NEW e \in Lines, log' = Append(log, e),
         \A s, r : ReadOK(s) /\ r = ReplayLine(s, e) => ReadOK(r)',
         Pending', Collected'
  PROVE  LogInv'
<1>1. PICK s : Reads(log, s)
  BY DEF LogInv
<1>2. Reads(log', ReplayLine(s, e))
  BY <1>1, ReadsAppend
<1>3. ASSUME NEW r, Reads(log', r)
      PROVE  ReadOK(r)'
  <2>1. PICK q : Reads(log, q) /\ r = ReplayLine(q, e)
    BY <1>3, ReadsAppend
  <2>2. ReadOK(q)
    BY <2>1 DEF LogInv
  <2>3. QED
    BY <2>1, <2>2
<1>4. QED
  BY <1>2, <1>3 DEF LogInv

\* A group's event, and text that is cut off, tell the reader nothing.
LEMMA QuietLines ==
  ASSUME NEW l \in Seq(Lines)
  PROVE  /\ \A s : Reads(AppendCut(l), s) <=> Reads(l, s)
         /\ \A e \in Events : e.kind \notin CapabilityEvents =>
              \A s : Reads(AppendLine(l, e), s) <=> Reads(l, s)
<1>1. Events \subseteq Lines /\ CutLine \in Lines
  BY DEF Lines
<1>2. ASSUME NEW e \in Lines, \A s : ReplayLine(s, e) = s
      PROVE  \A s : Reads(Append(l, e), s) <=> Reads(l, s)
  BY <1>2, ReadsAppend
<1>3. \A s : Reads(AppendCut(l), s) <=> Reads(l, s)
  BY <1>1, <1>2, CutTellsNothing DEF AppendCut
<1>4. ASSUME NEW e \in Events, e.kind \notin CapabilityEvents
      PROVE  \A s : Reads(AppendLine(l, e), s) <=> Reads(l, s)
  <2>1. \A s : ReplayLine(s, e) = s
    BY <1>4, OthersTellNothing
  <2>2. CASE EndsCut(l)
    BY <2>2, ReadsMerged DEF AppendLine
  <2>3. CASE ~EndsCut(l)
    BY <1>1, <1>2, <2>1, <2>3 DEF AppendLine
  <2>4. QED
    BY <2>2, <2>3
<1>5. QED
  BY <1>3, <1>4

\* Once an event is reported the log does not end in a cut-off line.
LEMMA ReportedWhole ==
  ASSUME NEW l \in Seq(Lines), NEW e \in Events
  PROVE  ~EndsCut(AppendLine(l, e))
<1>1. e # CutLine /\ MergedLine # CutLine
  BY DEF Events, EventKinds, CutLine, MergedLine
<1>2. CASE EndsCut(l)
  <2>1. Len(l) \in 1..Len(l) /\ Len([l EXCEPT ![Len(l)] = MergedLine]) = Len(l)
    BY <1>2 DEF EndsCut
  <2>2. QED
    BY <1>1, <1>2, <2>1 DEF AppendLine, EndsCut
<1>3. CASE ~EndsCut(l)
  <2>1. /\ Len(Append(l, e)) = Len(l) + 1
        /\ Append(l, e)[Len(l) + 1] = e
    OBVIOUS
  <2>2. QED
    BY <1>1, <1>3, <2>1 DEF AppendLine, EndsCut
<1>4. QED
  BY <1>2, <1>3

LEMMA CompletedKinds ==
  /\ \A p \in Parts : /\ CompletedEvent(p) \in CapabilityEvents
                      /\ CompletedEvent(p) # "capability_started"
  /\ \A p, q \in Parts : CompletedEvent(p) = CompletedEvent(q) => p = q
BY DEF Parts, CompletedEvent, CapabilityEvents

\* A position in the factories and one in the list of tests name a test.
LEMMA InTestIsTest ==
  ASSUME InTest
  PROVE  <<group, test>> \in AllTests
BY DEF InTest, AllTests

\* Tests with a result are not the current one.
LEMMA OtherTests ==
  ASSUME InTest, FinishedBefore(group)
  PROVE  /\ \A g \in DOMAIN groupResults : \A t : <<g, t>> # <<group, test>>
         /\ \A t \in 1..Len(results) : <<group, t>> # <<group, test>>
<1>1. group \in Int /\ \A g \in EnabledGroups : g \in Int
  BY EnabledGroupsAssumption, GroupCountAssumption DEF InTest
<1>2. \A g \in DOMAIN groupResults : g # group
  BY <1>1 DEF FinishedBefore
<1>3. \A t \in 1..Len(results) : t # test
  BY TestCountType, EnabledAreGroups DEF InTest
<1>4. QED
  BY <1>2, <1>3

\* Moving on to test t of the group, or past its last one, with the results
\* of the tests before it: what agreed with them still agrees.
LEMMA ToTestReads ==
  ASSUME TypeOK, FinishedBefore(group), group \in EnabledGroups,
         NEW t \in 1..TestCount[group] + 1,
         NEW res \in Seq(Capabilities), Len(res) = t - 1,
         ToTest(t, res), log' \in Seq(Lines), ~EndsCut(log)',
         NEW s, IsState(s), AgreesGroups(s),
         \A u \in 1..Len(res) : /\ <<group, u>> \in DOMAIN s.known
                                /\ s.known[<<group, u>>] = res[u]
  PROVE  ReadOK(s)' /\ Pending' /\ Collected'
<1>1. TestCount[group] \in Nat
  BY TestCountType, EnabledAreGroups
<1>2. IsState(s)'
  BY DEF IsState
<1>3. CASE t <= TestCount[group]
  <2>1. /\ test' = t /\ results' = res /\ stage' = "report"
        /\ event' = Event("capability_started", group, t, "none")
        /\ group' = group /\ groupResults' = groupResults
        /\ capability' = NoCapability
    BY <1>3 DEF ToTest
  <2>2. AgreesGroups(s)' /\ AgreesTests(s)'
    BY <2>1 DEF AgreesGroups, AgreesTests
  <2>3. event'.kind = "capability_started"
    BY <2>1 DEF Event
  <2>4. Current(s)'
    BY <2>1, <2>3, CompletedKinds DEF Current
  <2>5. Pending' /\ Collected'
    BY <2>1, <2>3 DEF Pending, Collected, CapabilityEvents, Publishing
  <2>6. QED
    BY <1>2, <2>2, <2>4, <2>5 DEF ReadOK
<1>4. CASE ~(t <= TestCount[group])
  <2>1. /\ groupResults' = [g \in DOMAIN groupResults \cup {group} |->
                              IF g = group THEN res ELSE groupResults[g]]
        /\ results' = <<>> /\ stage' = "build"
    BY <1>4 DEF ToTest
  <2>2. Len(res) = TestCount[group]
    BY <1>1, <1>4
  <2>3. AgreesGroups(s)'
    <3> SUFFICES ASSUME NEW g \in DOMAIN groupResults \cup {group},
                        NEW u \in 1..TestCount[g]
                 PROVE  /\ <<g, u>> \in DOMAIN s.known
                        /\ s.known[<<g, u>>] = groupResults'[g][u]
      BY <2>1 DEF AgreesGroups
    <3>1. CASE g = group
      BY <2>1, <2>2, <3>1
    <3>2. CASE g # group
      BY <2>1, <3>2 DEF AgreesGroups
    <3>3. QED
      BY <3>1, <3>2
  <2>4. AgreesTests(s)' /\ Current(s)' /\ Pending' /\ Collected'
    BY <2>1 DEF AgreesTests, Current, Pending, Collected, Publishing
  <2>5. QED
    BY <1>2, <2>3, <2>4 DEF ReadOK
<1>5. QED
  BY <1>3, <1>4
----------------------------------------------------------------------------
\* Every step keeps it.

LEMMA InitLog == Init => LogInv
<1> SUFFICES ASSUME Init PROVE LogInv
  OBVIOUS
<1>1. log = <<>> /\ stage = "idle" /\ results = <<>> /\ DOMAIN groupResults = {}
  BY DEF Init
<1>2. /\ IsState(Unread)
      /\ DOMAIN Unread.known = {}
  BY DEF IsState, Unread
<1>3. ReadOK(Unread)
  BY <1>1, <1>2 DEF ReadOK, AgreesGroups, AgreesTests, Current
<1>4. Pending /\ Collected
  BY <1>1 DEF Pending, Collected, Publishing
<1>5. QED
  BY <1>1, <1>3, <1>4, ReadsNothing DEF LogInv

LEMMA StartRunLog == LogInv /\ StartRun => LogInv'
<1> SUFFICES ASSUME LogInv, StartRun PROVE LogInv'
  OBVIOUS
<1>1. /\ log' = log /\ stage' = "build" /\ results' = <<>>
      /\ DOMAIN groupResults' = {}
  BY DEF StartRun
<1>2. \A s : ReadOK(s) => ReadOK(s)'
  BY <1>1 DEF ReadOK, IsState, AgreesGroups, AgreesTests, Current
<1>3. Pending' /\ Collected'
  BY <1>1 DEF Pending, Collected, Publishing
<1>4. QED
  BY <1>1, <1>2, <1>3, QuietKeeps

LEMMA BuildGroupLog == IInv /\ LogInv /\ BuildGroup => LogInv'
<1> SUFFICES ASSUME IInv, LogInv, BuildGroup PROVE LogInv'
  OBVIOUS
<1>1. /\ log' = log /\ stage' = "report" /\ results' = <<>>
      /\ UNCHANGED groupResults
  BY DEF BuildGroup
<1>2. event'.kind \in {"group_started", "group_skipped"}
  BY DEF BuildGroup, Event
<1>3. event'.kind \notin CapabilityEvents
  BY <1>2 DEF CapabilityEvents
<1>4. \A p \in Parts : event'.kind # CompletedEvent(p)
  BY <1>3, CompletedKinds
<1>5. \A s : ReadOK(s) => ReadOK(s)'
  BY <1>1, <1>4 DEF ReadOK, IsState, AgreesGroups, AgreesTests, Current
<1>6. Pending' /\ Collected'
  BY <1>1, <1>2, <1>3 DEF Pending, Collected, Publishing
<1>7. QED
  BY <1>1, <1>5, <1>6, QuietKeeps

\* The serialised results, the file that holds them and the report that is
\* published are what the loops collected.
LEMMA PublishLog ==
  ASSUME IInv, LogInv,
         FinishGroups \/ WriteReport \/ ReplaceReport \/ WriteDone
                      \/ ReplaceDone \/ Exit
  PROVE  LogInv'
<1>1. /\ log' = log /\ stage' # "report" /\ stage' # "probe"
      /\ UNCHANGED <<group, results, groupResults>>
  BY DEF FinishGroups, WriteReport, ReplaceReport, WriteDone, ReplaceDone,
         Exit, loop
<1>2. \A s : ReadOK(s) => ReadOK(s)'
  BY <1>1 DEF ReadOK, IsState, AgreesGroups, AgreesTests, Current
<1>3. Pending'
  BY <1>1 DEF Pending
<1>4. Collected'
  <2>1. CASE FinishGroups
    BY <2>1 DEF FinishGroups, Collected, Publishing
  <2>2. CASE WriteReport
    BY <2>2 DEF WriteReport, Collected, Publishing, Report, loop, IInv, LoopOK,
       IsCompleteResult
  <2>3. CASE ReplaceReport
    BY <2>3 DEF ReplaceReport, Collected, Publishing, loop, LogInv,
       IsCompleteResult
  <2>4. CASE WriteDone \/ ReplaceDone \/ Exit
    BY <2>4 DEF WriteDone, ReplaceDone, Exit, Collected, Publishing, loop,
       files, LogInv, IsCompleteResult
  <2>5. QED
    BY <2>1, <2>2, <2>3, <2>4
<1>5. QED
  BY <1>1, <1>2, <1>3, <1>4, QuietKeeps

LEMMA ProbeLog == IInv /\ LogInv /\ Probe => LogInv'
<1> SUFFICES ASSUME IInv, LogInv, Probe PROVE LogInv'
  OBVIOUS
<1>1. PICK o \in Outcomes :
        /\ capability' = [capability EXCEPT ![part] = o]
        /\ event' = Event(CompletedEvent(part), 0, 0, o)
  BY DEF Probe
<1>2. /\ stage = "probe" /\ stage' = "report" /\ log' = log
      /\ UNCHANGED <<group, test, results, groupResults>>
  BY DEF Probe
<1>3. /\ part \in Parts /\ event'.kind = CompletedEvent(part)
      /\ event'.outcome = o
  BY <1>1 DEF IInv, TypeOK, Event
<1>4. ASSUME NEW s, ReadOK(s)
      PROVE  ReadOK(s)'
  <2>1. IsState(s)' /\ AgreesGroups(s)' /\ AgreesTests(s)'
    BY <1>2, <1>4 DEF ReadOK, IsState, AgreesGroups, AgreesTests
  <2>2. AtTest(s) /\ s.known[s.at] = capability
    BY <1>2, <1>4 DEF ReadOK, Current
  <2>3. Current(s)'
    BY <1>1, <1>2, <1>3, <2>2, CompletedKinds DEF Current, AtTest
  <2>4. QED
    BY <2>1, <2>3 DEF ReadOK
<1>5. Pending'
  <2>1. event'.kind \in CapabilityEvents /\ event'.kind # "capability_started"
    BY <1>3, CompletedKinds
  <2>2. ~EndsCut(log)
    BY <1>2 DEF LogInv, Pending
  <2>3. QED
    BY <1>2, <2>1, <2>2 DEF Pending, EndsCut
<1>6. Collected'
  BY <1>2 DEF Collected, Publishing
<1>7. QED
  BY <1>2, <1>4, <1>5, <1>6, QuietKeeps

LEMMA FailLog == IInv /\ LogInv /\ Fail => LogInv'
<1> SUFFICES ASSUME IInv, LogInv, Fail PROVE LogInv'
  OBVIOUS
<1>1. /\ log' = log \/ log' = AppendCut(log)
      /\ stage' = "failed"
      /\ UNCHANGED <<group, results, groupResults>>
  BY DEF Fail, loop
<1>2. \A s : Reads(log, s)' <=> Reads(log, s)
  BY <1>1, QuietLines DEF IInv, TypeOK
<1>3. \A s : ReadOK(s) => ReadOK(s)'
  BY <1>1 DEF ReadOK, IsState, AgreesGroups, AgreesTests, Current
<1>4. Pending' /\ Collected'
  BY <1>1 DEF Pending, Collected, Publishing
<1>5. QED
  BY <1>2, <1>3, <1>4, QuietKeeps

\* A group's event is reported.
LEMMA ReportGroupLog ==
  ASSUME IInv, IInv', LogInv, ReportEvent,
         event.kind \in {"group_skipped", "group_started"}
  PROVE  LogInv'
<1>1. /\ stage = "report" /\ log' = AppendLine(log, event)
      /\ log \in Seq(Lines) /\ log' \in Seq(Lines) /\ event \in Events
      /\ event.kind \notin CapabilityEvents
  BY DEF ReportEvent, IInv, TypeOK, CapabilityEvents
<1>2. \A s : Reads(log, s)' <=> Reads(log, s)
  BY <1>1, QuietLines
<1>3. results = <<>> /\ ~EndsCut(log)'
  BY <1>1, ReportedWhole DEF LogInv, Pending
<1>4. CASE event.kind = "group_skipped"
  <2>1. stage' = "build" /\ UNCHANGED <<results, groupResults>>
    BY <1>4 DEF ReportEvent
  <2>2. \A s : ReadOK(s) => ReadOK(s)'
    BY <1>3, <2>1 DEF ReadOK, IsState, AgreesGroups, AgreesTests, Current
  <2>3. Pending' /\ Collected'
    BY <2>1 DEF Pending, Collected, Publishing
  <2>4. QED
    BY <1>2, <2>2, <2>3, QuietKeeps
<1>5. CASE event.kind = "group_started"
  <2>1. ToTest(1, <<>>)
    BY <1>5 DEF ReportEvent
  <2>2. group \in EnabledGroups /\ FinishedBefore(group) /\ TypeOK
    BY <1>1, <1>5 DEF IInv, LoopOK
  <2>3. 1 \in 1..TestCount[group] + 1
    BY <2>2, TestCountType, EnabledAreGroups
  <2>4. <<>> \in Seq(Capabilities) /\ Len(<<>>) = 1 - 1
    OBVIOUS
  <2>5. ASSUME NEW s, ReadOK(s)
        PROVE  ReadOK(s)' /\ Pending' /\ Collected'
    <3>1. IsState(s) /\ AgreesGroups(s)
      BY <2>5 DEF ReadOK
    <3>2. \A u \in 1..Len(<<>>) : /\ <<group, u>> \in DOMAIN s.known
                                 /\ s.known[<<group, u>>] = <<>>[u]
      OBVIOUS
    <3>3. QED
      BY <1>1, <1>3, <2>1, <2>2, <2>3, <2>4, <3>1, <3>2, ToTestReads
  <2>6. QED
    BY <1>2, <2>5, QuietKeeps DEF LogInv
<1>6. QED
  BY <1>4, <1>5

\* The event that opens a test is reported.
LEMMA ReportStartLog ==
  ASSUME IInv, IInv', LogInv, ReportEvent, event.kind = "capability_started"
  PROVE  LogInv'
<1>1. /\ stage = "report" /\ event \in Events /\ log \in Seq(Lines)
      /\ event.kind \in CapabilityEvents
  BY DEF ReportEvent, IInv, TypeOK, CapabilityEvents
<1>2. /\ event = Event("capability_started", group, test, "none")
      /\ capability = NoCapability
      /\ ~EndsCut(log)
  BY <1>1 DEF LogInv, Pending
<1>3. log' = Append(log, event) /\ ~EndsCut(log)'
  BY <1>1, <1>2, ReportedWhole DEF ReportEvent, AppendLine
<1>4. /\ stage' = "probe"
      /\ UNCHANGED <<group, test, event, capability, results, groupResults>>
  BY DEF ReportEvent, ToProbe
<1>5. InTest /\ FinishedBefore(group) /\ <<group, test>> \in AllTests
  BY <1>1, InTestIsTest DEF IInv, LoopOK
<1>6. ASSUME NEW s, ReadOK(s), NEW r, r = ReplayLine(s, event)
      PROVE  ReadOK(r)'
  <2>1. /\ IsState(r)
        /\ r.at = <<group, test>>
        /\ DOMAIN r.known = DOMAIN s.known \cup {<<group, test>>}
        /\ r.known[<<group, test>>] = NoCapability
        /\ \A c \in DOMAIN s.known : c # <<group, test>> =>
             r.known[c] = s.known[c]
    BY <1>2, <1>5, <1>6, StartTells DEF ReadOK
  <2>2. AgreesGroups(r)' /\ AgreesTests(r)'
    BY <1>4, <1>5, <1>6, <2>1, OtherTests
    DEF ReadOK, AgreesGroups, AgreesTests
  <2>3. IsState(r)' /\ Current(r)'
    BY <1>2, <1>4, <2>1 DEF IsState, Current, AtTest
  <2>4. QED
    BY <2>2, <2>3 DEF ReadOK
<1>7. Pending' /\ Collected'
  BY <1>3, <1>4 DEF Pending, Collected, Publishing
<1>8. event \in Lines
  BY <1>1 DEF Lines
<1>9. QED
  BY <1>1, <1>3, <1>4, <1>6, <1>7, <1>8, AppendKeeps

\* The completion of a part is reported: the reader knows what the loop knows.
LEMMA CompletionRead ==
  ASSUME IInv, NEW p \in Parts, stage = "report",
         event.kind = CompletedEvent(p), NEW s, ReadOK(s),
         NEW r, r = ReplayLine(s, event)
  PROVE  /\ IsState(r) /\ AgreesGroups(r) /\ AgreesTests(r)
         /\ AtTest(r)
         /\ r.known[r.at] = capability
<1>1. /\ AtTest(s) /\ IsState(s)
      /\ capability = [s.known[s.at] EXCEPT ![p] = event.outcome]
  BY DEF ReadOK, Current
<1>2. event.outcome \in Outcomes \cup {"none"}
  BY DEF IInv, TypeOK, Events
<1>3. /\ IsState(r)
      /\ r.at = s.at
      /\ DOMAIN r.known = DOMAIN s.known
      /\ r.known[s.at] = capability
      /\ \A c \in DOMAIN s.known : c # s.at => r.known[c] = s.known[c]
  BY <1>1, <1>2, CompletionTells DEF AtTest
<1>4. InTest /\ FinishedBefore(group)
  BY CompletedKinds DEF IInv, LoopOK, CapabilityEvents
<1>5. AgreesGroups(r) /\ AgreesTests(r)
  BY <1>1, <1>3, <1>4, OtherTests DEF ReadOK, AgreesGroups, AgreesTests, AtTest
<1>6. QED
  BY <1>1, <1>3, <1>5 DEF AtTest

\* The completion of shell or tool is reported.
LEMMA ReportPartLog ==
  ASSUME IInv, IInv', LogInv, ReportEvent,
         event.kind \in {"shell_completed", "tool_completed"}
  PROVE  LogInv'
<1>1. /\ stage = "report" /\ event \in Events /\ log \in Seq(Lines)
      /\ event.kind \in CapabilityEvents
  BY DEF ReportEvent, IInv, TypeOK, CapabilityEvents
<1>2. log' = Append(log, event) /\ ~EndsCut(log)'
  BY <1>1, ReportedWhole DEF LogInv, Pending, ReportEvent, AppendLine
<1>3. /\ stage' = "probe"
      /\ UNCHANGED <<group, test, event, capability, results, groupResults>>
  BY DEF ReportEvent, ToProbe
<1>4. PICK p \in Parts : event.kind = CompletedEvent(p)
  BY DEF CompletedEvent, Parts
<1>5. ASSUME NEW s, ReadOK(s), NEW r, r = ReplayLine(s, event)
      PROVE  ReadOK(r)'
  <2>1. /\ IsState(r) /\ AgreesGroups(r) /\ AgreesTests(r)
        /\ AtTest(r)
        /\ r.known[r.at] = capability
    BY <1>1, <1>4, <1>5, CompletionRead
  <2>2. IsState(r)' /\ AgreesGroups(r)' /\ AgreesTests(r)'
    BY <1>3, <2>1 DEF IsState, AgreesGroups, AgreesTests
  <2>3. Current(r)'
    BY <1>3, <2>1 DEF Current, AtTest
  <2>4. QED
    BY <2>2, <2>3 DEF ReadOK
<1>6. Pending' /\ Collected'
  BY <1>2, <1>3 DEF Pending, Collected, Publishing
<1>7. event \in Lines
  BY <1>1 DEF Lines
<1>8. QED
  BY <1>1, <1>2, <1>5, <1>6, <1>7, AppendKeeps

\* The completion of alternates is reported: the test is finished.
LEMMA ReportLastLog ==
  ASSUME IInv, IInv', LogInv, ReportEvent, event.kind = "alternates_completed"
  PROVE  LogInv'
<1>1. /\ stage = "report" /\ event \in Events
      /\ log \in Seq(Lines) /\ log' \in Seq(Lines)
      /\ event.kind \in CapabilityEvents /\ TypeOK
  BY DEF ReportEvent, IInv, TypeOK, CapabilityEvents
<1>2. log' = Append(log, event) /\ ~EndsCut(log)'
  BY <1>1, ReportedWhole DEF LogInv, Pending, ReportEvent, AppendLine
<1> DEFINE res == Append(results, capability)
<1>3. ToTest(test + 1, res)
  BY DEF ReportEvent
<1>4. "alternates" \in Parts /\ event.kind = CompletedEvent("alternates")
  BY DEF CompletedEvent, Parts
<1>5. InTest /\ FinishedBefore(group) /\ capability \in Capabilities
  BY <1>1 DEF IInv, LoopOK
<1>6. group \in EnabledGroups /\ test + 1 \in 1..TestCount[group] + 1
  BY <1>5, TestCountType, EnabledAreGroups DEF InTest
<1>7. /\ res \in Seq(Capabilities)
      /\ Len(res) = (test + 1) - 1 /\ Len(res) = Len(results) + 1
      /\ res[Len(res)] = capability /\ Len(res) = test
      /\ \A u \in 1..Len(results) : res[u] = results[u]
  BY <1>5, <1>6 DEF IInv, TypeOK, InTest
<1> HIDE DEF res
<1>8. ASSUME NEW s, ReadOK(s), NEW r, r = ReplayLine(s, event)
      PROVE  ReadOK(r)' /\ Pending' /\ Collected'
  <2>1. /\ IsState(r) /\ AgreesGroups(r) /\ AgreesTests(r)
        /\ AtTest(r)
        /\ r.known[r.at] = capability
    BY <1>1, <1>4, <1>8, CompletionRead
  <2>2. \A u \in 1..Len(res) : /\ <<group, u>> \in DOMAIN r.known
                               /\ r.known[<<group, u>>] = res[u]
    <3> SUFFICES ASSUME NEW u \in 1..Len(res)
                 PROVE  /\ <<group, u>> \in DOMAIN r.known
                        /\ r.known[<<group, u>>] = res[u]
      OBVIOUS
    <3>1. CASE u = Len(res)
      BY <1>7, <2>1, <3>1 DEF AtTest
    <3>2. CASE u # Len(res)
      <4>1. u \in 1..Len(results)
        BY <1>1, <1>7, <3>2 DEF TypeOK
      <4>2. QED
        BY <1>7, <2>1, <4>1 DEF AgreesTests
    <3>3. QED
      BY <3>1, <3>2
  <2>3. QED
    BY <1>1, <1>2, <1>3, <1>5, <1>6, <1>7, <2>1, <2>2, ToTestReads
<1>9. Pending' /\ Collected'
  BY <1>8 DEF LogInv
<1>10. event \in Lines
  BY <1>1 DEF Lines
<1>11. QED
  BY <1>1, <1>2, <1>8, <1>9, <1>10, AppendKeeps

LEMMA ReportEventLog == IInv /\ IInv' /\ LogInv /\ ReportEvent => LogInv'
<1>1. ReportEvent => event.kind \in {"group_skipped", "group_started",
                                     "capability_started", "shell_completed",
                                     "tool_completed", "alternates_completed"}
  BY DEF ReportEvent
<1>2. QED
  BY <1>1, ReportGroupLog, ReportStartLog, ReportPartLog, ReportLastLog

LEMMA NextLog == IInv /\ IInv' /\ LogInv /\ [Next]_vars => LogInv'
<1> SUFFICES ASSUME IInv, IInv', LogInv, [Next]_vars PROVE LogInv'
  OBVIOUS
<1>1. CASE Next
  BY <1>1, StartRunLog, BuildGroupLog, ReportEventLog, ProbeLog, PublishLog,
     FailLog DEF Next, Step
<1>2. CASE UNCHANGED vars
  <2>1. \A s : ReadOK(s) => ReadOK(s)'
    BY <1>2 DEF ReadOK, IsState, AgreesGroups, AgreesTests, Current, AtTest,
       vars, loop
  <2>2. Pending' /\ Collected'
    BY <1>2 DEF LogInv, Pending, Collected, EndsCut, IsCompleteResult, vars,
       loop, files
  <2>3. QED
    BY <1>2, <2>1, <2>2, QuietKeeps DEF vars
<1>3. QED
  BY <1>1, <1>2

----------------------------------------------------------------------------
\* The theorems.

\* What is read from status.ndjson is at every moment about tests of enabled
\* groups only, and agrees with what the run has collected so far.
THEOREM LogInvariance == Spec => []LogInv
<1>1. Init => LogInv
  BY InitLog
<1>2. IInv /\ IInv' /\ LogInv /\ [Next]_vars => LogInv'
  BY NextLog
<1>3. QED
  BY <1>1, <1>2, Invariance, PTL DEF Spec

\* Once a report is in place, reading the whole of status.ndjson gives exactly
\* its results, whatever earlier runs left in the file.
THEOREM LogsReplayReports == Spec => []LogReplaysReport
<1>1. IInv /\ LogInv => LogReplaysReport
  <2> SUFFICES ASSUME LogInv,
                      stage \in {"writeDone", "replaceDone", "announce",
                                 "exited"}
               PROVE  /\ DOMAIN Replay(log) = AllTests
                      /\ \A c \in DOMAIN Replay(log) :
                           Replay(log)[c] = report.results[c[1]][c[2]]
    BY DEF LogReplaysReport, AllTests
  <2>1. PICK s : Reads(log, s) /\ Replay(log) = s.known
    BY ReplayIsRead DEF LogInv
  <2>2. IsState(s) /\ AgreesGroups(s)
    BY <2>1 DEF LogInv, ReadOK
  <2>3. /\ report.results = groupResults
        /\ DOMAIN groupResults = EnabledGroups
    BY DEF LogInv, Collected, Publishing, IsCompleteResult
  <2>4. \A c \in AllTests : \E g \in EnabledGroups :
          \E t \in 1..TestCount[g] : c = <<g, t>>
    BY DEF AllTests
  <2>5. \A c \in AllTests : /\ c \in DOMAIN s.known
                            /\ s.known[c] = report.results[c[1]][c[2]]
    BY <2>2, <2>3, <2>4 DEF AgreesGroups
  <2>6. QED
    BY <2>1, <2>2, <2>5 DEF IsState
<1>2. QED
  BY <1>1, Invariance, LogInvariance, PTL
=============================================================================
