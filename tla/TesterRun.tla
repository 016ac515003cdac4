----------------------------- MODULE TesterRun -----------------------------
(***************************************************************************)
(* One output directory of the sandbox tester and the runs that write it:  *)
(* sandbox_tester.cli.main -> runner.run_from_files ->                     *)
(* manager.run_all_groups -> testing.run_group -> the reporters.           *)
(*                                                                         *)
(* A run walks the groups in factory order and, in each enabled group, the *)
(* tests in list order; every test is probed by shell, by tool and by      *)
(* alternates, and each step is reported (console first, then one line     *)
(* appended to status.ndjson).  At the end report.json and then done.json  *)
(* are written, each through a ".tmp" sibling that replaces it.  Nothing   *)
(* in this code catches an exception, so a run may stop at any step; the   *)
(* directory is kept and may be the output of a later run (the command's   *)
(* --output), which removes nothing an earlier one left.                   *)
(***************************************************************************)
EXTENDS Integers, SequencesExt

CONSTANTS
  GroupCount,     \* how many factories GROUP_FACTORIES lists
  EnabledGroups,  \* positions of the groups whose id is in _ENABLED_GROUPS
  TestCount,      \* TestCount[g]: how many tests group g has
  Outcomes,       \* the outcomes a probe can return (models.Outcome)
  MaxRuns         \* bound: runs started in the same output directory

ASSUME GroupCountAssumption == GroupCount \in Nat
ASSUME EnabledGroupsAssumption == EnabledGroups \subseteq 1..GroupCount
ASSUME TestCountAssumption == TestCount \in [1..GroupCount -> Nat]
ASSUME MaxRunsAssumption == MaxRuns \in Nat
ASSUME OutcomesAssumption == "none" \notin Outcomes

VARIABLES
  run,          \* the number of the current run, 0 before the first
  stage,        \* what the process does next
  group,        \* loop position in GROUP_FACTORIES
  test,         \* loop position in group.tests
  part,         \* the invocation of the test that is being made
  event,        \* the event being handed to the reporters
  capability,   \* shell_result, tool_result, alternate_result of the test
  results,      \* `results` of run_group: the tests finished in this group
  groupResults, \* all_group_results, keyed by the group's position
  log,          \* lines of status.ndjson
  report,       \* report.json
  reportTmp,    \* report.json.tmp
  done,         \* done.json
  doneTmp       \* done.json.tmp

files == <<report, reportTmp, done, doneTmp>>
loop == <<group, test, part, event, capability, results, groupResults>>
vars == <<run, stage, loop, log, files>>

----------------------------------------------------------------------------
\* Types.

Groups == 1..GroupCount
Parts == {"shell", "tool", "alternates"}
Stages == {"idle", "build", "report", "probe", "writeReport",
           "replaceReport", "writeDone", "replaceDone", "announce",
           "exited", "failed"}

\* Stages in which no process is running.
Stopped == {"idle", "exited", "failed"}

Capabilities == [Parts -> Outcomes]
NoCapability == [p \in Parts |-> "none"]

EventKinds == {"none", "group_skipped", "group_started",
               "capability_started", "shell_completed", "tool_completed",
               "alternates_completed"}
Events == [kind: EventKinds, group: Nat, test: Nat,
           outcome: Outcomes \cup {"none"}]

\* A line is an event, text cut off without its newline, or text that holds
\* a cut-off line and the event a later run appended to it.
Event(k, g, t, o) == [kind |-> k, group |-> g, test |-> t, outcome |-> o]
NoEvent == Event("none", 0, 0, "none")
CutLine == [kind |-> "cut"]
MergedLine == [kind |-> "merged"]
Lines == Events \cup {CutLine, MergedLine}

\* A file is missing, holds part of a JSON text, or the whole text of a run.
Missing == [kind |-> "missing"]
Partial == [kind |-> "partial"]
Report(r, res) == [kind |-> "whole", run |-> r, results |-> res]
Done(r) == [kind |-> "whole", run |-> r]

----------------------------------------------------------------------------
\* Helpers.

\* _results_to_json_data has something to say on every enabled group, and on
\* every test of it.
IsCompleteResult(res) ==
  /\ DOMAIN res = EnabledGroups
  /\ \A g \in EnabledGroups :
       /\ res[g] \in Seq(Capabilities)
       /\ Len(res[g]) = TestCount[g]

EndsCut(l) == l # <<>> /\ l[Len(l)] = CutLine

\* (Defect: the file opened for writing, not for appending.)
AppendLineTruncating(l, e) == <<e>>

\* The file is opened for append and one text is written: after a line that
\* was cut off, the new text continues that line.
AppendLine(l, e) ==
  IF EndsCut(l) THEN [l EXCEPT ![Len(l)] = MergedLine] ELSE Append(l, e)
AppendCut(l) == IF EndsCut(l) THEN l ELSE Append(l, CutLine)

CompletedEvent(p) == CASE p = "shell" -> "shell_completed"
                       [] p = "tool" -> "tool_completed"
                       [] p = "alternates" -> "alternates_completed"

\* (Defect: the last test of a group is left out.)
ToTestSkippingLast(t, res) ==
  /\ capability' = NoCapability
  /\ IF t < TestCount[group]
       THEN /\ test' = t
            /\ event' = Event("capability_started", group, t, "none")
            /\ results' = res
            /\ stage' = "report"
            /\ UNCHANGED <<group, groupResults>>
       ELSE /\ groupResults' = [g \in DOMAIN groupResults \cup {group} |->
                                 IF g = group THEN res ELSE groupResults[g]]
            /\ group' = group + 1
            /\ test' = 1
            /\ results' = <<>>
            /\ event' = NoEvent
            /\ stage' = "build"

\* (Defect: the first test of a group is run over and over.)
ToTestRepeating(t, res) ==
  /\ TestCount[group] > 0
  /\ capability' = NoCapability
  /\ test' = 1
  /\ event' = Event("capability_started", group, 1, "none")
  /\ results' = <<>>
  /\ stage' = "report"
  /\ UNCHANGED <<group, groupResults>>

\* The loops move on to test t of the current group, or past its last test.
\* run_group returns only after that, and only then does its result join
\* all_group_results.
ToTest(t, res) ==
  /\ capability' = NoCapability
  /\ IF t <= TestCount[group]
       THEN /\ test' = t
            /\ event' = Event("capability_started", group, t, "none")
            /\ results' = res
            /\ stage' = "report"
            /\ UNCHANGED <<group, groupResults>>
       ELSE /\ groupResults' = [g \in DOMAIN groupResults \cup {group} |->
                                 IF g = group THEN res ELSE groupResults[g]]
            /\ group' = group + 1
            /\ test' = 1
            /\ results' = <<>>
            /\ event' = NoEvent
            /\ stage' = "build"

ToProbe(p) ==
  /\ part' = p
  /\ stage' = "probe"
  /\ UNCHANGED <<group, test, event, capability, results, groupResults>>

----------------------------------------------------------------------------
Init ==
  /\ run = 0
  /\ stage = "idle"
  /\ group = 1
  /\ test = 1
  /\ part = "shell"
  /\ event = NoEvent
  /\ capability = NoCapability
  /\ results = <<>>
  /\ groupResults = <<>>
  /\ log = <<>>
  /\ report = Missing
  /\ reportTmp = Missing
  /\ done = Missing
  /\ doneTmp = Missing

\* (Defect: the report of an earlier run is removed first.)
StartRunRemovingReport ==
  /\ stage \in Stopped
  /\ run < MaxRuns
  /\ run' = run + 1
  /\ stage' = "build"
  /\ group' = 1
  /\ test' = 1
  /\ part' = "shell"
  /\ event' = NoEvent
  /\ capability' = NoCapability
  /\ results' = <<>>
  /\ groupResults' = <<>>
  /\ report' = Missing
  /\ UNCHANGED <<log, reportTmp, done, doneTmp>>

\* A process starts on the directory (cli.main up to the first factory): it
\* makes the directory if needed, and leaves every file in it as it was.
StartRun ==
  /\ stage \in Stopped
  /\ run < MaxRuns
  /\ run' = run + 1
  /\ stage' = "build"
  /\ group' = 1
  /\ test' = 1
  /\ part' = "shell"
  /\ event' = NoEvent
  /\ capability' = NoCapability
  /\ results' = <<>>
  /\ groupResults' = <<>>
  /\ UNCHANGED <<log, files>>

\* One turn of run_all_groups: the factory is called, and the group is
\* skipped or its run begins.
BuildGroup ==
  /\ stage = "build"
  /\ group <= GroupCount
  /\ event' = Event(IF group \in EnabledGroups THEN "group_started"
                                               ELSE "group_skipped",
                    group, 0, "none")
  /\ results' = <<>>
  /\ stage' = "report"
  /\ UNCHANGED <<run, group, test, part, capability, groupResults, log, files>>

\* (Defect: the completion marker is written before the report.)
FinishGroupsDoneFirst ==
  /\ stage = "build"
  /\ group > GroupCount
  /\ stage' = "writeDone"
  /\ UNCHANGED <<run, loop, log, files>>

\* After the last group the results are serialised.
FinishGroups ==
  /\ stage = "build"
  /\ group > GroupCount
  /\ stage' = "writeReport"
  /\ UNCHANGED <<run, loop, log, files>>

\* CompositeReporter hands the event to the console reporter, whose output is
\* not modelled, then to the status file reporter, which appends it; the
\* caller goes on.
ReportEvent ==
  /\ stage = "report"
  /\ log' = AppendLine(log, event)
  /\ \/ /\ event.kind = "group_skipped"
        /\ group' = group + 1
        /\ event' = NoEvent
        /\ stage' = "build"
        /\ UNCHANGED <<test, part, capability, results, groupResults>>
     \/ /\ event.kind = "group_started"
        /\ ToTest(1, <<>>)
        /\ UNCHANGED part
     \/ /\ event.kind = "capability_started"
        /\ ToProbe("shell")
     \/ /\ event.kind = "shell_completed"
        /\ ToProbe("tool")
     \/ /\ event.kind = "tool_completed"
        /\ ToProbe("alternates")
     \/ /\ event.kind = "alternates_completed"
        /\ ToTest(test + 1, Append(results, capability))
        /\ UNCHANGED part
  /\ UNCHANGED <<run, files>>

\* test.run_shell(), run_tool() or run_alternates() returns a result.
Probe ==
  /\ stage = "probe"
  /\ \E o \in Outcomes :
       /\ capability' = [capability EXCEPT ![part] = o]
       /\ event' = Event(CompletedEvent(part), 0, 0, o)
  /\ stage' = "report"
  /\ UNCHANGED <<run, group, test, part, results, groupResults, log, files>>

\* _write_json_atomically on report.json: the text is in the sibling file.
WriteReport ==
  /\ stage = "writeReport"
  /\ reportTmp' = Report(run, groupResults)
  /\ stage' = "replaceReport"
  /\ UNCHANGED <<run, loop, log, report, done, doneTmp>>

\* (Defect: no marker is written after the report.)
ReplaceReportOnly ==
  /\ stage = "replaceReport"
  /\ report' = reportTmp
  /\ reportTmp' = Missing
  /\ stage' = "announce"
  /\ UNCHANGED <<run, loop, log, done, doneTmp>>

\* ... and the sibling takes its name.
ReplaceReport ==
  /\ stage = "replaceReport"
  /\ report' = reportTmp
  /\ reportTmp' = Missing
  /\ stage' = "writeDone"
  /\ UNCHANGED <<run, loop, log, done, doneTmp>>

WriteDone ==
  /\ stage = "writeDone"
  /\ doneTmp' = Done(run)
  /\ stage' = "replaceDone"
  /\ UNCHANGED <<run, loop, log, report, reportTmp, done>>

ReplaceDone ==
  /\ stage = "replaceDone"
  /\ done' = doneTmp
  /\ doneTmp' = Missing
  /\ stage' = "announce"
  /\ UNCHANGED <<run, loop, log, report, reportTmp>>

\* main prints where the report is and returns 0.
Exit ==
  /\ stage = "announce"
  /\ stage' = "exited"
  /\ UNCHANGED <<run, loop, log, files>>

\* (Defect: report.json itself is the file being written.)
FailInReport ==
  /\ stage \notin Stopped
  /\ stage' = "failed"
  /\ report' \in {report} \cup
                 (IF stage = "writeReport" THEN {Partial} ELSE {})
  /\ UNCHANGED <<run, loop, log, reportTmp, done, doneTmp>>

\* An exception no caller catches (from a factory, a probe, a reporter, a
\* write), or the end of the process from outside.  What was being written may
\* be cut off; a replace happens or does not.
Fail ==
  /\ stage \notin Stopped
  /\ stage' = "failed"
  /\ log' \in {log} \cup (IF stage = "report" THEN {AppendCut(log)} ELSE {})
  /\ reportTmp' \in {reportTmp} \cup
                    (IF stage = "writeReport" THEN {Partial} ELSE {})
  /\ doneTmp' \in {doneTmp} \cup
                  (IF stage = "writeDone" THEN {Partial} ELSE {})
  /\ UNCHANGED <<run, loop, report, done>>

Step == \/ BuildGroup \/ FinishGroups \/ ReportEvent \/ Probe
        \/ WriteReport \/ ReplaceReport \/ WriteDone \/ ReplaceDone \/ Exit

Next == StartRun \/ Step \/ Fail

Spec == Init /\ [][Next]_vars

\* The process keeps being scheduled and every probe returns: most waits have
\* a timeout; that the few without one return (the lines read from a browser's
\* process, group_09.py:1649, 1828, group_13.py:1234) is assumed.  Nothing
\* forces a failure, and nobody has to start a run.
FairSpec == Spec /\ WF_vars(Step)
----------------------------------------------------------------------------
\* Properties.

\* Every variable keeps its type; in particular report.json and done.json are
\* missing or whole, never a text cut off in the middle of a write.
TypeOK ==
  /\ run \in 0..MaxRuns
  /\ stage \in Stages
  /\ group \in 1..GroupCount + 1
  /\ test \in Nat
  /\ part \in Parts
  /\ event \in Events
  /\ capability \in [Parts -> Outcomes \cup {"none"}]
  /\ results \in Seq(Capabilities)
  /\ DOMAIN groupResults \subseteq Groups
  /\ \A g \in DOMAIN groupResults : groupResults[g] \in Seq(Capabilities)
  /\ log \in Seq(Lines)
  /\ report.kind \in {"missing", "whole"}
  /\ reportTmp.kind \in {"missing", "partial", "whole"}
  /\ done.kind \in {"missing", "whole"}
  /\ doneTmp.kind \in {"missing", "partial", "whole"}

\* Whoever finds report.json finds the results of one run on every test of
\* every enabled group, each probed all three ways, although runs may have
\* stopped at any step and left their files behind (run_all_groups, run_group,
\* _write_json_atomically).
ReportIsComplete ==
  report.kind = "whole" => IsCompleteResult(report.results)

\* done.json is never ahead of report.json: the run it stands for, or a later
\* one, has its report in place (the order of the writes in run_from_files,
\* which no crash and no later run may upset).
DoneFollowsReport ==
  done.kind = "whole" => /\ report.kind = "whole"
                         /\ report.run >= done.run

\* A process that returned 0 left its own report and its own marker, not the
\* ones an earlier run in the same directory left (cli.main).
ExitMeansPublished ==
  stage = "exited" => /\ report.kind = "whole" /\ report.run = run
                      /\ done.kind = "whole" /\ done.run = run

\* What a reader of status.ndjson learns: an event "shell_completed" names no
\* test, so it is about the last "capability_started" above it.
ReplayLine(state, line) ==
  LET heard(p) == IF state.at = <<>> THEN state
                  ELSE [state EXCEPT !.known[state.at][p] = line.outcome]
  IN CASE line.kind = "capability_started" ->
            LET at == <<line.group, line.test>>
            IN [at |-> at,
                known |-> [c \in DOMAIN state.known \cup {at} |->
                            IF c = at THEN NoCapability ELSE state.known[c]]]
       [] line.kind = "shell_completed" -> heard("shell")
       [] line.kind = "tool_completed" -> heard("tool")
       [] line.kind = "alternates_completed" -> heard("alternates")
       [] OTHER -> state

Unread == [at |-> <<>>, known |-> <<>>]

\* What the reader knows after the last line.
Replay(lines) ==
  LET after[n \in 0..Len(lines)] ==
        IF n = 0 THEN Unread ELSE ReplayLine(after[n - 1], lines[n])
  IN after[Len(lines)].known

\* Reading the whole status.ndjson gives exactly the results of the report
\* just written: what stopped runs left in the file, a cut-off line included,
\* hides and changes nothing (StatusFileReporter, CompositeReporter, run_group).
LogReplaysReport ==
  stage \in {"writeDone", "replaceDone", "announce", "exited"} =>
    LET known == Replay(log)
    IN /\ DOMAIN known = UNION {{g} \X (1..TestCount[g]) : g \in EnabledGroups}
       /\ \A c \in DOMAIN known : known[c] = report.results[c[1]][c[2]]

\* The directory behaves as ReportPublication promises.
Publication == INSTANCE ReportPublication WITH
  published <- IF report.kind = "whole"
                 THEN [run |-> report.run, results |-> report.results]
                 ELSE [run |-> 0, results |-> <<>>],
  announced <- IF done.kind = "whole" THEN done.run ELSE 0

\* Runs publish whole reports, then announce them, and take nothing back.
PublicationSpec == Publication!Spec

\* A run that started comes to an end: the loops always move on to the next
\* group, test and invocation.
RunEnds == stage \notin Stopped ~> stage \in Stopped
============================================================================
