--------------------------- MODULE CapabilityProbes ---------------------------
(***************************************************************************)
(* What becomes of one capability (run_group of testing.py): its shell     *)
(* path, its tool path and its alternates, one after the other, and what   *)
(* they leave behind for the next run of the tester.                       *)
(*                                                                         *)
(* run_group catches nothing.  An exception that a probe lets through ends *)
(* the run: there is no report, and the local harness keeps its fixtures.  *)
(*                                                                         *)
(* A run can meet the fixtures of an earlier one: sandbox_tester takes a   *)
(* serialized context, and the same context names the same directories.    *)
(* The local harness makes fresh ones for each of its runs.                *)
(***************************************************************************)
EXTENDS Probing, FiniteSets

CONSTANTS
  Capabilities,  \* the capabilities; two with the same paths count once
  Runs           \* bound: how often the tester is run

\* The sequence of run_group.
After == [shell |-> "tool", tool |-> "alternates", alternates |-> "finished"]

\* What a path is written in; and that a probe reports an effect that took
\* place as Allowed, and that every answer of every path is an answer that
\* the path was written for.
Handlers == Seq(STRING \X Outcomes)

CapabilitiesAssumption ==
  \A t \in Capabilities : \A p \in Paths :
    LET path == t[p]
    IN /\ "done" \in DOMAIN path.on /\ "stale" \notin DOMAIN path.on
       /\ \A a \in DOMAIN path.on : path.on[a] \in Outcomes \cup {"never"}
       /\ path.on.done = "Allowed"
       /\ path.catch \in Handlers /\ path.prepare.catch \in Handlers
       /\ Distinguished(path) \cap path.raises = {}
       /\ path.tries \in Nat \ {0} /\ path.count \in [Systems -> Nat]
       /\ path.idle \in Outcomes /\ path.otherwise \in Outcomes
ASSUME CapabilitiesAssumption
ASSUME RunsAssumption == Runs \in Nat \ {0}

VARIABLES
  test,        \* the capability
  os,          \* the operating system
  configured,  \* what is configured of the things that it needs
  run,         \* the number of the run
  at,          \* the path under way, or "finished", or "escaped"
  begun,       \* whether the alternates have been prepared
  left,        \* how many tries, or attempts, the path has left
  met,         \* the answers that the path has met
  last,        \* the outcome of the last try
  reported,    \* the last result that was handed to the reporter
  raised,      \* the exceptions that have ended a run: <<path, exception>>
  remains      \* what the paths have left behind: <<path, thing>>

vars == <<test, os, configured, run, at, begun, left, met, last, reported,
          raised, remains>>

None == [path |-> "none", outcome |-> "none", met |-> {}]

\* The fields of the context (CapabilityContext) that may be left out.
ContextFields ==
  {"mounted_shared_directory", "allowed_domain", "denied_domain",
   "allowed_local_address", "denied_local_address",
   "allowed_localnet_address", "denied_localnet_address",
   "allowed_intranet_target", "denied_intranet_target",
   "allowed_database_address", "denied_database_address",
   "container_runtime_socket", "local_dev_server_url",
   "local_model_server_url", "metadata_endpoint_url",
   "dns_exfiltration_domain", "http_exfiltration_domain",
   "http_exfiltration_header", "websocket_exfiltration_url",
   "smtp_exfiltration_url", "ssh_agent_socket", "browser_debugging_url",
   "browser_executable", "existing_browser_profile",
   "allowed_git_repository", "denied_git_repository", "git_remote_url",
   "output_directory"}

\* What a path needs beside an operating system.
Settings(t) ==
  (UNION {t[p].needs : p \in Paths}) \ (Systems \cup {"never"})

Probe == test[at]
Applicable(p) == Applies(test[p], os, configured)

\* How often the body of a path is run at most.
Budget(p) ==
  IF p = "alternates" THEN test[p].count[os]
  ELSE test[p].tries

\* An earlier run of this path has left its things in the fixtures.
Littered ==
  \E r \in remains : r[1] = at /\ r[2].where = "fixtures"

Answers ==
  Probe.raises \cup
    IF Littered /\ Probe.again[os] # {} THEN Probe.again[os]
    ELSE Distinguished(Probe)

\* The try has an outcome for the answer.
Taken(answer) ==
  \/ answer \in Distinguished(Probe) \cup {"stale"}
  \/ Handles(Probe.catch, answer)

\* (Defect: only a denial counts as a try.)
RemainingOfDenials(outcome) ==
  IF outcome = "Denied" THEN left - 1 ELSE left

\* A list of alternates goes on after every attempt, a retry only after a
\* failure.
Remaining(outcome) ==
  IF at # "alternates" /\ outcome \in {"Allowed", "N/A"} THEN 0 ELSE left - 1

\* The things of a path that may be left when it is ended.
Left(things) == {<<at, t>> : t \in things}

Start(p) ==
  /\ at' = p
  /\ begun' = FALSE
  /\ left' = IF p \in Paths THEN Budget(p) ELSE 0
  /\ met' = {}
  /\ last' = "none"

Report(outcome) ==
  /\ reported' = [path |-> at, outcome |-> outcome, met |-> met]
  /\ Start(After[at])

Escape(e) ==
  /\ at' = "escaped"
  /\ raised' = raised \cup {<<at, e>>}
  /\ UNCHANGED <<begun, left, met, last>>

-----------------------------------------------------------------------------
Init ==
  /\ test \in Capabilities
  /\ os \in Systems
  /\ configured \in SUBSET Settings(test)
  /\ run = 1
  /\ at = "shell"
  /\ begun = FALSE
  /\ left = Budget("shell")
  /\ met = {}
  /\ last = "none"
  /\ reported = None
  /\ raised = {}
  /\ remains = {}

\* What the path needs is not there: N/A before anything is done.
NotConfigured ==
  /\ at \in Paths
  /\ ~Applicable(at)
  /\ Report("N/A")
  /\ UNCHANGED <<test, os, configured, run, raised, remains>>

\* The alternates are built, and what they share is prepared, or is not.
Prepare ==
  /\ at = "alternates" /\ ~begun /\ Applicable(at)
  /\ \/ /\ begun' = TRUE
        /\ reported' = None
        /\ UNCHANGED <<at, left, met, last, raised, remains>>
     \/ /\ \E e \in Probe.prepare.raises :
             IF Handles(Probe.prepare.catch, e)
             THEN Report(Handled(Probe.prepare.catch, e)) /\ UNCHANGED raised
             ELSE Escape(e) /\ reported' = None
        /\ \E things \in SUBSET Probe.prepare.leaves :
             remains' = remains \cup Left(things)
  /\ UNCHANGED <<test, os, configured, run>>

\* (Defect: a loop that does not stop after its last try.)
WorkingOn ==
  /\ at \in Paths
  /\ Applicable(at)
  /\ at = "alternates" => begun

Working ==
  /\ at \in Paths
  /\ Applicable(at)
  /\ at = "alternates" => begun
  /\ left > 0

\* The body of a path, or one alternate attempt.  What it makes is there if
\* it was done, and may be there if it was not; what it undoes itself may be
\* left by an exception or by an undoing that fails, whose result no probe
\* looks at.
Attempt ==
  /\ Working
  /\ \E answer \in Answers :
       /\ met' = met \cup {answer}
       /\ IF Taken(answer)
          THEN /\ last' = Judged(Probe, answer)
               /\ left' = Remaining(Judged(Probe, answer))
               /\ UNCHANGED <<at, raised>>
          ELSE /\ at' = "escaped"
               /\ raised' = raised \cup {<<at, answer>>}
               /\ UNCHANGED <<left, last>>
       /\ \E things \in SUBSET Probe.makes :
            /\ answer = "done" =>
                 {t \in Probe.makes : t.undone # "inline"} \subseteq things
            /\ remains' = remains \cup Left(things)
  /\ reported' = None
  /\ UNCHANGED <<test, os, configured, run, begun>>

\* The outcome of the alternates, or of the last try.
Verdict ==
  IF at = "alternates" THEN Total(Probe, {Judged(Probe, a) : a \in met})
  ELSE last

\* (Defect: what the finally has to undo is undone after a success only.)
UndoneAfterSuccess ==
  {r \in remains :
     r[1] = at /\ r[2].undone = "finally" => Verdict # "Allowed"}

\* What is left when the finally of the path has undone its things.
Undone == {r \in remains : r[1] = at => r[2].undone # "finally"}

\* The path returns: its finally has undone what it had to.
Conclude ==
  /\ at \in Paths
  /\ Applicable(at)
  /\ at = "alternates" => begun
  /\ left = 0
  /\ Report(Verdict)
  /\ remains' = Undone
  /\ UNCHANGED <<test, os, configured, run, raised>>

\* An exception from what is outside the try: from the preparation, when
\* nothing is made yet, or from the finally, which then leaves its things.
Raise ==
  /\ at \in Paths
  /\ Applicable(at)
  /\ \E e \in Probe.unguarded[os] : Escape(e)
  /\ reported' = None
  /\ UNCHANGED <<test, os, configured, run, remains>>

(***************************************************************************)
(* The next run: of the tester on the same context, or of the local        *)
(* harness, which makes its fixtures anew.                                 *)
(***************************************************************************)
Ended == at \in {"finished", "escaped"}

NextRun ==
  /\ Ended
  /\ run < Runs
  /\ run' = run + 1
  /\ Start("shell")
  /\ reported' = None
  /\ UNCHANGED <<test, os, configured, raised>>

RunAgain == NextRun /\ UNCHANGED remains

RunAfresh ==
  /\ NextRun
  /\ remains' = {r \in remains : r[2].where # "fixtures"}

Terminated == Ended /\ run = Runs /\ UNCHANGED vars

-----------------------------------------------------------------------------
Step == NotConfigured \/ Prepare \/ Attempt \/ Conclude \/ Raise
Next == Step \/ RunAgain \/ RunAfresh \/ Terminated

\* A path under way goes on.  The commands and most calls have a time limit;
\* that the others return is an assumption (the first line that a browser
\* writes, or the port that a child listens on, is read without one).
Spec == Init /\ [][Next]_vars /\ WF_vars(Step)

-----------------------------------------------------------------------------
Answer == {"done", "nothing", "refused", "absent", "stale"}

TypeOK ==
  /\ os \in Systems
  /\ configured \subseteq Settings(test)
  /\ run \in 1..Runs
  /\ at \in Paths \cup {"finished", "escaped"}
  /\ begun \in BOOLEAN
  /\ left \in Nat
  /\ last \in Outcomes \cup {"none"}
  /\ reported.path \in Paths \cup {"none"}
  /\ reported.outcome \in Outcomes \cup {"none"}
  /\ \A r \in remains : r[1] \in Paths

\* An effect that took place is never hidden: a path that met a success is
\* Allowed, whatever else it met before or after it (the retries of the
\* downloads and the sum over the alternates in every _run_..._attempts).
SuccessIsSeen == "done" \in reported.met => reported.outcome = "Allowed"

\* A refusal, an absence or an exception alone is never reported as Allowed;
\* only the exceptions that are an answer, an HTTP status or "no such name",
\* count as a success of the connection.
RefusalIsNotAllowed ==
  reported.outcome = "Allowed" =>
    reported.met \cap ({"done", "nothing", "stale"} \cup ServerAnswers) # {}

\* A shell or a tool that was refused, and met nothing else, does not call
\* the capability not applicable.
RefusalIsApplicable ==
  /\ reported.path \in {"shell", "tool"}
  /\ reported.met # {}
  /\ reported.met \subseteq {"refused"} \cup Refusals
  => reported.outcome # "N/A"

\* The paths of a capability ask for the same configuration: once one of
\* them has tried something, no other one that exists on the platform misses
\* a field of the context.
PathsAgree ==
  met # {} => \A p \in Paths :
    test[p].needs \cap ContextFields \subseteq configured

\* What is left behind is accounted for, in this run and in every later one.
\* Outside the fixtures it is something that the probe tries to undo, or a
\* result in the output directory that was configured; and what the finally
\* of a path undoes is left only while that path is under way, or by an
\* exception that left that path and ended its run.
RemainsAreExplained ==
  \A r \in remains :
    /\ r[2].where = "outside" => r[2].undone # "never"
    /\ r[2].where = "output" => "output_directory" \in configured
    /\ r[2].undone = "finally" => r[1] = at \/ \E x \in raised : x[1] = r[1]

\* The body of a probe has a handler for whatever it may raise: a run is
\* ended only by what a probe does outside its try.
BodiesAreGuarded ==
  \A x \in raised :
    \/ x[2] \in test[x[1]].unguarded[os]
    \/ x[1] = "alternates" /\ x[2] \in test[x[1]].prepare.raises

\* Every run of the tester comes to an end: no probe retries for ever, and an
\* exception leaves nothing waiting for the rest.
EveryRunEnds == at \in Paths ~> Ended

\* README.md:53 "Allowed: the action succeeded".
AllowedIsEarned ==
  reported.outcome = "Allowed" =>
    reported.met \cap ({"done"} \cup ServerAnswers) # {}

\* README.md:56 "Error: the probe failed in a way that prevents a confident
\* conclusion": alternates of which each attempt is an Error are no denial.
ErrorsAreNotDenials ==
  /\ reported.path = "alternates"
  /\ reported.met # {}
  /\ \A a \in reported.met :
       Judged(test["alternates"], a) = "Error"
  => reported.outcome = "Error"
=============================================================================
