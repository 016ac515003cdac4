------------------------------- MODULE Probing -------------------------------
(***************************************************************************)
(* What the probes of sandbox_tester are written in.                       *)
(*                                                                         *)
(* A capability is tested along three paths: a shell command, a call from  *)
(* Python and a list of alternate shell attempts.  Each path is the same   *)
(* few lines of code with other data: leave early where the test does not  *)
(* apply, prepare, try, look at what came back, turn an exception into an  *)
(* outcome, clean up.  A path is a record of those choices, and the        *)
(* modules of probes give one definition per capability.  The text of      *)
(* commands, summaries and evidence is left out.                           *)
(*                                                                         *)
(* What the world does is an answer:                                       *)
(*   "done"     the effect took place (exit status 0, the call returned)   *)
(*   "nothing"  exit status 0, or the call returned, without the effect    *)
(*              that the probe looks for                                   *)
(*   "refused"  another exit status, or a helper that reports a refusal    *)
(*   "absent"   exit status 127, or a helper that finds nothing to test    *)
(*   "stale"    the probe finds the effect of an earlier run               *)
(* or the class of the exception that ends the try.                        *)
(***************************************************************************)
EXTENDS Naturals, Sequences

Outcomes == {"Allowed", "Denied", "N/A", "Error"}
Systems == {"Linux", "Windows"}
Paths == {"shell", "tool", "alternates"}

(***************************************************************************)
(* Exceptions, as far as a handler of a probe tells them apart.            *)
(***************************************************************************)
\* The subclasses of OSError; TimeoutExpired is none of them.
OSErrors == {"OSError", "PermissionError", "FileNotFoundError",
             "FileExistsError", "TimeoutError", "gaierror", "NoSuchName",
             "URLError", "HTTPError"}

\* A handler for class c takes an exception of class e.  "NoSuchName" is the
\* gaierror with which a resolver answers that there is no such name or no
\* such record (EAI_NONAME, EAI_NODATA).
IsA(e, c) ==
  \/ c \in {e, "Exception"}
  \/ c = "OSError" /\ e \in OSErrors
  \/ c = "gaierror" /\ e = "NoSuchName"
  \/ c = "URLError" /\ e = "HTTPError"

\* The exceptions that are a server's answer: the connection was there.
ServerAnswers == {"HTTPError", "NoSuchName"}

\* What may end a child process's call, a call of Python, a network call.
CommandErrors == {"PermissionError", "FileNotFoundError", "OSError",
                  "TimeoutExpired", "Exception"}
CallErrors == {"PermissionError", "FileNotFoundError", "OSError", "Exception"}
NetworkErrors ==
  CallErrors \cup {"TimeoutError", "gaierror", "URLError", "HTTPError"}

\* Preparing files and directories.
FileErrors == {"PermissionError", "FileNotFoundError", "OSError"}

\* The exceptions that say that the sandbox refused.
Refusals == {"PermissionError"}

(***************************************************************************)
(* Handlers: a sequence of <<class, outcome>>, the first match counts.     *)
(***************************************************************************)
Handles(handlers, e) == \E i \in DOMAIN handlers : IsA(e, handlers[i][1])

Handled(handlers, e) ==
  LET first == CHOOSE i \in DOMAIN handlers :
                 /\ IsA(e, handlers[i][1])
                 /\ \A j \in 1..(i - 1) : ~IsA(e, handlers[j][1])
  IN handlers[first][2]

\* The lists of handlers that many probes share.
Otherwise == << <<"Exception", "Error">> >>
Forbidden == << <<"PermissionError", "Denied">> >> \o Otherwise
Timed == << <<"PermissionError", "Denied">>, <<"TimeoutExpired", "Denied">> >>
         \o Otherwise

\* (Defect: no handler for other exceptions.)
FailingOnly == << <<"PermissionError", "Denied">>, <<"OSError", "Denied">> >>
Failing == << <<"PermissionError", "Denied">>, <<"OSError", "Denied">> >>
           \o Otherwise
Expiring == << <<"PermissionError", "Denied">>,
               <<"TimeoutExpired", "Denied">>, <<"OSError", "Denied">> >>
            \o Otherwise
BadAddress(handlers) == << <<"ValueError", "N/A">> >> \o handlers

\* (Defect: whatever the system refuses is taken for a missing program.)
MissingAnyOs(handlers) == << <<"OSError", "N/A">> >> \o handlers
Missing(handlers) == << <<"FileNotFoundError", "N/A">> >> \o handlers

(***************************************************************************)
(* Judgements: the outcome for each answer that is no exception, or        *)
(* "never" when the probe does not tell that answer from the others.       *)
(***************************************************************************)
\* A call that returns has succeeded; or its effect is looked at.
Returned == [done |-> "Allowed", nothing |-> "never", refused |-> "never",
             absent |-> "never"]
Checked == [Returned EXCEPT !.nothing = "Error"]
\* The exit status alone; with 127 for "nothing to test".
ExitStatus == [Returned EXCEPT !.refused = "Denied"]
ExitOrAbsent == [ExitStatus EXCEPT !.absent = "N/A"]
\* The effect first, then the exit status.
Verified == [ExitStatus EXCEPT !.nothing = "Error"]
Strict == [ExitStatus EXCEPT !.nothing = "Denied"]

(***************************************************************************)
(* A path through one capability.                                          *)
(*   needs    what has to be configured, or the operating system, else the *)
(*            outcome is N/A before anything is done                       *)
(*   unguarded  on each operating system, the exceptions of what is done   *)
(*            outside the try                                              *)
(*   on, catch  judgement and handlers of the try                          *)
(*   tries    how often the body is run until it is Allowed or N/A          *)
(*   raises   the exceptions its body may end with                         *)
(*   makes    what the body makes, see Thing                               *)
(*   again    on each operating system, the answers a rerun meets when an  *)
(*            earlier run has left its things in the fixture directories,  *)
(*            beside the exceptions; {} if that changes nothing            *)
(* and, for a list of alternates,                                          *)
(*   prepare  what is done once before the attempts, with handlers of its  *)
(*            own; an exception that they do not take escapes, and what    *)
(*            had been made by then is left                                *)
(*   count    the number of attempts on each operating system              *)
(*   idle     the outcome when every attempt was N/A                       *)
(*   otherwise  the outcome of any other list without a success            *)
(***************************************************************************)
\* where: "fixtures" (the allowed or denied directory), "output" (the
\* configured output directory), "outside" (the temporary directory, a
\* process that runs beside the command or the call, a setting, a service).
\* undone: "never"; "inline", by the body, unless an exception comes first,
\* or by an undoing whose failure is ignored; "finally", by the finally of
\* the path, whose failure is an exception that nothing takes.
Thing(where, undone) == [where |-> where, undone |-> undone]

Preparation(raises, catch, leaves) ==
  [raises |-> raises, catch |-> catch, leaves |-> leaves]
Nothing == Preparation({}, << >>, {})

Path(on, catch, raises) ==
  [needs |-> {}, unguarded |-> [os \in Systems |-> {}], on |-> on,
   catch |-> catch, raises |-> raises, tries |-> 1, makes |-> {},
   again |-> [os \in Systems |-> {}], prepare |-> Nothing,
   count |-> [os \in Systems |-> 0], idle |-> "N/A", otherwise |-> "Denied"]

Command(on, catch) == Path(on, catch, CommandErrors)
Call(on, catch) == Path(on, catch, CallErrors)
Request(on, catch) == Path(on, catch, NetworkErrors)

Needs(settings, path) == [path EXCEPT !.needs = @ \cup settings]
Unguarded(errors, path) ==
  [path EXCEPT !.unguarded = [os \in Systems |-> path.unguarded[os] \cup errors]]
UnguardedOn(os, errors, path) ==
  [path EXCEPT !.unguarded[os] = @ \cup errors]
Makes(things, path) == [path EXCEPT !.makes = things]
InFixtures(path) == Makes({Thing("fixtures", "inline")}, path)
Outside(path) == Makes({Thing("outside", "inline")}, path)
Keeps(path) == Makes({Thing("fixtures", "never")}, path)
Again(answers, path) == [Keeps(path) EXCEPT !.again = [os \in Systems |-> answers]]
AgainOn(os, answers, path) == [Keeps(path) EXCEPT !.again[os] = answers]

Retried(n, path) == [path EXCEPT !.tries = n]
\* A child process that is ended in a finally; the wait after its kill has a
\* limit, and nothing takes the exception of that limit.
WithChild(path) ==
  Makes({Thing("outside", "finally")}, Unguarded({"TimeoutExpired"}, path))

\* A file that the finally of the path unlinks, where the unlinking may fail.
Unlinking(where, path) ==
  Makes({Thing(where, "finally")},
        Unguarded({"PermissionError", "OSError"}, path))

\* A temporary directory in the fixtures, made outside the try; the errors of
\* its removal are ignored.
InTemporaryDirectory(path) == InFixtures(Unguarded(FileErrors, path))

\* The body may end with other exceptions as well.
Raising(errors, path) == [path EXCEPT !.raises = @ \cup errors]

\* The two commonest paths: a command judged by its exit status, and a call
\* of Python that has only to return.
ShellStatus == Command(ExitStatus, Forbidden)
PythonCall == Call(Returned, Forbidden)

\* A path that does not exist on the platform, or for this capability.
NotApplicable == [Call(Returned, Otherwise) EXCEPT !.needs = {"never"}]

Applies(path, os, configured) ==
  \A s \in path.needs :
    IF s \in Systems THEN s = os ELSE s # "never" /\ s \in configured

\* The answers that a path tells apart, and the outcome for an answer.
Distinguished(path) == {a \in DOMAIN path.on : path.on[a] # "never"}
Judged(path, answer) ==
  IF answer = "stale" THEN path.on["done"]
  ELSE IF answer \in Distinguished(path) THEN path.on[answer]
  ELSE Handled(path.catch, answer)

(***************************************************************************)
(* The alternate attempts, and the runner that judges each of them and     *)
(* adds them up.                                                           *)
(***************************************************************************)
Prepared(preparation, path) == [path EXCEPT !.prepare = preparation]
Runner(on, catch, idle) == [Command(on, catch) EXCEPT !.idle = idle]

\* The two runners of most groups: with and without a count of the attempts
\* that were N/A.
CountingRunner(on) == Runner(on, Missing(Expiring), "N/A")
PlainRunner(on) == Runner(on, Missing(Expiring), "Denied")

Attempts(linux, windows, runner) ==
  [runner EXCEPT !.count = [Linux |-> linux, Windows |-> windows]]

NoAlternates == Attempts(0, 0, Runner(ExitStatus, Otherwise, "N/A"))

\* (Defect: an error counts before a success.)
TotalErrorsFirst(runner, outcomes) ==
  IF outcomes = {} THEN "N/A"
  ELSE IF "Error" \in outcomes THEN "Error"
  ELSE IF "Allowed" \in outcomes THEN "Allowed"
  ELSE IF outcomes = {"N/A"} THEN runner.idle
  ELSE runner.otherwise

\* An empty list is N/A, one success makes the whole list a success, and
\* most runners call anything else a denial, errors included.
Total(runner, outcomes) ==
  IF outcomes = {} THEN "N/A"
  ELSE IF "Allowed" \in outcomes THEN "Allowed"
  ELSE IF outcomes = {"N/A"} THEN runner.idle
  ELSE runner.otherwise

Capability(shell, tool, alternates) ==
  [shell |-> shell, tool |-> tool, alternates |-> alternates]
=============================================================================
