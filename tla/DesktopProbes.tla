---------------------------- MODULE DesktopProbes ----------------------------
(***************************************************************************)
(* The probes of inter-process communication (group_11.py), of the user    *)
(* interface (group_12.py) and of the browser (group_13.py).               *)
(***************************************************************************)
EXTENDS Probing

(***************************************************************************)
(* group_11.py: inter-process communication.                               *)
(***************************************************************************)
RunIpcAttempts == CountingRunner(ExitOrAbsent)

CreateSocketAttempts == Attempts(2, 2, RunIpcAttempts)
SharedMemoryAttempts == Attempts(1, 1, RunIpcAttempts)
MessageQueueAttempts == Attempts(2, 2, RunIpcAttempts)
ClipboardAttempts == Attempts(1, 1, RunIpcAttempts)
DesktopChannelAttempts == Attempts(1, 1, RunIpcAttempts)
BrowserDebuggingAttempts == Attempts(1, 1, RunIpcAttempts)

\* The probe listens itself.  When no attempt connects, its accept times out
\* and the whole list is an error.
ConnectSocketAttempts ==
  [Attempts(2, 2, RunIpcAttempts) EXCEPT
     !.idle = "Error", !.otherwise = "Error",
     !.unguarded = [os \in Systems |-> {"OSError"}]]

\* A child listens, and the probe connects to the port that it writes; the
\* alternates have both in one script.
G11_T01 ==
  Capability(WithChild(Command([Returned EXCEPT !.refused = "Error"], Failing)),
             Request(Returned, Failing), Outside(CreateSocketAttempts))

\* A child connects.  When it is refused, the accept of the probe times out,
\* and that comes before the child's exit status; only a child that fails
\* after it was connected ("nothing") is a denial.
G11_T02 ==
  Capability(
    Command([Returned EXCEPT !.refused = "Error", !.nothing = "Denied"], Failing),
    Request(Checked, Failing), ConnectSocketAttempts)

\* A block of shared memory, unlinked in a finally; the alternates make it
\* outside any try that has handlers.
G11_T03 ==
  Capability(
    Unlinking("outside", Command(Verified, Expiring)),
    Unlinking("outside", Raising({"TimeoutError"}, Call(Checked, Failing))),
    Unguarded({"Exception"}, Unlinking("outside", SharedMemoryAttempts)))

\* A script in the temporary directory, unlinked in a finally.  One that could
\* not be written to its end has no name yet there: the command's handlers
\* take the error and the file stays, before the alternates the error escapes.
G11_T04 ==
  Capability(Outside(Unguarded({"PermissionError", "OSError"},
               Command(Verified, Expiring))),
             Raising({"TimeoutError"}, Call(Checked, Failing)),
             Unguarded(FileErrors, Unlinking("outside", MessageQueueAttempts)))

\* The text of the clipboard is replaced and put back.
G11_T05 ==
  Capability(Outside(Command([Verified EXCEPT !.absent = "N/A"], Expiring)),
             Outside(Call(Checked, Failing)), Outside(ClipboardAttempts))
G11_T06 == Capability(Command(ExitOrAbsent, Timed), Call(Returned, Failing),
                      DesktopChannelAttempts)
G11_T08 ==
  LET url == {"browser_debugging_url"}
  IN Capability(Needs(url, Command(ExitOrAbsent, Timed)),
                Needs(url, Request(Returned, Failing)),
                Needs(url, BrowserDebuggingAttempts))

(***************************************************************************)
(* group_12.py: a screenshot, a window, the active window's title and the  *)
(* accessibility channel.                                                  *)
(***************************************************************************)
RunUiAttempts == CountingRunner(ExitOrAbsent)

UserInterface == Capability(Command(ExitOrAbsent, Expiring),
                            Call(Returned, Failing),
                            Attempts(1, 1, RunUiAttempts))

\* The shell's screenshot is a temporary file, removed when the script ends.
G12_T01 ==
  Capability(Outside(UserInterface.shell), UserInterface.tool,
             Outside(UserInterface.alternates))
G12_T07 == UserInterface
G12_T08 == UserInterface
G12_T09 == UserInterface

(***************************************************************************)
(* group_13.py: the browser, with a profile of its own or a copy of the    *)
(* existing one in the fixtures.  What they make there is removed by the   *)
(* body or by a removal that ignores its errors.                           *)
(***************************************************************************)
RunBrowserAttempts == CountingRunner(ExitOrAbsent)
BrowserAttempt == Attempts(1, 1, RunBrowserAttempts)

Browser == {"browser_executable"}
Profile == {"existing_browser_profile"}

\* A browser of its own runs beside the command or the call, on a profile, a
\* script or a page in the fixtures.
Driving(path) ==
  Makes({Thing("fixtures", "inline"), Thing("outside", "inline")}, path)

\* A new profile; its directory is made outside the try, but inside the
\* attempt of the alternates.
G13_T01 ==
  LET launch == Needs(Browser, InTemporaryDirectory(
                        Command(ExitStatus, Expiring)))
  IN Capability(launch, launch, Needs(Browser, InFixtures(BrowserAttempt)))

\* The existing profile itself.
G13_T02 ==
  LET both == Browser \cup Profile
      launch == Needs(both, Command(ExitStatus, Expiring))
  IN Capability(launch, launch, Needs(both, BrowserAttempt))

\* Bookmarks, history, cookies, sessions of the existing profile; history
\* and cookies are databases, of which a copy is read.
ProfileFile ==
  Capability(Needs(Profile, Command(ExitOrAbsent, Expiring)),
             Needs(Profile, Call(Returned, Failing)),
             Needs(Profile, BrowserAttempt))
ProfileDatabase == [p \in DOMAIN ProfileFile |-> InFixtures(ProfileFile[p])]

G13_T03 == ProfileFile
G13_T04 == ProfileDatabase
G13_T05 == ProfileDatabase
G13_T06 == ProfileFile
G13_T07 ==
  Capability(Needs(Browser, Driving(Command(ExitOrAbsent, Expiring))),
             Needs(Browser, Driving(
               Raising({"TimeoutExpired"}, Call(Returned, Expiring)))),
             Needs(Browser, Driving(BrowserAttempt)))

\* The browser runs a page by the shell's script, which is unlinked in the
\* finally if it could be written; the unlinking may fail.  For T09 and T10 a
\* page that reports no success to the call is a denial.
Page(catch) ==
  Capability(
    Needs(Browser, Unguarded({"PermissionError", "OSError"},
      Driving(Command(ExitStatus, Expiring)))),
    Needs(Browser, Driving(
      Raising({"RuntimeError", "TimeoutExpired"}, Call(Returned, catch)))),
    Needs(Browser, Driving(BrowserAttempt)))

G13_T08 == Page(Expiring)
G13_T09 == Page(<< <<"RuntimeError", "Denied">> >> \o Expiring)
G13_T10 == Page(<< <<"RuntimeError", "Denied">> >> \o Expiring)

\* The database of passwords is looked for outside the try.
G13_T11 ==
  LET Login(path) == Needs({"login_data"}, Unguarded({"PermissionError"}, path))
  IN Capability(Login(Command(ExitOrAbsent, Expiring)),
                Login(Call(Returned, Failing)),
                Login(BrowserAttempt))

\* Screenshots of a page, by the browser and by Playwright: results, which
\* stay in the output directory.  One that a file stands in for is deleted or
\* replaced by the next.
Screenshot == Thing("output", "never")

\* The command makes its profile outside the try, the call inside.
G13_T12 ==
  LET settings == Browser \cup {"allowed_domain", "output_directory"}
      things == {Screenshot, Thing("fixtures", "inline"),
                 Thing("outside", "inline")}
      Capturing(path) == Needs(settings, Makes(things, path))
  IN Capability(
       Capturing(Unguarded(FileErrors, Command(Strict, Expiring))),
       Capturing(Raising({"TimeoutExpired"}, Call(Returned, Expiring))),
       NoAlternates)

\* A browser that Playwright has not installed is told from one that may not
\* be started by the text of its exception.
G13_T13 ==
  LET settings == {"allowed_domain", "output_directory"}
      Capturing(path) == Needs(settings, Makes({Screenshot}, path))
  IN Capability(
       Capturing(Command([Strict EXCEPT !.absent = "N/A"], Expiring)),
       Capturing(Raising({"ModuleNotFoundError"},
         Call(ExitOrAbsent,
              << <<"ModuleNotFoundError", "N/A">> >> \o Failing))),
       NoAlternates)
=============================================================================
