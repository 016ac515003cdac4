---------------------------- MODULE ProcessProbes ----------------------------
(***************************************************************************)
(* The probes that run programs (group_06.py), start and control processes *)
(* (group_07.py) and handle packages (group_14.py).                        *)
(***************************************************************************)
EXTENDS Probing

(***************************************************************************)
(* group_06.py: programs.                                                  *)
(***************************************************************************)
RunProgramAttempts == CountingRunner(ExitStatus)

BuiltinCommandAttempts == Attempts(2, 2, RunProgramAttempts)
InterpreterAttempts == Attempts(2, 2, RunProgramAttempts)
ShellCommandAttempts == Attempts(2, 2, RunProgramAttempts)
WithoutShellAttempts == Attempts(2, 2, RunProgramAttempts)
PackageManagerAttempts == Attempts(3, 2, RunProgramAttempts)
CompileAttempts == Attempts(2, 2, RunProgramAttempts)
TestRunnerAttempts == Attempts(2, 3, RunProgramAttempts)
AdminToolAttempts == Attempts(2, 3, RunProgramAttempts)
NewScriptAttempts == Attempts(2, 2, RunProgramAttempts)
NativeLibraryAttempts == Attempts(1, 1, RunProgramAttempts)
RuntimeImportAttempts == Attempts(2, 2, RunProgramAttempts)
OsApiAttempts == Attempts(2, 2, RunProgramAttempts)
PowerShellModeAttempts == Attempts(2, 2, RunProgramAttempts)

\* A program whose output is looked at, run by the shell and by Python.
Program == Command(Verified, Forbidden)
\* "No module named" in the output: the tool is not installed.
Tool == Command(ExitOrAbsent, Forbidden)
\* A program written to the fixtures, outside the try, under a fresh name.
WrittenProgram == Keeps(Unguarded(FileErrors, Program))

G06_T01 == Capability(Program, Program, BuiltinCommandAttempts)
G06_T02 == Capability(Program, Program, InterpreterAttempts)
G06_T03 == Capability(Program, Program, ShellCommandAttempts)
G06_T04 == Capability(Program, Program, WithoutShellAttempts)
G06_T05 == Capability(Tool, Tool, PackageManagerAttempts)
G06_T06 == Capability(WrittenProgram, WrittenProgram, Keeps(CompileAttempts))
G06_T07 == Capability(Tool, Tool, TestRunnerAttempts)
G06_T09 ==
  LET admin == Command(ExitOrAbsent, Missing(Forbidden))
  IN Capability(admin, admin, AdminToolAttempts)
G06_T11 ==
  Capability(WrittenProgram, WrittenProgram, Keeps(NewScriptAttempts))
G06_T12 == Capability(Command(ExitStatus, Missing(Expiring)),
                      Call(Returned, Failing), NativeLibraryAttempts)

\* A module is written to the fixtures, imported, and removed in a finally;
\* on a read-only file system the removal raises too.
G06_T13 ==
  Capability(Unlinking("fixtures", Command(Strict, Missing(Expiring))),
             Unlinking("fixtures", Call(Returned, Failing)),
             Unlinking("fixtures", RuntimeImportAttempts))
G06_T14 == Capability(Command(Strict, Missing(Expiring)),
                      Call(Returned, Failing), OsApiAttempts)
G06_T15 == Capability(Command(Strict, Missing(Expiring)),
                      Command(Returned, Missing(Expiring)),
                      PowerShellModeAttempts)

(***************************************************************************)
(* group_07.py: processes.                                                 *)
(***************************************************************************)
RunProcessAttempts == CountingRunner(ExitStatus)

OwnProcessAttempts == Attempts(2, 2, RunProcessAttempts)
ChildProcessListingAttempts == Attempts(2, 2, RunProcessAttempts)
UserProcessListingAttempts == Attempts(2, 2, RunProcessAttempts)
SystemProcessListingAttempts == Attempts(2, 2, RunProcessAttempts)
StartChildAttempts == Attempts(2, 2, RunProcessAttempts)
TerminateChildAttempts == Attempts(2, 2, RunProcessAttempts)
ProcessPriorityAttempts == Attempts(1, 1, RunProcessAttempts)

G07_T01 == Capability(ShellStatus, PythonCall, OwnProcessAttempts)

\* The alternates start the child first: only a refusal is handled.
G07_T02 ==
  LET start ==
        Preparation(FileErrors, << <<"PermissionError", "Denied">> >>, {})
  IN Capability(WithChild(Program), WithChild(Program),
                Prepared(start, WithChild(ChildProcessListingAttempts)))

\* On Linux the alternates ask for the name of the user when they are built,
\* outside any try.
G07_T03 ==
  Capability(ShellStatus, ShellStatus,
             UnguardedOn("Linux", {"OSError", "Exception"},
                         UserProcessListingAttempts))
G07_T04 == Capability(ShellStatus, ShellStatus, SystemProcessListingAttempts)

\* The alternates of T05, T06 and T08 end their own child by a command.
G07_T05 == Capability(WithChild(Call(Checked, Forbidden)),
                      WithChild(Call(Checked, Forbidden)),
                      Outside(StartChildAttempts))
G07_T06 == Capability(WithChild(Command(Checked, Forbidden)),
                      WithChild(Command(Checked, Forbidden)),
                      Outside(TerminateChildAttempts))
G07_T08 == Capability(WithChild(Program), WithChild(Program),
                      Outside(ProcessPriorityAttempts))

(***************************************************************************)
(* group_14.py: packages and dependencies.                                 *)
(***************************************************************************)
RunPackageAttempts == CountingRunner(ExitOrAbsent)

RegistryMetadataAttempts == Attempts(2, 1, RunPackageAttempts)
EnvironmentInstallAttempts == Attempts(1, 1, RunPackageAttempts)
GlobalProbeAttempts == Attempts(1, 1, RunPackageAttempts)
LocalInstallAttempts == Attempts(1, 1, RunPackageAttempts)
LockfileProbeAttempts == Attempts(1, 1, RunPackageAttempts)
CredentialReadAttempts == Attempts(1, 1, RunPackageAttempts)

G14_T01 == Capability(Command(Strict, Expiring), Request(Returned, Failing),
                      RegistryMetadataAttempts)

\* A virtual environment is built in the directory; when that fails before
\* the alternates, they leave the directory for good.
G14_T02 ==
  LET install == Raising({"CalledProcessError"}, Command(ExitStatus, Expiring))
      build == Preparation(
                 CommandErrors \cup {"CalledProcessError"},
                 << <<"TimeoutExpired", "Denied">>, <<"OSError", "Denied">>,
                    <<"CalledProcessError", "Denied">> >> \o Otherwise,
                 {Thing("fixtures", "never")})
  IN Capability(InTemporaryDirectory(install), InTemporaryDirectory(install),
                Prepared(build,
                         InTemporaryDirectory(EnvironmentInstallAttempts)))

\* A marker in the system's packages, whose directory is looked up outside
\* the try.
G14_T03 ==
  LET Marking(path) == Outside(
        Needs({"site_packages"}, Unguarded({"PermissionError"}, path)))
  IN Capability(Marking(Command(ExitStatus, Expiring)),
                Marking(Call(ExitStatus, Failing)),
                Marking(GlobalProbeAttempts))
G14_T04 ==
  Capability(InTemporaryDirectory(Command(Strict, Expiring)),
             InTemporaryDirectory(Command(Strict, Expiring)),
             InTemporaryDirectory(LocalInstallAttempts))

\* The timestamps of a dependency file are changed and put back.
G14_T06 ==
  LET Touching(path) == Outside(
        Needs({"dependency_file"}, Unguarded({"PermissionError"}, path)))
  IN Capability(Touching(Command(ExitStatus, Expiring)),
                Touching(Call([Returned EXCEPT !.nothing = "Denied"], Failing)),
                Touching(LockfileProbeAttempts))

\* The command, the call and the alternate open each credential file, count
\* the ones that they could not read ("nothing" if they read none), and end
\* well; their outcomes do not depend on the count.
G14_T07 ==
  LET Reading(path) ==
        Needs({"credential_file"}, Unguarded({"PermissionError"},
          [path EXCEPT !.on.nothing = "Allowed"]))
  IN Capability(Reading(Command(ExitStatus, Expiring)),
                Reading(Call(Returned, Failing)),
                Reading(CredentialReadAttempts))
=============================================================================
