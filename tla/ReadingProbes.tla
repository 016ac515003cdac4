---------------------------- MODULE ReadingProbes ----------------------------
(***************************************************************************)
(* The probes that only read: runtime identity (group_01.py), files and    *)
(* directories (group_02.py), disk space (group_04.py), the environment    *)
(* (group_05.py) and the number of processors (group_08.py).               *)
(***************************************************************************)
EXTENDS Probing

(***************************************************************************)
(* group_01.py: runtime identity.                                          *)
(***************************************************************************)
\* _run_runtime_alternate_attempts, _g23_run_identity_alternate_attempts and
\* _g24_run_namespace_alternate_attempts of group_01.py are the same code.
RunRuntimeAttempts == CountingRunner(ExitOrAbsent)
RunIdentityAttempts == CountingRunner(ExitOrAbsent)
RunNamespaceAttempts == CountingRunner(ExitOrAbsent)

WorkingDirectoryAttempts == Attempts(2, 2, RunRuntimeAttempts)
CurrentUserAttempts == Attempts(2, 2, RunRuntimeAttempts)
ProcessIdAttempts == Attempts(2, 2, RunRuntimeAttempts)
OperatingSystemAttempts == Attempts(2, 2, RunRuntimeAttempts)
CpuArchitectureAttempts == Attempts(2, 2, RunRuntimeAttempts)
HostnameAttempts == Attempts(2, 2, RunRuntimeAttempts)
ContainerVmAttempts == Attempts(2, 2, RunRuntimeAttempts)
CommandLineAttempts == Attempts(2, 2, RunRuntimeAttempts)
EnvironmentSummaryAttempts == Attempts(2, 2, RunRuntimeAttempts)
RuntimeMarkerAttempts == Attempts(2, 2, RunIdentityAttempts)
CgroupNamespaceAttempts == Attempts(1, 0, RunIdentityAttempts)
ConfinementStatusAttempts == Attempts(1, 0, RunIdentityAttempts)
LinuxCapabilityAttempts == Attempts(2, 0, RunIdentityAttempts)
WindowsIdentityAttempts == Attempts(0, 2, RunIdentityAttempts)
HostIdentityAttempts == Attempts(2, 2, RunIdentityAttempts)
ProcessNamespaceAttempts == Attempts(1, 0, RunNamespaceAttempts)

G01_T01 == Capability(ShellStatus, PythonCall, WorkingDirectoryAttempts)
G01_T02 == Capability(ShellStatus, PythonCall, CurrentUserAttempts)
G01_T03 == Capability(ShellStatus, PythonCall, ProcessIdAttempts)
G01_T04 == Capability(ShellStatus, PythonCall, OperatingSystemAttempts)
G01_T05 == Capability(ShellStatus, PythonCall, CpuArchitectureAttempts)
G01_T06 == Capability(ShellStatus, PythonCall, HostnameAttempts)
G01_T07 == Capability(ShellStatus, PythonCall, ContainerVmAttempts)
G01_T08 == Capability(ShellStatus, PythonCall, CommandLineAttempts)
G01_T09 == Capability(ShellStatus, PythonCall, EnvironmentSummaryAttempts)
G01_T10 == Capability(Command(ExitStatus, Expiring), Call(Returned, Failing),
                      RuntimeMarkerAttempts)

\* The helpers answer 127 for the other operating system, which is N/A.
G01_T11 == Capability(Needs({"Linux"}, Command(ExitOrAbsent, Expiring)),
                      Needs({"Linux"}, Call(Returned, Failing)),
                      CgroupNamespaceAttempts)
G01_T12 == Capability(Needs({"Linux"}, Command(ExitOrAbsent, Expiring)),
                      Needs({"Linux"}, Call(Returned, Failing)),
                      ConfinementStatusAttempts)
G01_T13 == Capability(Needs({"Linux"}, Command(ExitOrAbsent, Expiring)),
                      Needs({"Linux"}, Call(Returned, Failing)),
                      LinuxCapabilityAttempts)
G01_T14 == Capability(Needs({"Windows"}, Command(ExitOrAbsent, Expiring)),
                      Needs({"Windows"}, Call(Returned, Failing)),
                      WindowsIdentityAttempts)
G01_T15 == Capability(Command(ExitStatus, Expiring), Call(Returned, Failing),
                      HostIdentityAttempts)
G01_T16 == Capability(Needs({"Linux"}, Command(ExitOrAbsent, Expiring)),
                      Needs({"Linux"}, Call(Returned, Failing)),
                      ProcessNamespaceAttempts)

(***************************************************************************)
(* group_02.py: files and directories.                                     *)
(***************************************************************************)
RunPathAttempts == PlainRunner(ExitStatus)
RunSurfaceAttempts == CountingRunner(ExitOrAbsent)

FileReadAttempts == Attempts(3, 2, RunPathAttempts)
MetadataReadAttempts == Attempts(2, 2, RunPathAttempts)
DirectoryListingAttempts == Attempts(2, 2, RunPathAttempts)
SurfaceDirectoryAttempts == Attempts(2, 0, RunSurfaceAttempts)
ServiceAccountAttempts == Attempts(1, 0, RunSurfaceAttempts)
MountSurfaceAttempts == Attempts(2, 0, RunSurfaceAttempts)

\* In the allowed directory any exception of the command is an error, and so
\* is one of T01's call; T02's call takes any exception for a denial.
BareShell == Command(ExitStatus, Otherwise)

G02_T01 == Capability(BareShell, Call(Returned, Otherwise),
                      FileReadAttempts)
G02_T02 == Capability(BareShell,
                      Call(Returned, << <<"Exception", "Denied">> >>),
                      DirectoryListingAttempts)
G02_T03 == Capability(BareShell, PythonCall, DirectoryListingAttempts)
G02_T04 == Capability(BareShell, PythonCall, MetadataReadAttempts)
G02_T05 == Capability(BareShell, PythonCall, FileReadAttempts)
G02_T06 == Capability(BareShell, PythonCall, DirectoryListingAttempts)
G02_T07 == Capability(BareShell, PythonCall, FileReadAttempts)
G02_T08 == Capability(BareShell, PythonCall, DirectoryListingAttempts)
G02_T09 ==
  LET shared == {"mounted_shared_directory"}
  IN Capability(Needs(shared, BareShell), Needs(shared, PythonCall),
                Needs(shared, DirectoryListingAttempts))
G02_T10 == Capability(ShellStatus, PythonCall, FileReadAttempts)
G02_T11 == Capability(ShellStatus, PythonCall, MetadataReadAttempts)
G02_T12 == Capability(ShellStatus, PythonCall, FileReadAttempts)

\* The calls of T13 and T14 look at several paths and say what became of
\* them: every one readable, none to look at, or some refused.
G02_T13 == Capability(Needs({"Linux"}, Command(ExitOrAbsent, Expiring)),
                      Needs({"Linux"}, Call(ExitStatus, Failing)),
                      SurfaceDirectoryAttempts)
G02_T14 == Capability(Needs({"Linux"}, Command(ExitOrAbsent, Expiring)),
                      Needs({"Linux"}, Call(ExitOrAbsent, Failing)),
                      ServiceAccountAttempts)
G02_T15 == Capability(Needs({"Linux"}, Command(ExitOrAbsent, Expiring)),
                      Needs({"Linux"}, Call(Returned, Failing)),
                      MountSurfaceAttempts)

(***************************************************************************)
(* group_04.py, group_05.py, group_08.py.                                  *)
(***************************************************************************)
RunDiskSpaceAttempts == CountingRunner(ExitStatus)
DiskSpaceAttempts == Attempts(2, 2, RunDiskSpaceAttempts)
G04_T08 == Capability(ShellStatus, PythonCall, DiskSpaceAttempts)

RunEnvironmentAttempts == PlainRunner(ExitStatus)
EnvironmentNameAttempts == Attempts(3, 2, RunEnvironmentAttempts)
PathVariableAttempts == Attempts(3, 3, RunEnvironmentAttempts)
G05_T01 == Capability(ShellStatus, PythonCall, EnvironmentNameAttempts)
G05_T04 == Capability(ShellStatus,
                      Call([Returned EXCEPT !.nothing = "Denied"], Forbidden),
                      PathVariableAttempts)

\* Credentials of AI services: no name found is N/A, for the whole list of
\* alternates too, whatever the attempts that found none came to.
NamesFound == [Returned EXCEPT !.nothing = "N/A"]
RunAiCredentialAttempts ==
  [CountingRunner([NamesFound EXCEPT !.refused = "Denied"])
     EXCEPT !.otherwise = "N/A"]
AiCredentialAttempts == Attempts(2, 2, RunAiCredentialAttempts)
G05_T05 == Capability(Command([NamesFound EXCEPT !.refused = "Denied"],
                              Missing(Expiring)),
                      Call(NamesFound, Failing),
                      AiCredentialAttempts)

RunCpuCountAttempts == CountingRunner(ExitStatus)
CpuCountAttempts == Attempts(3, 2, RunCpuCountAttempts)
G08_T01 == Capability(ShellStatus, Call(Checked, Forbidden), CpuCountAttempts)
=============================================================================
