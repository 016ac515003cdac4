----------------------------- MODULE SystemProbes -----------------------------
(***************************************************************************)
(* The probes of system settings (group_19.py), devices (group_20.py),     *)
(* scheduling and persistence (group_21.py), logs (group_22.py) and a      *)
(* remote language model (group_30.py).                                    *)
(***************************************************************************)
EXTENDS Probing

\* A command and a call, as most of these probes have them.
Query == Command(ExitStatus, Expiring)
QueryOrAbsent == Command(ExitOrAbsent, Expiring)
Lookup == Call(Returned, Failing)
TimedLookup == Raising({"TimeoutExpired"}, Call(Returned, Expiring))

(***************************************************************************)
(* group_19.py: system settings.                                           *)
(***************************************************************************)
RunSystemAttempts == CountingRunner(ExitOrAbsent)

SystemSummaryAttempts == Attempts(2, 1, RunSystemAttempts)
InstalledSoftwareAttempts == Attempts(1, 1, RunSystemAttempts)
NetworkConfigurationAttempts == Attempts(1, 1, RunSystemAttempts)
FirewallStatusAttempts == Attempts(2, 1, RunSystemAttempts)
RuntimeEnvironmentAttempts == Attempts(1, 1, RunSystemAttempts)
UserSettingAttempts == Attempts(1, 1, RunSystemAttempts)
SystemSettingAttempts == Attempts(1, 1, RunSystemAttempts)
SystemServiceAttempts == Attempts(1, 1, RunSystemAttempts)
StartupItemAttempts == Attempts(1, 1, RunSystemAttempts)
FirewallRuleAttempts == Attempts(1, 1, RunSystemAttempts)
ScheduledTaskAttempts == Attempts(1, 1, RunSystemAttempts)

G19_T01 == Capability(Query, Lookup, SystemSummaryAttempts)
G19_T02 == Capability(QueryOrAbsent, Call(Returned, Missing(Failing)),
                      InstalledSoftwareAttempts)
G19_T03 == Capability(QueryOrAbsent, Lookup, NetworkConfigurationAttempts)
G19_T04 == Capability(QueryOrAbsent, QueryOrAbsent, FirewallStatusAttempts)
G19_T05 == Capability(Query, Lookup, RuntimeEnvironmentAttempts)

\* A setting is written, read and taken away again; the commands end when
\* they time out, whatever they have done by then, and the call, which takes
\* it away in a finally of the body, handles the error of that too.
Setting(attempts) ==
  Capability(Outside(Query), Outside(Lookup), Outside(attempts))
G19_T06 == Setting(UserSettingAttempts)
G19_T07 == Setting(SystemSettingAttempts)
G19_T09 == Setting(StartupItemAttempts)

\* A service, a rule, a task: both paths run the same commands.
Installation(attempts) ==
  Capability(Outside(QueryOrAbsent), Outside(QueryOrAbsent), Outside(attempts))
G19_T08 == Installation(SystemServiceAttempts)
G19_T10 == Installation(FirewallRuleAttempts)
G19_T11 == Installation(ScheduledTaskAttempts)

(***************************************************************************)
(* group_20.py: devices.                                                   *)
(***************************************************************************)
RunHardwareAttempts == CountingRunner(ExitOrAbsent)
SingleHardwareAttempt == Attempts(1, 1, RunHardwareAttempts)

Availability == Capability(QueryOrAbsent, TimedLookup, SingleHardwareAttempt)
G20_T01 == Availability
G20_T03 == Availability
G20_T05 == Availability

\* A frame, or a sample, in a file of the fixtures that is unlinked in a
\* finally; the alternates unlink it within their attempt.
Capture(permission) ==
  LET Recording(path) == Needs({permission}, Unlinking("fixtures", path))
  IN Capability(
       Recording(Command([Strict EXCEPT !.absent = "N/A"], Expiring)),
       Recording(Raising({"ModuleNotFoundError"},
         Call(Returned, << <<"ModuleNotFoundError", "N/A">> >> \o Failing))),
       Needs({permission}, InFixtures(SingleHardwareAttempt)))
G20_T02 == Capture("allow_camera_capture")
G20_T04 == Capture("allow_microphone_capture")

\* _run_device_visibility_shell_test, _run_device_visibility_tool_test.
DeviceVisibility ==
  Capability(QueryOrAbsent, TimedLookup, SingleHardwareAttempt)
G20_T07 == DeviceVisibility
G20_T08 == DeviceVisibility
G20_T09 == DeviceVisibility
G20_T10 == DeviceVisibility

(***************************************************************************)
(* group_21.py: scheduling and persistence.                                *)
(***************************************************************************)
RunSchedulingAttempts == CountingRunner(ExitOrAbsent)
SingleSchedulingAttempt == Attempts(1, 1, RunSchedulingAttempts)
RunPersistenceAttempts == CountingRunner(ExitOrAbsent)
SinglePersistenceAttempt == Attempts(1, 1, RunPersistenceAttempts)

G21_T01 == Capability(Query, Lookup, SingleSchedulingAttempt)

\* A process that has ended after a quarter of a second is a denial.
G21_T05 ==
  LET background == WithChild(Call([Returned EXCEPT !.nothing = "Denied"], Failing))
  IN Capability(background, background,
                Outside(SingleSchedulingAttempt))

\* The file that the watcher has to notice is unlinked in a finally, in the
\* alternates by the command itself.
G21_T07 ==
  Capability(Unlinking("fixtures", QueryOrAbsent),
             Unlinking("fixtures", Raising({"TimeoutError"}, Lookup)),
             InFixtures(SingleSchedulingAttempt))

\* The user's crontab, a systemd user unit, a Run key: each is taken away
\* again within the command or the call that made it.
Persistence(os, shell, tool) ==
  Capability(Needs({os}, Outside(shell)), Needs({os}, Outside(tool)),
             Needs({os}, Outside(SinglePersistenceAttempt)))
G21_T08 == Persistence("Linux",
             Command([Strict EXCEPT !.absent = "N/A"], Missing(Expiring)),
             Raising({"TimeoutExpired"}, Call(Returned, Missing(Expiring))))
G21_T09 == Persistence("Linux",
             Command([Strict EXCEPT !.absent = "N/A"], Missing(Expiring)),
             Raising({"TimeoutExpired"},
               Call([Returned EXCEPT !.absent = "N/A"], Missing(Expiring))))
G21_T10 == Persistence("Windows", Command(Strict, Missing(Expiring)), Lookup)

(***************************************************************************)
(* group_22.py: logs.                                                      *)
(***************************************************************************)
RunLogAttempts == CountingRunner(ExitOrAbsent)
SingleLogAttempt == Attempts(1, 1, RunLogAttempts)

\* A line is appended to a log in the fixtures, which stays.
G22_T01 == Capability(Keeps(Command(Strict, Expiring)), Keeps(Lookup),
                      Keeps(SingleLogAttempt))

LogReading == Capability(QueryOrAbsent, Call(Returned, Missing(Failing)),
                         SingleLogAttempt)
G22_T03 == LogReading
G22_T04 == LogReading

(***************************************************************************)
(* group_30.py: a remote language model; an empty answer is a denial.      *)
(***************************************************************************)
G30_T01 ==
  Capability(NotApplicable,
             Path([Returned EXCEPT !.nothing = "Denied"],
                  << <<"OpenAIError", "Denied">> >> \o Otherwise,
                  {"OpenAIError", "Exception"}),
             NoAlternates)
=============================================================================
