# Verification of SandboxTester

TLA+ models of the SandboxTester program, the TLC configurations that check
them on small instances, and theorems about them that TLAPS proves for every
value of the constants. Paths such as `manager.py:62` are relative to
`src/sandbox_tester/`, `src/docker_sandbox/` and so on; "README.md:40" is the
repository's own README.

## 1. The system

SandboxTester finds out what a sandbox lets a program do. The *tester* probes
some 226 capabilities in 23 groups and writes a report. Four *harnesses* make a
sandbox (a scratch directory, a Docker container, a VirtualBox clone, a QEMU
machine), run the tester in it, bring its report back and clean up.

### 1.1 Inventory

| Component | State it keeps | Operations | Hard behaviours | What makes it correct |
|---|---|---|---|---|
| **Tester engine** (`cli`, `manager`, `runner`, `testing`, `reporter`, `models`) | loop positions, results so far; on disk `report.json`, `done.json`, their `.tmp` siblings, `status.ndjson` | run the groups in factory order; three probes per test; report each step; write the report and then the marker atomically | nothing catches an exception, so a run may stop at any step; the directory may be an earlier run's; the log is appended to; completion events name no test | a report in place is complete; the marker never precedes it; exit code 0 means this run's report; the log alone tells the same results |
| **Capability probes** (`group_XX.py`, `utilities.py`) | none in the program; files, settings, processes, branches and database rows on the machine | per capability a shell path, a tool path and a list of alternates: leave early, prepare, try, judge, clean up | what an exception becomes hangs on the order of handlers; retries and alternates are summed up; clean-up may fail or be skipped; what one probe leaves is what the next one finds | the outcome is what was observed; every path asks for the same configuration; nothing outlives the run but what a failure explains |
| **Evidence redaction** (`redaction.py`) | none | text substitution | - | - |
| **Docker harness** (`cli`, `container_factory`, `sandbox_container`, `run_results`, `models`) | the base image; per run, named after a second: directory, fixture trees, tester container, gateway container, internal network | build the image; start network and gateway; run the tester; delete fixtures; save results; remove container, gateway, network | several runs on one daemon; two runs in one second; every gateway command may fail and is not checked; removal by name; exceptions outside any `finally` | runs do not disturb each other; the gateway fails closed; a run leaves nothing behind unless told to |
| **VirtualBox harness: machines** (`cli`, `virtual_machine_factory`, `models`) | the base machine with its disk and NAT rules, the clones, the host ports their NAT engines hold | look at the base; create it; clone it and start the clone; stop and remove the clone; finalize the base over a temporary forward | state is read by several commands and acted on by later ones; other runs and the guest act in between; deadlines; nested failures in `finally` | sessions reach the own clone; clones are removed by their own run only; finalization leaves a usable base without its forward |
| **VirtualBox guest session** (`virtual_machine_setup`, `guest_script_runner`, `guest_run_layout`, ...) | SSH session, streamed output, downloaded artifacts | wait for SSH, run, stream, download | early end of a stream, authentication not ready, missing artifacts | output and report belong to this run |
| **QEMU harness** | run directory and disk, port, QEMU process | copy the disk, find a port, start, wait, run the agent, shut down, terminate, kill, remove | same-second runs share a disk; another run takes the port; immediate exit; a shutdown that waits for SSH again; waits that time out | a machine keeps its disk while it runs; a session is in the own guest; process and disk are gone at the end |
| **Local harness** (`local_sandbox/cli.py`) | run directory, scratch directories | make, run the tester, save, delete | exclusive directory; deletion only on success | - |
| **Guest credentials** | a JSON file | read or create | two first runs; a torn write | all users of a file use one password |
| **Docker profiles and Landlock launcher** | constant tables | computed once | numeric masks | - |
| **Wrappers, scripts, databases** | none | call `main` | - | - |

The parts interact through files and commands: a harness starts the tester as a
process in the sandbox and reads the files it leaves; harness runs meet each
other only on what they share, the daemon or VirtualBox with its names and
ports, and the base directory with its `runs/run-<second>` directories.

`PROJECT.json` lists every component with its status, and under `hazards` each
place where this code is hard to test, with the properties that watch it.

### 1.2 Modules

| Module | Models |
|---|---|
| `TesterRun` | one output directory of the tester and the runs that write it |
| `ReportPublication` | abstract: what a reader of that directory is promised; `TesterRun` implements it |
| `Probing` | what a probe is written in: handlers, judgements, attempts and their sum, things it makes and undoes |
| `ReadingProbes`, `WritingProbes`, `ProcessProbes`, `NetworkProbes`, `DesktopProbes`, `RepositoryProbes`, `CloudProbes`, `SystemProbes` | one definition per capability, `Gnn_Tnn`, in the terms of `Probing` |
| `CapabilityGroups` | the groups, and the set of all capabilities |
| `CapabilityProbes` | what becomes of one capability along its three paths and over several runs |
| `GitProbes` | the paths that change the Git repository, command by command, one after the other |
| `DockerRuns` | concurrent runs of the Docker harness on one daemon |
| `QemuRuns` | concurrent runs of the QEMU harness on one host |
| `VirtualBoxRuns` | concurrent runs of the VirtualBox harness on one base machine |
| `DisposableClones` | abstract: who makes, uses and removes the clones of a base; `VirtualBoxRuns` implements it |
| `NamedRuns` | abstract: what runs do with the things that are named after their second; `DockerRuns` and `QemuRuns` implement it |
| `MC...` | instances for TLC |
| `TesterRunTheorems`, `CapabilityProbesTheorems`, `CapabilityGroupsTheorems`, `GitProbesTheorems`, `DockerRunsTheorems`, `QemuRunsTheorems`, `VirtualBoxRunsTheorems`, `NamedRunsTheorems` | theorems and proofs |

`TesterRun` takes an outcome from each probe; `CapabilityProbes` says which one
it can be and which exceptions get through to it (`raised`, which is `Fail` in
`TesterRun`); `GitProbes` opens up the one group whose probes meet on shared state
that is more than a file.

## 2. The models and the code

### 2.1 TesterRun

The variables are the locals of the call chain `main` -> `run_from_files` ->
`run_all_groups` -> `run_group`: `group` and `test` are the loop positions,
`part` the probe of the test that is being made, `capability` its results so
far, `results` and `groupResults` the two accumulated lists; the files
are `log`, `report`, `reportTmp`, `done`, `doneTmp`. `stage` is the program
counter. One action stands for each thing the process does that can be
interrupted: building a group (`BuildGroup`: disabled groups are only
reported as skipped), one event handed to all reporters (`ReportEvent`), one
probe (`Probe`), each write to a temporary file and each replace
(`WriteReport`, `ReplaceReport`, `WriteDone`, `ReplaceDone`), `Exit`. `Fail` is
an exception or a kill at any of these: a line being appended or a temporary
file being written may be left cut off; the files that are replaced may not.
`StartRun` starts another run in the same directory and removes nothing.

Outcomes are chosen freely by `Probe`; `CapabilityProbes` says which they are. The
text of reports, evidence, durations and the console output are left out.

### 2.2 DockerRuns

Per run: `pc`, its profile reduced to what the code branches on (fixture trees,
gateway), `keep`, the second it is named after (`stamp`), whether it found its
gateway's address, its exit code. Per second: who wrote
`config.json`, whether fixture trees are there, who saved the results, and the
daemon's tester container, gateway container and network of that name. One
action per docker command or per stretch of file work, in the order of the
code. A command either does what docker does, including being *refused* (a name
that is taken, a network that is in use), or fails by itself (`Fails`). `Fail`
ends the run where it stands, for there is no `try`. The containers have lives
of their own (`TesterEnds`, `GatewayStops`), and so has the clock (`Tick`).

What docker does is taken from how the code uses it: a name is unique; `docker
run` on a network that does not exist leaves a container that was created but
not started; `docker rm --force` removes by name; `docker network rm` is refused
while a running container is attached. The image is one boolean; mounts, DNS and
security options of the command line are not modelled.

To `NamedRuns` a run is in one of five phases (`Phase`: before it has its name,
making, working, removing, over), and the tester containers, gateways and networks
are the things it makes (`Made`). A container that the daemon holds under a name is a
thing of that name, whether or not it runs. In the model the clock only goes
forward; the code names a run after the local time (`dt.datetime.now`), which a
change to winter time or a correction of the clock sets back: the names then may
return, and what `NamedRuns` says of later names holds only up to that moment.

### 2.3 VirtualBoxRuns

The machines (`vm`) are the base and one clone per second, each with its power
state, what is on its disk, its two possible NAT rules and the run that cloned
it; `bound` says which machine's NAT engine listens on a host port. A run looks
at a machine by up to three VBoxManage commands (`ListVms`, `ShowInfo`), whose
partial result is `seen`, and acts on what it saw in a later step, when another
run or the guest may have changed it. `raised` remembers where the latest
exception was raised, and `Raise` goes to the `finally` of the `try` it is in,
if there is one. `TimeOut` is a deadline that passes, `Kill` the end of a process
from outside, `GuestHalts`, `Abort`, `InstallationEnds` and `UserStopsBase` are
what the guests and the user do. `PrepareBase` is one step for each of the four
commands between `createvm` and the installation, so another run may clone or start
the base in between. `Connect`, `RunScript`, `InstallPackages` and
`ShutDownGuest` stand for whole SSH conversations, each of which can fail; they
act on the machine that really listens on the port. A guest may never answer
(`Conversing`): neither the wait for an exit status nor the loop that streams the
output of the agent has a deadline.

Assumed of VirtualBox: it refuses `clonevm` and `modifyvm` on a machine that is
online and a clone name that is taken; it starts a machine whose forwarded port
is taken (its NAT engine then lacks that forward); an SSH session outlives the
removal of the NAT rule it came through, and breaks when its guest goes offline;
`createmedium` does not ask what the base is doing; a clone copies the settings of the
base, its rules included.

Two reductions keep the state space small without losing behaviours: ports no
run has had are alike, so the lowest free one stands for all (`FreePorts`); of a
second it only matters which runs share it, so the clock shows the latest second
used or the next (`Now`).

### 2.4 The capability probes

The 23 groups are 50,000 lines of which most are one pattern with other data.
`Probing` is that pattern. A path of a capability is a record: what it `needs` in
the context, on which systems it applies, how often it `tries`, what each
`answer` of the world is judged as (`on`), its handlers in the order of
the code (`catch`, matched along the class hierarchy by `IsA`), what it
`makes` where (in the fixtures, in the output directory that was configured, or
outside of both: the temporary directory, a process beside the command, a setting,
a service), whether the thing is undone by the
command itself (`"inline"`), in a `finally`, or not at all (`"never"`), what it
finds when an earlier run left its things (`again`), and what can be raised
outside its `try` (`unguarded`). For the alternates it has the number of attempts per
system and what preparing them may raise.

The eight modules of probes translate every `Gnn_Tnn` class into three such
records; a helper that several tests share in the code is one definition here,
and tests that are alike in all of this are equal records.

`CapabilityProbes` runs a record the way `run_group` and the probe's methods do:
`NotConfigured` (the early N/A), `Prepare` (building the alternates), `Attempt`
(one try or one alternate), `Conclude` (the sum, and the `finally`), `Raise`.
An exception no handler matches leaves the probe (`raised`) and ends the run.
`RunAgain` is a second run of the tester on the same context, `RunAfresh` one of
the local harness, which makes new fixtures; what is outside the fixtures
remains in both.

### 2.5 GitProbes

`repo` is the repository as Git sees it: the branch checked out, the branches and
their commits, the index, the working tree, whether the tracked file is modified,
and the probe branches on the remote. Branch 0 is the user's; path k makes branch
k and file k, as the names in the code carry a fresh identifier. There is an
action per Git command (and per file operation) of group 15; `Try` is a command
whose result is looked at, `Finally` one of a `finally` block, whose exit code is
ignored. `denied` is the set of commands the sandbox interferes with: such a
command may fail or raise whenever it runs, and a command that raises, or a
checkout or push that fails late, may have had its effect. `Start`, `Decline` and
`QueryRaises` are the queries with which a test decides whether to go on at all.

### 2.6 QemuRuns

Per run: `pc`, `keep`, the second it is named after (`stamp`), its `port`, the
state of its QEMU process (`vm`), and in whose guest its SSH session ended up
(`session`). Per second: whose copy the run disk is (`disk`). The actions follow
`main`, `create_qemu_run`, `_setup_run_if_started` and `stop_and_remove_qemu_run`;
`raised` is the step whose exception a run ends with, and `Raise` goes where
the `finally` blocks lead. The copy, the port search, the start of QEMU and its
check come before the `try`, and each of them may raise. `WaitForSsh` ends in whichever
guest listens on the port.
`Boot`, `GiveUp` and `Quit` are what QEMU and the guest do, `Die` the end of the
harness from outside.

To `NamedRuns` the one thing a run makes is its run disk (`Made`), with the same
five phases.

Assumed of the guest: its connection breaks when it goes offline; while it is online
it need not answer (`Conversing`). Assumed of QEMU: it exits when its forwarded port is
taken, mostly within the
second the harness waits; a slow one (`"starting"`) counts as a fault.

## 3. What is checked

| Run | Instance | Shows |
|---|---|---|
| `tester_run` | 3 groups (disabled; no tests; 2 tests), 2 outcomes, 2 runs in one directory that may stop anywhere; 671,097 states | `ReportIsComplete`, `DoneFollowsReport`, `ExitMeansPublished`; `LogReplaysReport`: the log, read from the top over all runs, gives exactly the report just written; `PublicationSpec`: refinement of `ReportPublication`; `RunEnds` |
| `docker_runs` | 2 runs, 2 seconds, profiles with neither or both of fixtures and gateway, each `keep` flag, 1 failing command; 898,484 states | `TesterUndisturbed`, `GatewayFailsClosed`, `EndsClean`, `KeptForInspection`, `OnlyOwnerRemoves`; `RunsEnd` |
| `capability_probes` | all 226 capabilities (equal ones once), both systems, every subset of the settings they need, every answer at every try, 2 runs; 498,029 states | `SuccessIsSeen`, `RefusalIsNotAllowed`, `RefusalIsApplicable`: what an outcome may be said to mean; `PathsAgree`; `RemainsAreExplained`: what is left behind, in this run and in later ones, has a place and a reason; `BodiesAreGuarded`; `EveryRunEnds` |
| `git_probes` | the 18 paths of six probes, any 2 of 20 commands misbehaving, 6 kinds of repositories; 5,114,341 states | `UserBranchIsUntouched`, `LeftoversAreExplained`, `AllowedIsUndone`, `NotApplicableIsExplained` |
| `qemu_runs` | 2 runs, 2 seconds, 2 ports, each `keep` flag, 2 faults; 823,480 states | `DiskIsOwn`, `EndsClean`, `GuestIsOwn`; `RunsEnd` |
| `virtualbox_runs` | 2 runs (two clones, two finalizations, one of each), 2 seconds, 2 ports, base missing or installed, 1 failure; 363,286 states | `SessionIsOwn`, `ClonesRemoved`, `NoForwardLeft`, `KeptForInspection`, `FinalizedIsReady`; `ClonesSpec`: refinement of `DisposableClones`, of which the theorem `OnlyOwnersRemove` states one consequence in the terms of the machines; `RunsEnd` |
| `capability_allowed`, `capability_errors` | the instance of `capability_probes` | a statement of README.md the code does not keep (section 5) |
| `docker_removal`, `virtualbox_forward`, `virtualbox_reach`, `virtualbox_clone` | the smallest instance that shows it | a statement of README.md the code does not keep (section 5) |

Every module also has one type invariant, `TypeOK`. Each property has a mutant
of a modelled definition (marked *Defect* where it is defined) under which TLC
finds it violated: a dropped guard, a swapped order, a missing `finally`.

**Bounds.** Two runs are what it takes for one to disturb the other, and all
interactions in this code are between pairs: they meet on a name, a port, a file
or the base machine. Two seconds let the runs share one or not. One failure is
what the code must survive; a failure in each of two places is what the Docker
proofs add, which hold for any number. In `tester_run` the group without tests,
the disabled group, the last test and the first test of a group are all there,
and two runs cover what a leftover does to the next run. `capability_probes`
has no bound but the two runs: its capabilities are the whole registry, since each
path is finite. In `git_probes` each kind of probe runs once, on the allowed
repository (the probes of the denied one are the same code), and two commands
that misbehave are the first case in which an undoing fails after the doing did;
the theorems about it hold for any number. In `qemu_runs` two faults let a
time-out follow another one (terminate and kill), and two ports let a run meet
the port of the other one or not. The passing runs reach every action.

**Conditional properties.** Some properties hold under a condition the code does
not establish, and say so in their antecedent. `DistinctSeconds`: no two runs
started in the same second. Without it two Docker runs share a directory and
collide on names; with the condition dropped, `TesterUndisturbed` and
`OnlyOwnerRemoves` fail. `GatewayFailsClosed` and `RunsEnd` hold without it.
`DistinctPorts`: the system gave a port to one run only, while
`_find_available_host_port` closes the socket before the port is used; only
`SessionIsOwn` needs it (`FinalizedIsReady` holds, and is checked, without it).
`QemuRuns!DiskIsOwn` leaves out runs of one second, which share the disk file:
the second one copies over the disk of the first. `QemuRuns!EndsClean` names the
steps whose exceptions leave a disk or a process (`UncleanSteps`): those before the
`try` and those of the stop and removal, which README.md:253 does not except (section
5). `RefusalIsNotAllowed` lets the answer of a server stand for a
success: an HTTP status, and the resolver's "no such name", which G09 T25 calls
Allowed (`group_09.py:4652`) and the other queries Denied. `RemainsAreExplained`
leaves open what is undone `"inline"`, by the command that made it: an exception in
between keeps it, and only what a `finally` is for can be tied to the path that left it.
`faults = 0` in `DockerRuns!EndsClean`, `ClonesRemoved`, `NoForwardLeft` and
`FinalizedIsReady`: a removal command that fails by itself removes nothing;
refused commands, failing guests, and (for VirtualBox) failures of the SSH work
are still in. `raised` in `ClonesRemoved` and `NoForwardLeft` excludes the
failures in the clean-up itself; the runs of section 5 show what these do.

**Fairness.** `TesterRun!FairSpec`: the process keeps being scheduled and every
probe returns. Most waits of a probe have a limit; that the ones without return (the
lines read from a browser's process, `group_09.py:1649`, `1828`, `group_13.py:1234`)
is an assumption. Failure and a next run are not
owed. `DockerRuns!FairSpec`: each process is scheduled, docker commands return,
and a tester in a container ends, which is what `RunEnds` shows of it; nothing
forces the clock or a failure. `VirtualBoxRuns!FairSpec`: weak fairness of each
process except while it converses with a guest that is online, and strong fairness
of a deadline, because a polling loop leaves and
re-enters the point at which its deadline can pass, and the deadline is one for
all turns. A guest is assumed neither to halt nor to answer: the wait for an exit status
(`virtual_machine_factory.py:593`) and the streaming loop
(`guest_script_runner.py:329`) have no deadline, so `RunsEnd` says that a run ends *or*
waits for ever in such a conversation, and that nothing else holds it up.
`QemuRuns!FairSpec` and `RunsEnd` are the same in this (`recv_exit_status`,
`qemu_sandbox/virtual_machine_setup.py:242`); SSH waits end by their deadline, and a
booting guest comes up; a slow QEMU need not notice.
`CapabilityProbes!Spec`: a path under way goes on, for commands, calls and waits
have a limit (the few that have none are in section 7).

`CHECK_DEADLOCK FALSE` in all configurations: when the runs have ended the
system stops.

## 4. What is proved

All theorems are about `Spec`, for all values of the constants that satisfy the
named assumptions in the modules (`GroupCountAssumption`,
`EnabledGroupsAssumption`, `TestCountAssumption`, `MaxRunsAssumption`,
`OutcomesAssumption`; `KindsAssumption`, `UserFactsAssumption`,
`MaxDeniedAssumption`; `NoRunAssumption`, `NoPortAssumption`,
`ProfilesAssumption`, `BoundsAssumption`; `CommandsAssumption`, `PortsAssumption`,
`BasesAssumption`, which says that a base is off or absent and that an absent one
has neither disk nor forwards; `CapabilitiesAssumption`, which says how a capability
is written, not what it does). TLC evaluates these on every run. The sets of runs may be
infinite; the bounds may be any numbers.

**TesterRunTheorems.** `TypeCorrect`, `ReportsAreComplete`,
`DoneComesAfterReport`, `ExitsArePublished` and `ImplementsPublication`. None of
these is inductive: that the report to be written is complete is known only from
what the loops did. `IInv` adds

- `LoopOK`: at each stage, the groups before the current one have all their
  results, the current test comes after as many results as there are tests
  before it, and the probes made so far have outcomes;
- `FilesOK`: a whole report is of a run up to this one and is complete; a whole
  marker has such a report of the same or a later run beside it; the report is
  older than the run until this run replaces it.

One lemma per action shows that it preserves `IInv`; the refinement follows
step by step from `IInv` (a replace is `Publish` or `Announce`, all else
stutters or is `Start`).

`LogsReplayReports` has an invariant of its own (`LogInv`): what a reader learns from
`status.ndjson`, over all runs that wrote to it, is the report. Reading is a
recursive function of the log, and an induction over logs is not available; it is
not needed, because the log only grows. `Reads(l, s)` says that a reader has the state
`s` after the lines `l`; `LogInv` says of every `s` that is read from the current log
how it agrees with the loop variables (`AgreesGroups`, `AgreesTests`, `Current`), and
a step that appends a line needs only what one line does to `s`. The event names
no test, so the invariant must also say that the last `capability_started` in the
log is that of the current test (`AtTest`), which a run that stopped before it cannot
upset, because the first line of a run is a group's (`Pending`).

**DockerRunsTheorems.** `TypeCorrect`, `TestersAreUndisturbed`,
`GatewaysFailClosed`, `RunsEndClean`, `KeptContainersStay` and
`OnlyOwnersRemove`. `IInv` adds to them

- `OwnersOK`: what is there carries its owner's second and was asked for by its
  profile; `GatewayWanted`: only runs with a gateway are at its commands;
- `RunningOK`: a running tester's run is waiting for it or has failed;
- `DirectoryOK`, `UnusedOK`: what a run's directory holds while it works, and
  that no directory holds fixtures before a run has its name;
- `NetworkOK`, `RemovalOK`, `KeptOK`: the network outlives the container, only a
  run that keeps nothing removes and only after saving, and a successful tester's
  container stays;
- `FixturesGone`, `TesterGone`, `GatewayGone`, `NetworkGone`: how far a removal
  without failures has come at each of its steps.

The argument has two layers. An *effect* lemma per action says, from `TypeOK`
alone, what the action changes and for whom; `SameNames` and `FaultsStay` say
what no action does (give up a name, heal a fault). Then each part of `IInv`
has a lemma with one step per action that can disturb it, from the effects. The
key case is `RemoveNetwork` of one run against the running tester of
another: with different seconds the names differ, and within one second docker
refuses because the network is in use.

**GitProbesTheorems.** `TypeCorrect`, `UserBranchStays` and
`AllowedLeavesNothing`, for any sequence of probes, any repository and any set of
misbehaving commands. `UserBranchStays` needs that a path at its commit is on its own
branch (the checkout before it succeeded) and that a path never has number 0.
`AllowedLeavesNothing` needs, per command, how much of what the path did to the
remote, the tracked file and the working tree is still to be undone
(`UndoneSoFar`, `StagedFile`), and that no other path's names are in the way
(`NumberedInv`).

`NothingElseIsLeft` and `NothingElseHidesProbes` have the same generality. `PartsInv`
goes through the six parts of a repository (remote,
checked-out branch, branches, index, working tree, the tracked file) and says of each,
at each command of a path, that it is exactly what the path makes it there, or
that one of the commands named for this part misbehaves: the parts are separate,
so one bad command explains only its own. `NothingElseHidesProbes` follows the
user's repository from path to path: what a path found unsuitable is the user's
own, or one of the leftovers.

**CapabilityProbesTheorems.** `TypeCorrect` and `SuccessesAreSeen`, for every table of
capabilities, configuration, platform and number of runs: a success is the
outcome of its path, although the tries after it and the other alternates may
fail. `RefusalsAreNotAllowed`, `RefusalsAreApplicable` and `BodiesStayGuarded` have a
premise on the table, one path at a time: that a path calls only a success, or the
answer of a server, Allowed (`AllowsSuccesses`); that a shell or tool path takes no
refusal for a missing program (`TakesRefusals`); that a body handles what ends it
(`GuardsBody`). These say nothing of retries, of sums over alternates, of the order
of handlers that contain one another or of things an earlier run left, and the
theorems do. `RemainsStayExplained` asks where a path puts what it makes and that a
failed preparation leaves nothing for a `finally` (`AccountsForThings`). Which
things remain is not in the premise: `HeldByPath`, the invariant, says that what a
`finally` is for is there only while its path has met an answer and goes on, or when an
exception left that path, in this run or an earlier one; so a path that returns has
undone it, one that leaves early made nothing, and no later run inherits it unexplained.
`PlacesExplained` says that the other things are where the configuration put them.
`PathsAlwaysAgree` asks of a capability that a path that is ever tried names every
field of the context that another one names (`SharesFields`); that what has been met
was met by such a path is the invariant `MetIsApplicable`. `Inv` relates the tries
left and the last outcome to the answers a path has met.

**CapabilityGroupsTheorems.** The premises above are proved of the registry, from
the definitions of its 226 capabilities: `RegistryRefusalsAreNotAllowed`,
`RegistryRefusalsAreApplicable`, `RegistryBodiesAreGuarded`,
`RegistryRemainsAreExplained` and `RegistryPathsAgree` hold of any selection of them (the
enabled groups), any context and any number of runs, with
`Capabilities \subseteq AllCapabilities` as the only premise. A path is *careful*
(`CarefulPaths`) when its handlers call nothing but the answer of a server
Allowed, no refusal N/A, and end with one for `Exception`; when its judgements call
only what was done, or a command that ended without an effect, Allowed; and when what it makes is in
the fixtures or is undone; the paths that take screenshots (`ResultPaths`) put these
into the output directory, for which they ask. Each constructor of `Probing` keeps the
careful paths that ask for
given fields (`Constructors`, `Keeping`, `Places`, `Lists`, `Runners`, `NeedsKeeps`),
and three of them that ask for the same fields are a careful capability
(`CapabilityIsCareful`); a capability without alternates need not ask for anything
there (`CapabilityWithoutAlternates`). One lemma per group follows its capabilities
from their definitions, so a probe that takes every `OSError` for a missing program,
or whose alternates forget a setting, has no proof in the lemma of its group.
`CapabilitiesAssumption`, which says in which form
paths are written, remains an assumption that TLC evaluates on the whole registry.

**VirtualBoxRunsTheorems.** `TypeCorrect`, `OnlyOwnersRemove`, `SessionsAreOwn`,
`ImplementsDisposal`, `ClonesKept`, `RunsLeaveNoClone`, `ForwardsRemoved` and
`FinalizedBasesAreReady`, for any runs, commands, bases, ports, seconds
and faults. `SessionsAreOwn` has one more premise, `NoRules`: the base the runs start
from has no forward of its own, so that no port was given away before. The lemmas
say what one step does, in general: to a machine (`Touched`: it keeps its owner and
rules, is made, removed, forwarded or opened, and by whom; `Powering`: what becomes
of its power), and to a run (`Advances`: its choices stay; `Works`: how it comes to
its results and its removal; `Departs`: how it loses its clone). `IInv` is the types
with what a run knows at each point (`Place`), the ports that are listened on
(`Listening`) and the owner of each clone (`Mine`); it gives `OnlyOwnersRemove`.
For `ImplementsDisposal` a run is before, in or after the time of its clone (`Stage`):
a step moves one run (`OneSteps`), which stays, ends, or enters its clone
(`Proceeds`), and a name changes hands only by a step of the run that it names
(`HandsStep`); a run that is over stays so because it does not look at machines any more
(`Asks`). The
others add one invariant each: `RuleOK`, which forward can be at which port;
`KeptOK`, what holds of results and forward from the work to the end; `RemovedOK`,
that what a run saw of its clone still holds when it acts on it (`Fits`) and how
a run can leave its clone behind (`Leaves`).

The last two are about the one base that all finalizations share, while nothing
fails by itself (`Finalizing`). Each of them may remove the forward of another, and
each waits for the same machine, so the invariant speaks of all of them together:

- `RuleIsAnswered`: a forward that is there is going to be removed by somebody, who
  is before his last look at the base or has looked and still sees what it is (a
  stale look chooses the wrong command, whose refusal is swallowed), or is one of the
  exceptions. `ForwardsRemoved` needs that the base has no forward at the start
  (`NoBaseRules`);
- `HaltIsWatched`: while the base halts, somebody waits for it who has not seen it
  off: so it goes off before anyone's last look;
- `StaysOff`: what a single finalization has seen off is off, for only it would
  start the base again;
- `RunIsWell`, `BaseIsWell`, `OneCreator`: the base is upgraded before it is halted,
  it is on until then while a finalization works, and at most one run creates it and
  no guest answers before its installation, which is what keeps an installation
  from destroying an upgraded base.

`DealsCreated` to `DealsStopped` say what each change of the base means to a run
that does nothing; `StepAside` and `StepForwards` are for steps that leave the power
and disk of the base alone, which most do; the nine that do not have a lemma each.

**QemuRunsTheorems.** `TypeCorrect`, `DisksAreOwn`, `RunsEndClean` and
`GuestsAreOwn`, for any number of runs, seconds, ports and faults. `RunsEndClean` has
every step before the `try` raise, so it says that a disk is left there or by the stop
and removal, and nowhere else. `IInv` adds
`StampOK` (a run has one second, from its first step on), `NotYet` and `Checked`
(no process before `Launch`; none that lost its port after `CheckAlive`),
`Removing` (the disk is removed only when the process is gone) and `DiskOK` (from
the copy on the disk is the run's own or shared with a run of its second). There
is a lemma per part and in it a step per action.

**NamedRunsTheorems.** What follows for any harness that implements `NamedRuns`.
`NamesakesChange`: what has a name is changed only by runs of that name, which are
making or removing, and a run that shares its name with no other one replaces nothing
and removes only what it made. `AbandonedStays`: what was left under a name when its
runs were over, and a later name has been given, stays as it is for ever. The
invariant is `Belongs`: what has a name was made by a run of that name. The premises
(`Constants`) say that `NoRun` is no run and the bound a number.

`DockerRunsTheorems` and `QemuRunsTheorems` prove `ImplementsNames`, that each
harness implements `NamedRuns`, for any numbers of runs, seconds and faults, *also
when runs share a second*, commands fail and processes are killed. `ClockOK`, no run
has a name later than the clock, is the invariant for it; each action is shown to be
a step of one run (`Touches`): it takes a name, makes or removes one thing, goes
on, or does nothing that the abstraction sees. From it `NamesakesChange` and
`LeftoversStay` follow for both: the container of a run that was kept, failed or
killed is never touched by a later run, which is why such leftovers pile up and why
they can be looked at. These have no run of their own: TLC's part for them is done by
the properties of `docker_runs` and `qemu_runs` that they generalize.

**Only model-checked.** Liveness (`RunEnds`, `RunsEnd`, `EveryRunEnds`): the proof
system does not handle fairness and ENABLED. Every invariant and every action property that a run
checks, the two refinements among them, is stated by a theorem.

## 5. Disagreements between the code and its documents

- **`docker_removal`**: README.md:40 and 291 say the container is removed by
  default. `docker_sandbox/cli.py:34-45` has no `try`/`finally`: an exception
  after `docker run` leaves the container, and with a gateway its gateway and
  network.
- **`virtualbox_clone`**: README.md:195-199 says a disposable run removes its
  clone. `clonevm`, `modifyvm` and `startvm` come before the `try` of
  `virtualbox_sandbox/cli.py:322`: when one of the latter two fails, the clone
  stays.
- **`virtualbox_forward`**: README.md:173-175 says finalization removes the
  temporary port forward. `_remove_base_vm_nat_forward` chooses `controlvm` or
  `modifyvm` by a state it read before; when `shutdown now` is reported as failed
  with the connection it closes, the machine goes down in between, the command
  is refused, the error is swallowed, and every later clone inherits the forward.
- **`virtualbox_reach`**: README.md:173-174 says finalization installs the
  packages in the base. A run that clones the base between the addition of the
  forward and the start of the base gets the forward too, and when its clone
  starts first, the finalization installs into the clone and shuts it down.
- **`capability_allowed`**: README.md:53 says of Allowed "the action succeeded".
  The inspection of package credentials (G14 T07, `group_14.py:1048-1067`) counts
  the files it could not read and ends well whatever the count: when the sandbox
  refuses each of them, all three paths are Allowed.
- **`capability_errors`**: README.md:54-56 tells Denied from Error. The sum over
  the alternates (`group_14.py:1401`, and the same code in the other groups) has no
  Error: alternates of which every attempt is one are Denied as a whole.

`virtualbox_reach` needs two runs; the others need one, and no bad luck beyond the
failure named.

The QEMU harness has the same disagreement as the other two, without a run of its own:
README.md:253 says the run disk is "only retained with `--keep-vm`", and
README.md:229-233 that it is removed. The port search, `Popen` and the check of the first
second (`qemu_machine_factory.py:48-66`) come after the copy and before the `try` of
`qemu_sandbox/cli.py:257`; when one of them raises, the copy of the base image stays.
So it does when the wait after `kill`, or the removal itself, raises. These are
the exceptions (`UncleanSteps`) of `QemuRuns!EndsClean`; each is needed, for without
any one of them TLC finds a run that violates the property.

Observed while modelling, without a document that says otherwise: evidence of the
branch probes says `deleted=True`, and that of the staging probe `unstaged=True`, though
the exit codes of the commands that do it are ignored; one probe that leaves a staged
file makes all later commit, push and pull
paths N/A; `_is_file_tracked` (`group_15.py:2369`) runs outside the `try`, so its
time-out ends the whole run; the alternates of G07 T03 ask for the user's name outside
any `try`, on Linux (`group_07.py:1108`).

## 6. Plan

The order is by what matters most to a user of the tester: that reports can be
trusted, that outcomes mean what they say, that the probes leave the user's things
alone, that harness runs do not disturb each other or leave things behind. These
are modelled. What is left:

1. `Credentials`: two first runs and a stop during the write.
2. The local harness, and the streaming loop of the VirtualBox guest session.

## 7. Not modelled, and why

- What happens inside one command script of a probe: the shell commands are single
  steps, except in `GitProbes`. Unlimited waits: a few probes read from a child or wait
  for a remote exit status without a time-out (the browser's lines, `group_09.py:1649`,
  `1828`, `group_13.py:1234`); the fairness of `CapabilityProbes` and `TesterRun`
  assumes that these return. (The harnesses' waits without limit are modelled.)
- Things outside are what a probe makes by itself: not the children that a timed-out
  command leaves running, nor the browser that Playwright starts and stops. What
  the Git probes leave in the repository is the subject of `GitProbes`.
- `createmedium` fails only as a fault; that it is refused when an earlier base left
  its disk file is not told apart.
- The text of summaries and evidence, and `redaction.py`: regular expressions over
  text, without state.
- The local harness on its own: a sequence of file operations around the tester's
  run; what the tester can find in its directories is in `CapabilityProbes` and
  `TesterRun`.
- The inside of the VirtualBox guest session: streaming and copying of text and
  files. The wait, the script and the shutdown are steps of `VirtualBoxRuns`.
- The credential file: read, or made once for a base directory.
- Docker profiles and the Landlock launcher: constant tables and masks.
- Parsing of the context file and rendering of results: no state, no property
  depends on wording.
- The text of docker and QEMU command lines; the search for executables and
  installers.
- Wrappers, developer scripts and database fixtures: no behaviour of their own.
