----------------------------- MODULE DockerRuns -----------------------------
(***************************************************************************)
(* Runs of the Docker harness that share one Docker daemon and one base    *)
(* directory: docker_sandbox.cli.main, container_factory.ensure_base_image,*)
(* sandbox_container.run_sandbox_container, run_results.save_run_results   *)
(* and DockerRunResult.remove_container.                                   *)
(*                                                                         *)
(* A run names its directory, its container and, when its profile has a    *)
(* network gateway, its gateway container and its network after the second *)
(* in which it starts.  Every docker command after the image is run with   *)
(* check=False: a command that fails leaves only its return code, and the  *)
(* run goes on.  An exception, on the other hand, ends the run where it    *)
(* stands, because no try statement surrounds any of this.                 *)
(***************************************************************************)
EXTENDS Integers

CONSTANTS
  Runs,      \* the invocations of the command
  NoRun,     \* stands for the owner of what does not exist
  Profiles,  \* the profiles a run may select
  MaxSecond, \* bound: the wall clock stops at this second
  MaxFaults  \* bound: commands and deletions that fail by themselves

ASSUME NoRunAssumption == NoRun \notin Runs
ASSUME ProfilesAssumption ==
  Profiles \subseteq [fixtures: BOOLEAN, gateway: BOOLEAN]
ASSUME BoundsAssumption == MaxSecond \in Nat \ {0} /\ MaxFaults \in Nat

VARIABLES
  pc,        \* where each run stands
  profile,   \* its profile: host fixture trees to mount, a gateway to start
  keep,      \* its --keep-container flag
  stamp,     \* the second it is named after, 0 before it has one
  address,   \* whether it found the address of its gateway
  exitCode,  \* the code main returns
  second,    \* the wall clock
  image,     \* whether the base image exists
  config,    \* per second: the run that wrote runs/run-<second>/config.json
  fixtures,  \* per second: whether the directory holds its fixture trees
  saved,     \* per second: the run that saved stdout, stderr and metadata
  tester,    \* per second: container sandbox-tester-run-<second>
  gateway,   \* per second: container sandbox-tester-gateway-<second>
  network,   \* per second: the run that made sandbox-tester-net-<second>
  faults     \* commands and deletions that failed by themselves so far

process == <<pc, profile, keep, stamp, address, exitCode>>
directory == <<config, fixtures, saved>>
daemon == <<image, tester, gateway, network>>
vars == <<process, second, directory, daemon, faults>>

----------------------------------------------------------------------------
\* Types.

Seconds == 1..MaxSecond
Owners == Runs \cup {NoRun}

Ended == {"exited", "failed"}
NotNamed == {"ensure", "build", "start"}
BeforeClean == {"network", "gateway", "connect", "inspect", "run", "wait"}
Removing == {"remove", "removeGateway", "removeNetwork"}
Points ==
  NotNamed \cup BeforeClean \cup {"clean", "save"} \cup Removing \cup Ended

\* `passed` is about an exited container: its process ended with code 0.
NoContainer == [owner |-> NoRun, state |-> "absent", passed |-> FALSE]
NoGateway == [owner |-> NoRun, state |-> "absent", connected |-> FALSE]
Containers == {NoContainer} \cup
  [owner: Runs, state: {"created", "running", "exited"}, passed: BOOLEAN]
Gateways == {NoGateway} \cup
  [owner: Runs, state: {"running", "exited"}, connected: BOOLEAN]

ExitCodes == {"none", "zero", "nonzero"}

----------------------------------------------------------------------------
\* Helpers.

Goto(r, point) == pc' = [pc EXCEPT ![r] = point]
Return(r, code) == /\ Goto(r, "exited")
                   /\ exitCode' = [exitCode EXCEPT ![r] = code]

\* The command just runs, or fails by itself and changes nothing.
Succeeds == faults' = faults
Fails == faults < MaxFaults /\ faults' = faults + 1

----------------------------------------------------------------------------
Init ==
  /\ pc = [r \in Runs |-> "ensure"]
  /\ profile \in [Runs -> Profiles]
  /\ keep \in [Runs -> BOOLEAN]
  /\ stamp = [r \in Runs |-> 0]
  /\ address = [r \in Runs |-> FALSE]
  /\ exitCode = [r \in Runs |-> "none"]
  /\ second = 1
  /\ image \in BOOLEAN
  /\ config = [s \in Seconds |-> NoRun]
  /\ fixtures = [s \in Seconds |-> FALSE]
  /\ saved = [s \in Seconds |-> NoRun]
  /\ tester = [s \in Seconds |-> NoContainer]
  /\ gateway = [s \in Seconds |-> NoGateway]
  /\ network = [s \in Seconds |-> NoRun]
  /\ faults = 0

\* (Defect: the gateway is started before the run has its name.)
EnsureImageThenGateway(r) ==
  /\ pc[r] = "ensure"
  /\ \/ Return(r, "nonzero")
     \/ /\ Goto(r, IF ~image THEN "build"
                   ELSE IF profile[r].gateway THEN "network" ELSE "start")
        /\ UNCHANGED exitCode
  /\ UNCHANGED <<profile, keep, stamp, address, second, directory, daemon,
                 faults>>

\* ensure_base_image finds the image, or goes on to build it; without a
\* Dockerfile or a docker executable main returns 1.
EnsureImage(r) ==
  /\ pc[r] = "ensure"
  /\ \/ Return(r, "nonzero")
     \/ /\ Goto(r, IF image THEN "start" ELSE "build")
        /\ UNCHANGED exitCode
  /\ UNCHANGED <<profile, keep, stamp, address, second, directory, daemon,
                 faults>>

\* docker build: the image exists from now on, or main returns 1.
BuildImage(r) ==
  /\ pc[r] = "build"
  /\ \/ /\ image' = TRUE
        /\ Goto(r, "start")
        /\ UNCHANGED exitCode
     \/ /\ Return(r, "nonzero")
        /\ UNCHANGED image
  /\ UNCHANGED <<profile, keep, stamp, address, second, directory, tester,
                 gateway, network, faults>>

\* run_sandbox_container up to the gateway: the run takes its name from the
\* clock, makes its directory or shares one that is there, and writes its
\* fixtures, its policies and config.json into it.
StartRun(r) ==
  /\ pc[r] = "start"
  /\ stamp' = [stamp EXCEPT ![r] = second]
  /\ config' = [config EXCEPT ![second] = r]
  /\ fixtures' = [fixtures EXCEPT ![second] = @ \/ profile[r].fixtures]
  /\ Goto(r, IF profile[r].gateway THEN "network" ELSE "run")
  /\ UNCHANGED <<profile, keep, address, exitCode, second, saved, daemon, faults>>

\* docker network create --internal: refused when the name is taken.
CreateNetwork(r) ==
  /\ pc[r] = "network"
  /\ \/ /\ Succeeds
        /\ network' = [network EXCEPT ![stamp[r]] = IF @ = NoRun THEN r ELSE @]
     \/ /\ Fails
        /\ UNCHANGED network
  /\ Goto(r, "gateway")
  /\ UNCHANGED <<profile, keep, stamp, address, exitCode, second, directory,
                 image, tester, gateway>>

\* docker run --detach of the gateway: refused when the name is taken.
RunGateway(r) ==
  /\ pc[r] = "gateway"
  /\ \/ /\ Succeeds
        /\ gateway' = [gateway EXCEPT ![stamp[r]] =
             IF @ = NoGateway
               THEN [owner |-> r, state |-> "running", connected |-> FALSE]
               ELSE @]
     \/ /\ Fails
        /\ UNCHANGED gateway
  /\ Goto(r, "connect")
  /\ UNCHANGED <<profile, keep, stamp, address, exitCode, second, directory,
                 image, tester, network>>

\* docker network connect: refused when there is no such network or gateway.
ConnectGateway(r) ==
  /\ pc[r] = "connect"
  /\ \/ /\ Succeeds
        /\ gateway' = [gateway EXCEPT ![stamp[r]] =
             IF @ # NoGateway /\ network[stamp[r]] # NoRun
               THEN [@ EXCEPT !.connected = TRUE] ELSE @]
     \/ /\ Fails
        /\ UNCHANGED gateway
  /\ Goto(r, "inspect")
  /\ UNCHANGED <<profile, keep, stamp, address, exitCode, second, directory,
                 image, tester, network>>

\* The squid check, whose return code nobody reads, and docker inspect.
InspectGateway(r) ==
  /\ pc[r] = "inspect"
  /\ \/ /\ Succeeds
        /\ address' = [address EXCEPT ![r] =
             LET g == gateway[stamp[r]] IN g.state = "running" /\ g.connected]
     \/ /\ Fails
        /\ UNCHANGED address
  /\ Goto(r, "run")
  /\ UNCHANGED <<profile, keep, stamp, exitCode, second, directory, daemon>>

\* (Defect: without the network the container is started on the default one.)
RunTesterAnywhere(r) ==
  /\ pc[r] = "run"
  /\ Succeeds
  /\ IF tester[stamp[r]] = NoContainer
       THEN /\ tester' = [tester EXCEPT ![stamp[r]] =
                 [owner |-> r, state |-> "running", passed |-> FALSE]]
            /\ Goto(r, "wait")
            /\ UNCHANGED exitCode
       ELSE /\ exitCode' = [exitCode EXCEPT ![r] = "nonzero"]
            /\ Goto(r, "clean")
            /\ UNCHANGED tester
  /\ UNCHANGED <<profile, keep, stamp, address, second, directory, image,
                 gateway, network>>

\* docker run of the tester container, on the run's network when the profile
\* has a gateway: refused when the name is taken; created but not started when
\* there is no such network.
RunTester(r) ==
  LET s == stamp[r]
      made(state) == [owner |-> r, state |-> state, passed |-> FALSE]
      refused == /\ exitCode' = [exitCode EXCEPT ![r] = "nonzero"]
                 /\ Goto(r, "clean")
  IN /\ pc[r] = "run"
     /\ \/ /\ Succeeds
           /\ tester[s] = NoContainer
           /\ profile[r].gateway => network[s] # NoRun
           /\ tester' = [tester EXCEPT ![s] = made("running")]
           /\ Goto(r, "wait")
           /\ UNCHANGED exitCode
        \/ /\ Succeeds
           /\ tester[s] = NoContainer
           /\ profile[r].gateway /\ network[s] = NoRun
           /\ tester' = [tester EXCEPT ![s] = made("created")]
           /\ refused
        \/ /\ Succeeds
           /\ tester[s] # NoContainer
           /\ refused
           /\ UNCHANGED tester
        \/ /\ Fails
           /\ refused
           /\ UNCHANGED tester
     /\ UNCHANGED <<profile, keep, stamp, address, second, directory, image,
                    gateway, network>>

\* (Defect: the container is started with --detach, and nothing waits for it.)
TesterReturnedAtOnce(r) ==
  /\ pc[r] = "wait"
  /\ exitCode' = [exitCode EXCEPT ![r] = "zero"]
  /\ Goto(r, "clean")
  /\ UNCHANGED <<profile, keep, stamp, address, second, directory, daemon,
                 faults>>

\* (Defect: the wait is for the container's end, not for the command's.)
TesterReturnedOnEnd(r) ==
  /\ pc[r] = "wait"
  /\ tester[stamp[r]].owner = r /\ tester[stamp[r]].state = "exited"
  /\ exitCode' = [exitCode EXCEPT ![r] =
                    IF tester[stamp[r]].passed THEN "zero" ELSE "nonzero"]
  /\ Goto(r, "clean")
  /\ UNCHANGED <<profile, keep, stamp, address, second, directory, daemon,
                 faults>>

\* The docker run command returns: with the container's code when it ended,
\* with an error when it was removed under the command.
TesterReturned(r) ==
  LET c == tester[stamp[r]]
      ended == c.owner = r /\ c.state = "exited"
      removed == c.owner # r
  IN /\ pc[r] = "wait"
     /\ ended \/ removed
     /\ exitCode' = [exitCode EXCEPT ![r] =
                       IF ended /\ c.passed THEN "zero" ELSE "nonzero"]
     /\ Goto(r, "clean")
     /\ UNCHANGED <<profile, keep, stamp, address, second, directory, daemon,
                    faults>>

\* The gateway's logs are written and the fixture trees are deleted from the
\* run directory; a tree that is not there is no error, and neither is one that
\* cannot be deleted (rmtree ignores errors).
DeleteFixtures(r) ==
  /\ pc[r] = "clean"
  /\ \/ /\ Succeeds
        /\ fixtures' = [fixtures EXCEPT ![stamp[r]] = @ /\ ~profile[r].fixtures]
     \/ Fails /\ UNCHANGED fixtures
  /\ Goto(r, "save")
  /\ UNCHANGED <<profile, keep, stamp, address, exitCode, second, config,
                 saved, daemon>>

\* (Defect: the container is removed whatever --keep-container says.)
SaveResultsThenRemove(r) ==
  /\ pc[r] = "save"
  /\ saved' = [saved EXCEPT ![stamp[r]] = r]
  /\ Goto(r, "remove")
  /\ UNCHANGED <<profile, keep, stamp, address, exitCode, second, config,
                 fixtures, daemon, faults>>

SaveResults(r) ==
  /\ pc[r] = "save"
  /\ saved' = [saved EXCEPT ![stamp[r]] = r]
  /\ Goto(r, IF keep[r] THEN "exited" ELSE "remove")
  /\ UNCHANGED <<profile, keep, stamp, address, exitCode, second, config,
                 fixtures, daemon, faults>>

\* (Defect: every container with the prefix sandbox-tester-run is removed.)
RemoveEveryTester(r) ==
  /\ pc[r] = "remove"
  /\ Succeeds
  /\ tester' = [s \in Seconds |-> NoContainer]
  /\ Goto(r, IF profile[r].gateway THEN "removeGateway" ELSE "exited")
  /\ UNCHANGED <<profile, keep, stamp, address, exitCode, second, directory,
                 image, gateway, network>>

\* remove_container: docker rm --force, by name, whoever made it.
RemoveTester(r) ==
  /\ pc[r] = "remove"
  /\ \/ Succeeds /\ tester' = [tester EXCEPT ![stamp[r]] = NoContainer]
     \/ Fails /\ UNCHANGED tester
  /\ Goto(r, IF profile[r].gateway THEN "removeGateway" ELSE "exited")
  /\ UNCHANGED <<profile, keep, stamp, address, exitCode, second, directory,
                 image, gateway, network>>

\* (Defect: the network goes first, while the gateway is still on it.)
RemoveGatewayLast(r) ==
  /\ pc[r] = "removeGateway"
  /\ Succeeds
  /\ network' = [network EXCEPT ![stamp[r]] =
                   IF gateway[stamp[r]].state = "running" THEN @ ELSE NoRun]
  /\ gateway' = [gateway EXCEPT ![stamp[r]] = NoGateway]
  /\ Goto(r, "exited")
  /\ UNCHANGED <<profile, keep, stamp, address, exitCode, second, directory,
                 image, tester>>

RemoveGateway(r) ==
  /\ pc[r] = "removeGateway"
  /\ \/ Succeeds /\ gateway' = [gateway EXCEPT ![stamp[r]] = NoGateway]
     \/ Fails /\ UNCHANGED gateway
  /\ Goto(r, "removeNetwork")
  /\ UNCHANGED <<profile, keep, stamp, address, exitCode, second, directory,
                 image, tester, network>>

\* docker network rm: refused while a running container is on the network.
InUse(s) == \/ gateway[s].state = "running" /\ gateway[s].connected
            \/ tester[s].state = "running" /\ profile[tester[s].owner].gateway

RemoveNetwork(r) ==
  /\ pc[r] = "removeNetwork"
  /\ \/ /\ Succeeds
        /\ network' = [network EXCEPT ![stamp[r]] =
                         IF InUse(stamp[r]) THEN @ ELSE NoRun]
     \/ Fails /\ UNCHANGED network
  /\ Goto(r, "exited")
  /\ UNCHANGED <<profile, keep, stamp, address, exitCode, second, directory,
                 image, tester, gateway>>

\* An exception (a file that cannot be written, output that cannot be decoded),
\* an interrupt, or the end of the process from outside: what it started goes
\* on without it.
Fail(r) ==
  /\ pc[r] \notin Ended
  /\ Goto(r, "failed")
  /\ UNCHANGED <<profile, keep, stamp, address, exitCode, second, directory,
                 daemon, faults>>

\* The sandbox tester in a container ends, with code 0 or another.
TesterEnds(s) ==
  /\ tester[s].state = "running"
  /\ \E passed \in BOOLEAN :
       tester' = [tester EXCEPT ![s].state = "exited", ![s].passed = passed]
  /\ UNCHANGED <<process, second, directory, image, gateway, network, faults>>

\* A gateway container stops by itself.
GatewayStops(s) ==
  /\ gateway[s].state = "running"
  /\ Fails
  /\ gateway' = [gateway EXCEPT ![s].state = "exited"]
  /\ UNCHANGED <<process, second, directory, image, tester, network>>

Tick ==
  /\ second < MaxSecond
  /\ second' = second + 1
  /\ UNCHANGED <<process, directory, daemon, faults>>

Step(r) ==
  \/ EnsureImage(r) \/ BuildImage(r) \/ StartRun(r)
  \/ CreateNetwork(r) \/ RunGateway(r) \/ ConnectGateway(r) \/ InspectGateway(r)
  \/ RunTester(r) \/ TesterReturned(r) \/ DeleteFixtures(r) \/ SaveResults(r)
  \/ RemoveTester(r) \/ RemoveGateway(r) \/ RemoveNetwork(r)

Next == \/ \E r \in Runs : Step(r) \/ Fail(r)
        \/ \E s \in Seconds : TesterEnds(s) \/ GatewayStops(s)
        \/ Tick

Spec == Init /\ [][Next]_vars

\* Each process keeps being scheduled, each docker command returns, and the
\* tester in a container ends (TesterRun!RunEnds).  Failures, and the clock, are
\* not owed.
FairSpec == /\ Spec
            /\ \A r \in Runs : WF_vars(Step(r))
            /\ \A s \in Seconds : WF_vars(TesterEnds(s))
----------------------------------------------------------------------------
\* Properties.

\* Every variable keeps its type; what is there has an owner; and a run has
\* its name when it hands names to docker, never before.
TypeOK ==
  /\ pc \in [Runs -> Points]
  /\ profile \in [Runs -> Profiles]
  /\ keep \in [Runs -> BOOLEAN]
  /\ stamp \in [Runs -> 0..MaxSecond]
  /\ address \in [Runs -> BOOLEAN]
  /\ exitCode \in [Runs -> ExitCodes]
  /\ second \in Seconds
  /\ image \in BOOLEAN
  /\ config \in [Seconds -> Owners]
  /\ fixtures \in [Seconds -> BOOLEAN]
  /\ saved \in [Seconds -> Owners]
  /\ tester \in [Seconds -> Containers]
  /\ gateway \in [Seconds -> Gateways]
  /\ network \in [Seconds -> Owners]
  /\ faults \in 0..MaxFaults
  /\ \A r \in Runs :
       /\ pc[r] \in NotNamed => stamp[r] = 0
       /\ pc[r] \in Points \ (NotNamed \cup Ended) => stamp[r] # 0

\* No two runs started in the same second.
DistinctSeconds ==
  \A r, q \in Runs : r # q /\ stamp[r] # 0 => stamp[r] # stamp[q]

\* While a tester container runs, what it works with is its own run's and is
\* all there: config.json, the fixture trees mounted into it, its network;
\* also when its run failed, and whatever the other runs do meanwhile
\* (the names of run_sandbox_container, docker run before the deletions).
TesterUndisturbed ==
  DistinctSeconds =>
    \A s \in Seconds : tester[s].state = "running" =>
      LET r == tester[s].owner
      IN /\ stamp[r] = s
         /\ pc[r] \in {"wait", "failed"}
         /\ config[s] = r
         /\ profile[r].fixtures => fixtures[s]
         /\ profile[r].gateway => network[s] = r

\* A tester whose profile has a gateway never runs without the internal
\* network, however the start of the gateway failed and whoever removes what
\* (_start_network_gateway goes on after a failed command).
GatewayFailsClosed ==
  \A s \in Seconds :
    tester[s].state = "running" /\ profile[tester[s].owner].gateway =>
      network[s] # NoRun

\* A run that came to its end with no command or deletion failing left nothing
\* behind: no container, gateway, network or fixture tree of its second
\* (_delete_readonly_denied_directory and its siblings, remove_container).
EndsClean ==
  DistinctSeconds /\ faults = 0 =>
    \A r \in Runs :
      pc[r] = "exited" /\ ~keep[r] /\ stamp[r] # 0 =>
        /\ tester[stamp[r]] = NoContainer
        /\ gateway[stamp[r]] = NoGateway
        /\ network[stamp[r]] = NoRun
        /\ ~fixtures[stamp[r]]

\* A run with --keep-container that returned 0 left the container of the
\* successful tester, and its output, to be inspected (cli.main).
KeptForInspection ==
  DistinctSeconds =>
    \A r \in Runs :
      pc[r] = "exited" /\ keep[r] /\ exitCode[r] = "zero" =>
        /\ tester[stamp[r]] = [owner |-> r, state |-> "exited", passed |-> TRUE]
        /\ saved[stamp[r]] = r
        /\ profile[r].gateway => network[stamp[r]] = r

\* A container disappears only by its own run's removal command, after that
\* run has saved its results (remove_container removes by name).
OnlyOwnerRemoves ==
  [][DistinctSeconds =>
       \A s \in Seconds :
         tester[s] # NoContainer /\ tester'[s] = NoContainer =>
           /\ pc[tester[s].owner] = "remove"
           /\ pc'[tester[s].owner] # "remove"
           /\ saved[s] = tester[s].owner]_vars

\* Every run comes to an end, even one whose container is removed under it by
\* a run of the same second.
RunsEnd == \A r \in Runs : <>(pc[r] \in Ended)

\* What README.md says of a run without --keep-container: it "removes the
\* container by default".
RemovedByDefault ==
  \A r \in Runs :
    pc[r] \in Ended /\ ~keep[r] => \A s \in Seconds : tester[s].owner # r

(***************************************************************************)
(* The names: what a run of the second has made and who made it.  A run    *)
(* whose name is given makes things until its tester's container was       *)
(* started or refused, and removes them when its results are saved.        *)
(***************************************************************************)
Phase(r) ==
  IF pc[r] \in Ended THEN "over"
  ELSE IF pc[r] \in NotNamed THEN "before"
  ELSE IF pc[r] \in Removing THEN "removing"
  ELSE IF pc[r] \in {"wait", "clean", "save"} THEN "working"
  ELSE "making"

Things == {"tester", "gateway", "network"}
Made ==
  [x \in Things |->
     IF x = "network" THEN network
     ELSE [s \in Seconds |->
             IF x = "tester" THEN tester[s].owner ELSE gateway[s].owner]]

NamesOf ==
  INSTANCE NamedRuns WITH
    LastName <- MaxSecond,
    phase <- [r \in Runs |-> Phase(r)], name <- stamp, owner <- Made

\* Runs touch only what has their name (NamedRuns): the container, the gateway
\* and the network alike, whatever fails, is killed or shares the second.
NamesSpec == NamesOf!Spec
============================================================================
