------------------------- MODULE DockerRunsTheorems -------------------------
(***************************************************************************)
(* Theorems about DockerRuns, for any number of runs and seconds, any      *)
(* profiles and any number of failing commands.  The invariant of the      *)
(* proofs, IInv, says who made what is there (OwnersOK), what each run's   *)
(* directory holds while the run is at work (DirectoryOK), and what a run  *)
(* that went through its removal has left (TesterGone and its siblings).   *)
(***************************************************************************)
EXTENDS DockerRuns, TLAPS

\* What a run made carries the run's second and was asked for by its profile.
OwnersOK ==
  \A s \in Seconds :
    /\ tester[s].owner # NoRun => stamp[tester[s].owner] = s
    /\ gateway[s].owner # NoRun => /\ stamp[gateway[s].owner] = s
                                   /\ profile[gateway[s].owner].gateway
    /\ network[s] # NoRun => /\ stamp[network[s]] = s
                             /\ profile[network[s]].gateway

\* The gateway's commands are for a profile that has one.
GatewayWanted ==
  \A r \in Runs : pc[r] \in {"network", "gateway", "connect", "inspect"} =>
    profile[r].gateway

\* A running tester is waited for, or its run has failed.
RunningOK ==
  \A s \in Seconds :
    tester[s].state = "running" => pc[tester[s].owner] \in {"wait", "failed"}

\* The directory of a run alone in its second: its config.json; its fixture
\* trees until it deletes them, at the latest while its tester runs; and no
\* other run's.
DirectoryOK ==
  DistinctSeconds =>
    \A r \in Runs : stamp[r] # 0 =>
      /\ config[stamp[r]] = r
      /\ profile[r].fixtures /\ (\/ pc[r] \in BeforeClean
                                 \/ /\ tester[stamp[r]].owner = r
                                    /\ tester[stamp[r]].state = "running")
           => fixtures[stamp[r]]
      /\ fixtures[stamp[r]] => profile[r].fixtures

\* No second holds fixture trees before a run is named after it.
UnusedOK ==
  \A s \in Seconds : fixtures[s] => \E r \in Runs : stamp[r] = s

\* A container that was started has its network until its run removes it.
NetworkOK ==
  DistinctSeconds =>
    \A s \in Seconds :
      LET r == tester[s].owner
      IN /\ tester[s].state \in {"running", "exited"}
         /\ profile[r].gateway
         /\ pc[r] = "exited" => keep[r]
         => network[s] = r

\* Only a run that keeps nothing removes, and not before its results are saved.
RemovalOK ==
  \A r \in Runs : pc[r] \in Removing =>
    /\ ~keep[r]
    /\ DistinctSeconds => saved[stamp[r]] = r

\* The successful tester's container is still there.
PassedTester(r) == [owner |-> r, state |-> "exited", passed |-> TRUE]
KeptOK ==
  DistinctSeconds =>
    \A r \in Runs :
      exitCode[r] = "zero" =>
      /\ pc[r] \in {"clean", "save"} \/ (pc[r] = "exited" /\ keep[r]) =>
           /\ stamp[r] # 0
           /\ tester[stamp[r]] = PassedTester(r)
      /\ pc[r] = "exited" /\ keep[r] => saved[stamp[r]] = r

\* What a run that lost no command has removed so far.
Alone == DistinctSeconds /\ faults = 0
Over(r) == pc[r] = "exited" /\ ~keep[r]
FixturesGone ==
  Alone => \A r \in Runs :
    stamp[r] # 0 /\ pc[r] \in {"save", "exited"} \cup Removing => ~fixtures[stamp[r]]
TesterGone ==
  Alone => \A r \in Runs :
    stamp[r] # 0 /\ (pc[r] \in {"removeGateway", "removeNetwork"} \/ Over(r)) =>
      tester[stamp[r]] = NoContainer
GatewayGone ==
  Alone => \A r \in Runs :
    stamp[r] # 0 /\ (pc[r] = "removeNetwork" \/ Over(r)) =>
      gateway[stamp[r]] = NoGateway
NetworkGone ==
  Alone => \A r \in Runs :
    stamp[r] # 0 /\ Over(r) => network[stamp[r]] = NoRun

IInv == /\ TypeOK /\ GatewayFailsClosed /\ OwnersOK /\ RunningOK /\ GatewayWanted
        /\ DirectoryOK /\ UnusedOK /\ NetworkOK /\ RemovalOK /\ KeptOK
        /\ FixturesGone /\ TesterGone /\ GatewayGone /\ NetworkGone

----------------------------------------------------------------------------
\* Types.

\* A run that has its name has a second of the clock.
LEMMA Named ==
  ASSUME TypeOK, NEW r \in Runs, pc[r] \notin NotNamed \cup Ended
  PROVE  stamp[r] \in Seconds
BY BoundsAssumption DEF TypeOK, Seconds

LEMMA Stamped ==
  ASSUME TypeOK, NEW r \in Runs, stamp[r] # 0
  PROVE  stamp[r] \in Seconds
BY BoundsAssumption DEF TypeOK, Seconds

\* Nothing is a container too.
LEMMA Nothing ==
  /\ NoContainer \in Containers /\ NoGateway \in Gateways
  /\ NoContainer.owner = NoRun /\ NoContainer.state = "absent"
  /\ NoGateway.owner = NoRun /\ NoGateway.state = "absent"
BY NoRunAssumption DEF NoContainer, NoGateway, Containers, Gateways, Owners

\* What is there has an owner, and what is not there is nothing.
LEMMA WhatIsThere ==
  ASSUME TypeOK, NEW s \in Seconds
  PROVE  /\ tester[s] # NoContainer =>
              /\ tester[s].owner \in Runs /\ tester[s].owner # NoRun
              /\ tester[s].state \in {"created", "running", "exited"}
         /\ gateway[s] # NoGateway =>
              /\ gateway[s].owner \in Runs /\ gateway[s].owner # NoRun
              /\ gateway[s].state \in {"running", "exited"}
         /\ network[s] # NoRun => network[s] \in Runs
<1>1. tester[s] \in Containers /\ gateway[s] \in Gateways /\ network[s] \in Owners
  BY DEF TypeOK
<1> QED
  BY <1>1, NoRunAssumption DEF Containers, Gateways, Owners

----------------------------------------------------------------------------
\* Every action keeps the types.
LEMMA TypeInvariance == TypeOK /\ [Next]_vars => TypeOK'
<1> SUFFICES ASSUME TypeOK, [Next]_vars PROVE TypeOK'
  OBVIOUS
<1> USE NoRunAssumption, ProfilesAssumption, BoundsAssumption
<1> USE DEF TypeOK, Seconds, Owners, Points, NotNamed, BeforeClean, Removing,
            Ended, ExitCodes, Goto, Return, Succeeds, Fails, directory, daemon
<1>1. ASSUME NEW r \in Runs, EnsureImage(r) PROVE TypeOK'
  <2>1. pc' \in [Runs -> Points] /\ exitCode' \in [Runs -> ExitCodes]
    BY <1>1 DEF EnsureImage
  <2>2. \A q \in Runs :
          /\ pc'[q] \in NotNamed => stamp'[q] = 0
          /\ pc'[q] \in Points \ (NotNamed \cup Ended) => stamp'[q] # 0
    BY <1>1 DEF EnsureImage
  <2> QED
    BY <1>1, <2>1, <2>2 DEF EnsureImage
<1>2. ASSUME NEW r \in Runs, BuildImage(r) PROVE TypeOK'
  BY <1>2 DEF BuildImage
<1>3. ASSUME NEW r \in Runs, StartRun(r) PROVE TypeOK'
  BY <1>3 DEF StartRun
<1>4. ASSUME NEW r \in Runs, CreateNetwork(r) PROVE TypeOK'
  <2>1. network' \in [Seconds -> Owners]
    BY <1>4, Named DEF CreateNetwork
  <2>2. pc' = [pc EXCEPT ![r] = "gateway"] /\ pc[r] = "network"
        /\ faults' \in 0..MaxFaults
    BY <1>4 DEF CreateNetwork
  <2>3. UNCHANGED <<profile, keep, stamp, address, exitCode, second, image,
                    config, fixtures, saved, tester, gateway>>
    BY <1>4 DEF CreateNetwork
  <2> QED
    BY <2>1, <2>2, <2>3
<1>5. ASSUME NEW r \in Runs, RunGateway(r) PROVE TypeOK'
  <2>1. stamp[r] \in Seconds
    BY <1>5, Named DEF RunGateway
  <2>2. [owner |-> r, state |-> "running", connected |-> FALSE] \in Gateways
    BY DEF Gateways
  <2>3. gateway' \in [Seconds -> Gateways]
    BY <1>5, <2>1, <2>2 DEF RunGateway
  <2>4. pc' = [pc EXCEPT ![r] = "connect"] /\ pc[r] = "gateway"
        /\ faults' \in 0..MaxFaults
    BY <1>5 DEF RunGateway
  <2>5. UNCHANGED <<profile, keep, stamp, address, exitCode, second, image,
                    config, fixtures, saved, tester, network>>
    BY <1>5 DEF RunGateway
  <2> QED
    BY <2>3, <2>4, <2>5
<1>6. ASSUME NEW r \in Runs, ConnectGateway(r) PROVE TypeOK'
  <2>1. stamp[r] \in Seconds
    BY <1>6, Named DEF ConnectGateway
  <2>2. \A g \in Gateways : g # NoGateway => [g EXCEPT !.connected = TRUE] \in Gateways
    BY DEF Gateways
  <2>3. \/ gateway' = gateway
        \/ /\ gateway[stamp[r]] # NoGateway
           /\ gateway' = [gateway EXCEPT ![stamp[r]] =
                            [gateway[stamp[r]] EXCEPT !.connected = TRUE]]
    BY <1>6, <2>1 DEF ConnectGateway
  <2>4. gateway' \in [Seconds -> Gateways]
    <3>1. CASE gateway' = gateway
      BY <3>1
    <3>2. CASE /\ gateway[stamp[r]] # NoGateway
               /\ gateway' = [gateway EXCEPT ![stamp[r]] =
                                [gateway[stamp[r]] EXCEPT !.connected = TRUE]]
      <4>1. [gateway[stamp[r]] EXCEPT !.connected = TRUE] \in Gateways
        BY <2>1, <2>2, <3>2
      <4> QED
        BY <3>2, <4>1
    <3> QED
      BY <2>3, <3>1, <3>2
  <2>5. pc' = [pc EXCEPT ![r] = "inspect"] /\ pc[r] = "connect"
        /\ faults' \in 0..MaxFaults
    BY <1>6 DEF ConnectGateway
  <2>6. UNCHANGED <<profile, keep, stamp, address, exitCode, second, image,
                    config, fixtures, saved, tester, network>>
    BY <1>6 DEF ConnectGateway
  <2> QED
    BY <2>4, <2>5, <2>6
<1>7. ASSUME NEW r \in Runs, InspectGateway(r) PROVE TypeOK'
  <2>1. address' \in [Runs -> BOOLEAN]
    BY <1>7 DEF InspectGateway
  <2>2. pc' = [pc EXCEPT ![r] = "run"] /\ pc[r] = "inspect"
        /\ faults' \in 0..MaxFaults
    BY <1>7 DEF InspectGateway
  <2>3. UNCHANGED <<profile, keep, stamp, exitCode, second, directory, daemon>>
    BY <1>7 DEF InspectGateway
  <2> QED
    BY <2>1, <2>2, <2>3
<1>8. ASSUME NEW r \in Runs, RunTester(r) PROVE TypeOK'
  <2>1. stamp[r] \in Seconds /\ pc[r] = "run"
    BY <1>8, Named DEF RunTester
  <2>2. \E point \in {"wait", "clean"} : pc' = [pc EXCEPT ![r] = point]
    BY <1>8 DEF RunTester
  <2>3. exitCode' \in [Runs -> ExitCodes]
    BY <1>8 DEF RunTester
  <2>7. faults' \in 0..MaxFaults
    BY <1>8 DEF RunTester
  <2>4. \A state \in {"created", "running"} :
          [owner |-> r, state |-> state, passed |-> FALSE] \in Containers
    BY DEF Containers
  <2>5. tester' \in [Seconds -> Containers]
    BY <1>8, <2>1, <2>4 DEF RunTester
  <2>6. UNCHANGED <<profile, keep, stamp, address, second, directory, image,
                    gateway, network>>
    BY <1>8 DEF RunTester
  <2> QED
    BY <2>1, <2>2, <2>3, <2>5, <2>6, <2>7
<1>9. ASSUME NEW r \in Runs, TesterReturned(r) PROVE TypeOK'
  <2>1. exitCode' \in [Runs -> ExitCodes]
    BY <1>9 DEF TesterReturned
  <2>2. pc' = [pc EXCEPT ![r] = "clean"] /\ pc[r] = "wait"
    BY <1>9 DEF TesterReturned
  <2>3. UNCHANGED <<profile, keep, stamp, address, second, directory, daemon,
                    faults>>
    BY <1>9 DEF TesterReturned
  <2> QED
    BY <2>1, <2>2, <2>3
<1>10. ASSUME NEW r \in Runs, DeleteFixtures(r) PROVE TypeOK'
  <2>1. fixtures' \in [Seconds -> BOOLEAN]
    BY <1>10 DEF DeleteFixtures
  <2>2. pc' = [pc EXCEPT ![r] = "save"] /\ pc[r] = "clean"
        /\ faults' \in 0..MaxFaults
    BY <1>10 DEF DeleteFixtures
  <2>3. UNCHANGED <<profile, keep, stamp, address, exitCode, second, config,
                    saved, daemon>>
    BY <1>10 DEF DeleteFixtures
  <2> QED
    BY <2>1, <2>2, <2>3
<1>11. ASSUME NEW r \in Runs, SaveResults(r) PROVE TypeOK'
  BY <1>11 DEF SaveResults
<1>12. ASSUME NEW r \in Runs, RemoveTester(r) PROVE TypeOK'
  <2>1. tester' \in [Seconds -> Containers]
    BY <1>12, Named, Nothing DEF RemoveTester
  <2>2. pc' \in [Runs -> Points]
    BY <1>12 DEF RemoveTester
  <2> QED
    BY <1>12, <2>1, <2>2 DEF RemoveTester
<1>13. ASSUME NEW r \in Runs, RemoveGateway(r) PROVE TypeOK'
  <2>1. gateway' \in [Seconds -> Gateways]
    BY <1>13, Named, Nothing DEF RemoveGateway
  <2>2. pc' \in [Runs -> Points]
    BY <1>13 DEF RemoveGateway
  <2> QED
    BY <1>13, <2>1, <2>2 DEF RemoveGateway
<1>14. ASSUME NEW r \in Runs, RemoveNetwork(r) PROVE TypeOK'
  <2>1. network' \in [Seconds -> Owners]
    BY <1>14 DEF RemoveNetwork
  <2>2. /\ pc' = [pc EXCEPT ![r] = "exited"] /\ pc[r] = "removeNetwork"
        /\ faults' \in 0..MaxFaults
    BY <1>14 DEF RemoveNetwork
  <2>3. UNCHANGED <<profile, keep, stamp, address, exitCode, second, directory,
                    image, tester, gateway>>
    BY <1>14 DEF RemoveNetwork
  <2> QED
    BY <2>1, <2>2, <2>3
<1>15. ASSUME NEW r \in Runs, Fail(r) PROVE TypeOK'
  BY <1>15 DEF Fail
<1>16. ASSUME NEW s \in Seconds, TesterEnds(s) PROVE TypeOK'
  <2>1. tester[s] \in [owner: Runs, state: {"created", "running", "exited"},
                       passed: BOOLEAN]
    BY <1>16 DEF TesterEnds, Containers, NoContainer
  <2>2. PICK passed \in BOOLEAN : tester' = [tester EXCEPT ![s] =
          [tester[s] EXCEPT !.state = "exited", !.passed = passed]]
    BY <1>16 DEF TesterEnds
  <2>3. [tester[s] EXCEPT !.state = "exited", !.passed = passed] \in Containers
    BY <2>1 DEF Containers
  <2>4. tester' \in [Seconds -> Containers]
    BY <2>2, <2>3
  <2> QED
    BY <1>16, <2>4 DEF TesterEnds, process
<1>17. ASSUME NEW s \in Seconds, GatewayStops(s) PROVE TypeOK'
  <2>1. gateway[s] \in [owner: Runs, state: {"running", "exited"},
                        connected: BOOLEAN]
    BY <1>17 DEF GatewayStops, Gateways, NoGateway
  <2>2. [gateway[s] EXCEPT !.state = "exited"] \in Gateways
    BY <2>1 DEF Gateways
  <2>3. gateway' \in [Seconds -> Gateways]
    BY <1>17, <2>2 DEF GatewayStops
  <2> QED
    BY <1>17, <2>3 DEF GatewayStops, process
<1>18. CASE Tick
  BY <1>18 DEF Tick, process
<1>19. CASE UNCHANGED vars
  BY <1>19 DEF vars, process
<1> QED
  BY <1>1, <1>2, <1>3, <1>4, <1>5, <1>6, <1>7, <1>8, <1>9, <1>10, <1>11,
     <1>12, <1>13, <1>14, <1>15, <1>16, <1>17, <1>18, <1>19 DEF Next, Step

----------------------------------------------------------------------------
\* What each action does, point by point.

\* A run moves on and no other does.
Moves(r, from, to) ==
  /\ pc[r] = from /\ pc'[r] \in to
  /\ \A q \in Runs \ {r} : pc'[q] = pc[q]

\* It works under its own name, and which names are shared stays as it was.
UnderItsName(r) ==
  /\ stamp[r] \in Seconds /\ stamp[r] # 0
  /\ DistinctSeconds => \A q \in Runs \ {r} : stamp[q] # stamp[r]

\* A function changes at one point only.
OnlyAt(f, g, s) == \A x \in Seconds \ {s} : g[x] = f[x]

LEMMA ItsName ==
  ASSUME TypeOK, NEW r \in Runs, pc[r] \notin NotNamed \cup Ended
  PROVE  UnderItsName(r)
<1>1. stamp[r] \in Seconds /\ stamp[r] # 0
  BY Named, BoundsAssumption DEF Seconds
<1> QED
  BY <1>1 DEF UnderItsName, DistinctSeconds

LEMMA SameNames ==
  ASSUME UNCHANGED stamp
  PROVE  DistinctSeconds' <=> DistinctSeconds
BY DEF DistinctSeconds

\* A command that failed is not forgotten.
LEMMA FaultsStay ==
  ASSUME TypeOK, [Next]_vars, faults' = 0
  PROVE  faults = 0
<1>1. faults' \in {faults, faults + 1}
  BY DEF Next, Step, vars, EnsureImage, BuildImage, StartRun, CreateNetwork,
         RunGateway, ConnectGateway, InspectGateway, RunTester,
         TesterReturned, DeleteFixtures, SaveResults, RemoveTester,
         RemoveGateway, RemoveNetwork, Fail, TesterEnds, GatewayStops, Tick,
         Succeeds, Fails
<1> QED
  BY <1>1, BoundsAssumption DEF TypeOK

LEMMA EnsureImageEffect ==
  ASSUME TypeOK, NEW r \in Runs, EnsureImage(r)
  PROVE  /\ Moves(r, "ensure", {"build", "start", "exited"}) /\ stamp[r] = 0
         /\ pc'[r] = "exited" => exitCode'[r] = "nonzero"
         /\ \A q \in Runs \ {r} : exitCode'[q] = exitCode[q]
         /\ UNCHANGED <<profile, keep, stamp, config, fixtures, saved, tester,
                        gateway, network, faults>>
BY ItsName, Nothing, NoRunAssumption
   DEF EnsureImage, Moves, OnlyAt, TypeOK, NotNamed, Ended, Goto, Return,
       Succeeds, Fails, directory, daemon, process

LEMMA BuildImageEffect ==
  ASSUME TypeOK, NEW r \in Runs, BuildImage(r)
  PROVE  /\ Moves(r, "build", {"start", "exited"}) /\ stamp[r] = 0
         /\ pc'[r] = "exited" => exitCode'[r] = "nonzero"
         /\ \A q \in Runs \ {r} : exitCode'[q] = exitCode[q]
         /\ UNCHANGED <<profile, keep, stamp, config, fixtures, saved, tester,
                        gateway, network, faults>>
BY ItsName, Nothing, NoRunAssumption
   DEF BuildImage, Moves, OnlyAt, TypeOK, NotNamed, Ended, Goto, Return,
       Succeeds, Fails, directory, daemon, process

LEMMA StartRunEffect ==
  ASSUME TypeOK, NEW r \in Runs, StartRun(r)
  PROVE  /\ Moves(r, "start", {"network", "run"})
         /\ second \in Seconds /\ second # 0
         /\ stamp[r] = 0 /\ stamp'[r] = second
         /\ \A q \in Runs \ {r} : stamp'[q] = stamp[q]
         /\ pc'[r] = "network" => profile[r].gateway
         /\ config'[second] = r /\ OnlyAt(config, config', second)
         /\ fixtures'[second] <=> fixtures[second] \/ profile[r].fixtures
         /\ OnlyAt(fixtures, fixtures', second)
         /\ UNCHANGED <<profile, keep, exitCode, saved, tester, gateway,
                        network, faults>>
<1>1. second \in Seconds /\ second # 0
  BY BoundsAssumption DEF TypeOK, Seconds
<1>2. stamp[r] = 0 /\ stamp' = [stamp EXCEPT ![r] = second]
  BY DEF StartRun, TypeOK, NotNamed
<1>3. stamp'[r] = second /\ \A q \in Runs \ {r} : stamp'[q] = stamp[q]
  BY <1>2 DEF TypeOK
<1>4. Moves(r, "start", {"network", "run"}) /\ (pc'[r] = "network" => profile[r].gateway)
  BY DEF StartRun, Moves, Goto, TypeOK
<1>5. config'[second] = r /\ OnlyAt(config, config', second)
  BY <1>1 DEF StartRun, OnlyAt, TypeOK
<1>6. fixtures'[second] <=> fixtures[second] \/ profile[r].fixtures
  BY <1>1 DEF StartRun, TypeOK
<1>7. OnlyAt(fixtures, fixtures', second)
  BY DEF StartRun, OnlyAt, TypeOK
<1> QED
  BY <1>1, <1>2, <1>3, <1>4, <1>5, <1>6, <1>7 DEF StartRun, daemon

LEMMA CreateNetworkEffect ==
  ASSUME TypeOK, NEW r \in Runs, CreateNetwork(r)
  PROVE  /\ Moves(r, "network", {"gateway"}) /\ UnderItsName(r)
         /\ OnlyAt(network, network', stamp[r])
         /\ \/ network'[stamp[r]] = network[stamp[r]]
            \/ network[stamp[r]] = NoRun /\ network'[stamp[r]] = r
         /\ UNCHANGED <<profile, keep, stamp, exitCode, config, fixtures,
                        saved, tester, gateway>>
BY ItsName, Nothing, NoRunAssumption
   DEF CreateNetwork, Moves, OnlyAt, TypeOK, NotNamed, Ended, Goto, Return,
       Succeeds, Fails, directory, daemon, process

LEMMA RunGatewayEffect ==
  ASSUME TypeOK, NEW r \in Runs, RunGateway(r)
  PROVE  /\ Moves(r, "gateway", {"connect"}) /\ UnderItsName(r)
         /\ OnlyAt(gateway, gateway', stamp[r])
         /\ gateway'[stamp[r]].owner \in {gateway[stamp[r]].owner, r}
         /\ UNCHANGED <<profile, keep, stamp, exitCode, config, fixtures,
                        saved, tester, network>>
BY ItsName, Nothing, NoRunAssumption
   DEF RunGateway, Moves, OnlyAt, TypeOK, NotNamed, Ended, Goto, Return,
       Succeeds, Fails, directory, daemon, process

LEMMA ConnectGatewayEffect ==
  ASSUME TypeOK, NEW r \in Runs, ConnectGateway(r)
  PROVE  /\ Moves(r, "connect", {"inspect"}) /\ UnderItsName(r)
         /\ OnlyAt(gateway, gateway', stamp[r])
         /\ gateway'[stamp[r]].owner = gateway[stamp[r]].owner
         /\ UNCHANGED <<profile, keep, stamp, exitCode, config, fixtures,
                        saved, tester, network>>
<1>1. pc[r] \notin NotNamed \cup Ended
  BY DEF ConnectGateway, NotNamed, Ended
<1>2. UnderItsName(r) /\ stamp[r] \in Seconds
  BY <1>1, ItsName DEF UnderItsName
<1>3. \/ gateway' = gateway
      \/ gateway' = [gateway EXCEPT ![stamp[r]] =
                       [gateway[stamp[r]] EXCEPT !.connected = TRUE]]
  BY <1>2 DEF ConnectGateway, Succeeds, Fails, TypeOK
<1>4. \A g \in Gateways : [g EXCEPT !.connected = TRUE].owner = g.owner
  BY DEF Gateways, NoGateway
<1>5. gateway[stamp[r]] \in Gateways
  BY <1>2 DEF TypeOK
<1>6. gateway'[stamp[r]].owner = gateway[stamp[r]].owner
  BY <1>2, <1>3, <1>4, <1>5 DEF TypeOK
<1>7. OnlyAt(gateway, gateway', stamp[r])
  BY <1>3 DEF OnlyAt, TypeOK
<1>8. Moves(r, "connect", {"inspect"})
  BY DEF ConnectGateway, Moves, Goto, TypeOK
<1> QED
  BY <1>2, <1>6, <1>7, <1>8 DEF ConnectGateway, directory

LEMMA InspectGatewayEffect ==
  ASSUME TypeOK, NEW r \in Runs, InspectGateway(r)
  PROVE  /\ Moves(r, "inspect", {"run"})
         /\ UNCHANGED <<profile, keep, stamp, exitCode, config, fixtures,
                        saved, tester, gateway, network>>
BY ItsName, Nothing, NoRunAssumption
   DEF InspectGateway, Moves, OnlyAt, TypeOK, NotNamed, Ended, Goto, Return,
       Succeeds, Fails, directory, daemon, process

LEMMA RunTesterEffect ==
  ASSUME TypeOK, NEW r \in Runs, RunTester(r)
  PROVE  /\ Moves(r, "run", {"wait", "clean"}) /\ UnderItsName(r)
         /\ OnlyAt(tester, tester', stamp[r])
         /\ \/ tester'[stamp[r]] = tester[stamp[r]]
            \/ /\ tester[stamp[r]] = NoContainer /\ tester'[stamp[r]].owner = r
               /\ \/ tester'[stamp[r]].state = "created"
                  \/ /\ tester'[stamp[r]].state = "running" /\ pc'[r] = "wait"
                     /\ profile[r].gateway => network[stamp[r]] # NoRun
         /\ pc'[r] = "clean" => exitCode'[r] = "nonzero"
         /\ \A q \in Runs \ {r} : exitCode'[q] = exitCode[q]
         /\ UNCHANGED <<profile, keep, stamp, config, fixtures, saved,
                        gateway, network>>
BY ItsName, Nothing, NoRunAssumption
   DEF RunTester, Moves, OnlyAt, TypeOK, NotNamed, Ended, Goto, Return,
       Succeeds, Fails, directory, daemon, process

LEMMA TesterReturnedEffect ==
  ASSUME TypeOK, NEW r \in Runs, TesterReturned(r)
  PROVE  /\ Moves(r, "wait", {"clean"}) /\ UnderItsName(r)
         /\ tester[stamp[r]].owner = r => tester[stamp[r]].state = "exited"
         /\ exitCode'[r] = "zero" =>
              tester[stamp[r]] = PassedTester(r)
         /\ \A q \in Runs \ {r} : exitCode'[q] = exitCode[q]
         /\ UNCHANGED <<profile, keep, stamp, config, fixtures, saved, tester,
                        gateway, network, faults>>
<1>1. pc[r] \notin NotNamed \cup Ended
  BY DEF TesterReturned, NotNamed, Ended
<1>2. UnderItsName(r) /\ stamp[r] \in Seconds
  BY <1>1, ItsName DEF UnderItsName
<1>3. Moves(r, "wait", {"clean"})
  BY DEF TesterReturned, Moves, Goto, TypeOK
<1>4. tester[stamp[r]].owner = r => tester[stamp[r]].state = "exited"
  BY DEF TesterReturned
<1>5. exitCode'[r] = "zero" =>
        tester[stamp[r]].owner = r /\ tester[stamp[r]].state = "exited"
        /\ tester[stamp[r]].passed
  BY DEF TesterReturned, TypeOK
<1>6. tester[stamp[r]] \in Containers
  BY <1>2 DEF TypeOK
<1>7. exitCode'[r] = "zero" =>
        tester[stamp[r]] = PassedTester(r)
  <2> SUFFICES ASSUME exitCode'[r] = "zero"
               PROVE  tester[stamp[r]] = PassedTester(r)
    OBVIOUS
  <2>1. tester[stamp[r]] \in [owner: Runs, state: {"created", "running", "exited"},
                              passed: BOOLEAN]
    BY <1>5, <1>6 DEF Containers, NoContainer
  <2>2. tester[stamp[r]].passed = TRUE
    BY <1>5, <2>1
  <2> QED
    BY <1>5, <2>1, <2>2 DEF PassedTester
<1>8. \A q \in Runs \ {r} : exitCode'[q] = exitCode[q]
  BY DEF TesterReturned, TypeOK
<1> QED
  BY <1>2, <1>3, <1>4, <1>7, <1>8 DEF TesterReturned, directory, daemon

LEMMA DeleteFixturesEffect ==
  ASSUME TypeOK, NEW r \in Runs, DeleteFixtures(r)
  PROVE  /\ Moves(r, "clean", {"save"}) /\ UnderItsName(r)
         /\ OnlyAt(fixtures, fixtures', stamp[r])
         /\ fixtures'[stamp[r]] => fixtures[stamp[r]]
         /\ faults' = 0 => (fixtures'[stamp[r]] <=>
                              fixtures[stamp[r]] /\ ~profile[r].fixtures)
         /\ UNCHANGED <<profile, keep, stamp, exitCode, config, saved, tester,
                        gateway, network>>
<1>1. pc[r] \notin NotNamed \cup Ended
  BY DEF DeleteFixtures, NotNamed, Ended
<1>2. UnderItsName(r) /\ stamp[r] \in Seconds
  BY <1>1, ItsName DEF UnderItsName
<1>3. Moves(r, "clean", {"save"})
  BY DEF DeleteFixtures, Moves, Goto, TypeOK
<1>4. \/ fixtures' = fixtures /\ faults' = faults + 1
      \/ fixtures' = [fixtures EXCEPT ![stamp[r]] = @ /\ ~profile[r].fixtures]
  BY DEF DeleteFixtures, Succeeds, Fails
<1>5. faults' = faults + 1 => faults' # 0
  BY BoundsAssumption DEF TypeOK
<1>6. OnlyAt(fixtures, fixtures', stamp[r])
  BY <1>4 DEF OnlyAt, TypeOK
<1>7. CASE fixtures' = fixtures /\ faults' = faults + 1
  BY <1>2, <1>3, <1>5, <1>6, <1>7 DEF DeleteFixtures, daemon
<1>8. CASE fixtures' = [fixtures EXCEPT ![stamp[r]] = @ /\ ~profile[r].fixtures]
  <2>1. fixtures'[stamp[r]] <=> fixtures[stamp[r]] /\ ~profile[r].fixtures
    BY <1>2, <1>8 DEF TypeOK
  <2> QED
    BY <1>2, <1>3, <1>6, <2>1 DEF DeleteFixtures, daemon
<1> QED
  BY <1>4, <1>7, <1>8

LEMMA SaveResultsEffect ==
  ASSUME TypeOK, NEW r \in Runs, SaveResults(r)
  PROVE  /\ Moves(r, "save", {"remove", "exited"}) /\ UnderItsName(r)
         /\ pc'[r] = "remove" => ~keep[r]
         /\ pc'[r] = "exited" => keep[r]
         /\ saved'[stamp[r]] = r /\ OnlyAt(saved, saved', stamp[r])
         /\ UNCHANGED <<profile, keep, stamp, exitCode, config, fixtures,
                        tester, gateway, network, faults>>
<1>1. pc[r] \notin NotNamed \cup Ended
  BY DEF SaveResults, NotNamed, Ended
<1>2. UnderItsName(r) /\ stamp[r] \in Seconds
  BY <1>1, ItsName DEF UnderItsName
<1>3. /\ Moves(r, "save", {"remove", "exited"})
      /\ pc'[r] = "remove" => ~keep[r]
      /\ pc'[r] = "exited" => keep[r]
  BY DEF SaveResults, Moves, Goto, TypeOK
<1>4. saved'[stamp[r]] = r /\ OnlyAt(saved, saved', stamp[r])
  BY <1>2 DEF SaveResults, OnlyAt, TypeOK
<1> QED
  BY <1>2, <1>3, <1>4 DEF SaveResults, daemon

LEMMA RemoveTesterEffect ==
  ASSUME TypeOK, NEW r \in Runs, RemoveTester(r)
  PROVE  /\ Moves(r, "remove", {"removeGateway", "exited"}) /\ UnderItsName(r)
         /\ pc'[r] = "exited" <=> ~profile[r].gateway
         /\ OnlyAt(tester, tester', stamp[r])
         /\ tester'[stamp[r]] \in {tester[stamp[r]], NoContainer}
         /\ faults' = 0 => tester'[stamp[r]] = NoContainer
         /\ UNCHANGED <<profile, keep, stamp, exitCode, config, fixtures,
                        saved, gateway, network>>
<1>1. pc[r] \notin NotNamed \cup Ended
  BY DEF RemoveTester, NotNamed, Ended
<1>2. UnderItsName(r) /\ stamp[r] \in Seconds
  BY <1>1, ItsName DEF UnderItsName
<1>3. /\ Moves(r, "remove", {"removeGateway", "exited"})
      /\ pc'[r] = "exited" <=> ~profile[r].gateway
  BY DEF RemoveTester, Moves, Goto, TypeOK
<1>4. \/ tester' = tester /\ faults' = faults + 1
      \/ tester' = [tester EXCEPT ![stamp[r]] = NoContainer]
  BY DEF RemoveTester, Succeeds, Fails
<1>5. faults' = faults + 1 => faults' # 0
  BY BoundsAssumption DEF TypeOK
<1>6. /\ OnlyAt(tester, tester', stamp[r])
      /\ tester'[stamp[r]] \in {tester[stamp[r]], NoContainer}
      /\ faults' = 0 => tester'[stamp[r]] = NoContainer
  BY <1>2, <1>4, <1>5 DEF OnlyAt, TypeOK
<1> QED
  BY <1>2, <1>3, <1>6 DEF RemoveTester, directory

LEMMA RemoveGatewayEffect ==
  ASSUME TypeOK, NEW r \in Runs, RemoveGateway(r)
  PROVE  /\ Moves(r, "removeGateway", {"removeNetwork"}) /\ UnderItsName(r)
         /\ OnlyAt(gateway, gateway', stamp[r])
         /\ gateway'[stamp[r]] \in {gateway[stamp[r]], NoGateway}
         /\ faults' = 0 => gateway'[stamp[r]] = NoGateway
         /\ UNCHANGED <<profile, keep, stamp, exitCode, config, fixtures,
                        saved, tester, network>>
<1>1. pc[r] \notin NotNamed \cup Ended
  BY DEF RemoveGateway, NotNamed, Ended
<1>2. UnderItsName(r) /\ stamp[r] \in Seconds
  BY <1>1, ItsName DEF UnderItsName
<1>3. Moves(r, "removeGateway", {"removeNetwork"})
  BY DEF RemoveGateway, Moves, Goto, TypeOK
<1>4. \/ gateway' = gateway /\ faults' = faults + 1
      \/ gateway' = [gateway EXCEPT ![stamp[r]] = NoGateway]
  BY DEF RemoveGateway, Succeeds, Fails
<1>5. faults' = faults + 1 => faults' # 0
  BY BoundsAssumption DEF TypeOK
<1>6. /\ OnlyAt(gateway, gateway', stamp[r])
      /\ gateway'[stamp[r]] \in {gateway[stamp[r]], NoGateway}
      /\ faults' = 0 => gateway'[stamp[r]] = NoGateway
  BY <1>2, <1>4, <1>5 DEF OnlyAt, TypeOK
<1> QED
  BY <1>2, <1>3, <1>6 DEF RemoveGateway, directory

LEMMA RemoveNetworkEffect ==
  ASSUME TypeOK, NEW r \in Runs, RemoveNetwork(r)
  PROVE  /\ Moves(r, "removeNetwork", {"exited"}) /\ UnderItsName(r)
         /\ OnlyAt(network, network', stamp[r])
         /\ network'[stamp[r]] \in {network[stamp[r]], NoRun}
         /\ InUse(stamp[r]) => network'[stamp[r]] = network[stamp[r]]
         /\ faults' = 0 /\ ~InUse(stamp[r]) => network'[stamp[r]] = NoRun
         /\ UNCHANGED <<profile, keep, stamp, exitCode, config, fixtures,
                        saved, tester, gateway>>
<1>1. pc[r] \notin NotNamed \cup Ended
  BY DEF RemoveNetwork, NotNamed, Ended
<1>2. UnderItsName(r) /\ stamp[r] \in Seconds
  BY <1>1, ItsName DEF UnderItsName
<1>3. Moves(r, "removeNetwork", {"exited"})
  BY DEF RemoveNetwork, Moves, Goto, TypeOK
<1>4. \/ network' = network /\ (faults' = faults + 1 \/ InUse(stamp[r]))
      \/ network' = [network EXCEPT ![stamp[r]] = NoRun] /\ ~InUse(stamp[r])
  BY <1>2 DEF RemoveNetwork, Succeeds, Fails, TypeOK
<1>5. faults' = faults + 1 => faults' # 0
  BY BoundsAssumption DEF TypeOK
<1>6. /\ OnlyAt(network, network', stamp[r])
      /\ network'[stamp[r]] \in {network[stamp[r]], NoRun}
      /\ InUse(stamp[r]) => network'[stamp[r]] = network[stamp[r]]
      /\ faults' = 0 /\ ~InUse(stamp[r]) => network'[stamp[r]] = NoRun
  BY <1>2, <1>4, <1>5 DEF OnlyAt, TypeOK
<1> QED
  BY <1>2, <1>3, <1>6 DEF RemoveNetwork, directory

LEMMA FailEffect ==
  ASSUME TypeOK, NEW r \in Runs, Fail(r)
  PROVE  /\ pc[r] \notin Ended /\ Moves(r, pc[r], {"failed"})
         /\ UNCHANGED <<profile, keep, stamp, exitCode, config, fixtures,
                        saved, tester, gateway, network, faults>>
BY ItsName, Nothing, NoRunAssumption
   DEF Fail, Moves, OnlyAt, TypeOK, NotNamed, Ended, Goto, Return, Succeeds,
       Fails, directory, daemon, process

LEMMA TesterEndsEffect ==
  ASSUME TypeOK, NEW s \in Seconds, TesterEnds(s)
  PROVE  /\ OnlyAt(tester, tester', s)
         /\ tester[s].state = "running" /\ tester'[s].state = "exited"
         /\ tester'[s].owner = tester[s].owner
         /\ UNCHANGED <<pc, profile, keep, stamp, exitCode, config, fixtures,
                        saved, gateway, network, faults>>
BY ItsName, Nothing, NoRunAssumption
   DEF TesterEnds, Moves, OnlyAt, TypeOK, NotNamed, Ended, Goto, Return,
       Succeeds, Fails, directory, daemon, process

LEMMA GatewayStopsEffect ==
  ASSUME TypeOK, NEW s \in Seconds, GatewayStops(s)
  PROVE  /\ OnlyAt(gateway, gateway', s)
         /\ gateway[s].state = "running" /\ gateway'[s].state = "exited"
         /\ gateway'[s].owner = gateway[s].owner
         /\ UNCHANGED <<pc, profile, keep, stamp, exitCode, config, fixtures,
                        saved, tester, network>>
BY ItsName, Nothing, NoRunAssumption
   DEF GatewayStops, Moves, OnlyAt, TypeOK, NotNamed, Ended, Goto, Return,
       Succeeds, Fails, directory, daemon, process

\* A run alone in its second was alone before it, and finds the second unused.
LEMMA StartsAlone ==
  ASSUME TypeOK, NEW r \in Runs, StartRun(r), DistinctSeconds'
  PROVE  DistinctSeconds /\ \A q \in Runs : stamp[q] # second
BY StartRunEffect DEF DistinctSeconds

----------------------------------------------------------------------------
\* Every step keeps every part of the invariant.

\* The gateway's commands follow StartRun only.
LEMMA GatewayWantedStep ==
  ASSUME TypeOK, GatewayWanted, [Next]_vars
  PROVE  GatewayWanted'
<1> USE Nothing, WhatIsThere, Stamped, SameNames, NoRunAssumption
<1> USE DEF GatewayWanted, Moves, OnlyAt, UnderItsName, NotNamed, BeforeClean,
            Removing, Ended
<1>1. ASSUME NEW r \in Runs, EnsureImage(r) PROVE GatewayWanted'
  BY <1>1, EnsureImageEffect
<1>2. ASSUME NEW r \in Runs, BuildImage(r) PROVE GatewayWanted'
  BY <1>2, BuildImageEffect
<1>3. ASSUME NEW r \in Runs, StartRun(r) PROVE GatewayWanted'
  BY <1>3, StartRunEffect, StartsAlone DEF Seconds
<1>4. ASSUME NEW r \in Runs, CreateNetwork(r) PROVE GatewayWanted'
  BY <1>4, CreateNetworkEffect
<1>5. ASSUME NEW r \in Runs, RunGateway(r) PROVE GatewayWanted'
  BY <1>5, RunGatewayEffect
<1>6. ASSUME NEW r \in Runs, ConnectGateway(r) PROVE GatewayWanted'
  BY <1>6, ConnectGatewayEffect
<1>7. ASSUME NEW r \in Runs, InspectGateway(r) PROVE GatewayWanted'
  BY <1>7, InspectGatewayEffect
<1>8. ASSUME NEW r \in Runs, RunTester(r) PROVE GatewayWanted'
  BY <1>8, RunTesterEffect
<1>9. ASSUME NEW r \in Runs, TesterReturned(r) PROVE GatewayWanted'
  BY <1>9, TesterReturnedEffect
<1>10. ASSUME NEW r \in Runs, DeleteFixtures(r) PROVE GatewayWanted'
  BY <1>10, DeleteFixturesEffect
<1>11. ASSUME NEW r \in Runs, SaveResults(r) PROVE GatewayWanted'
  BY <1>11, SaveResultsEffect
<1>12. ASSUME NEW r \in Runs, RemoveTester(r) PROVE GatewayWanted'
  BY <1>12, RemoveTesterEffect
<1>13. ASSUME NEW r \in Runs, RemoveGateway(r) PROVE GatewayWanted'
  BY <1>13, RemoveGatewayEffect
<1>14. ASSUME NEW r \in Runs, RemoveNetwork(r) PROVE GatewayWanted'
  BY <1>14, RemoveNetworkEffect
<1>15. ASSUME NEW r \in Runs, Fail(r) PROVE GatewayWanted'
  BY <1>15, FailEffect
<1>16. ASSUME NEW s \in Seconds, TesterEnds(s) PROVE GatewayWanted'
  BY <1>16, TesterEndsEffect
<1>17. ASSUME NEW s \in Seconds, GatewayStops(s) PROVE GatewayWanted'
  BY <1>17, GatewayStopsEffect
<1>18. ASSUME Tick PROVE GatewayWanted'
  BY <1>18 DEF Tick, process, directory, daemon
<1>19. CASE UNCHANGED vars
  BY <1>19 DEF vars, process, directory, daemon
<1> QED
  BY <1>1, <1>2, <1>3, <1>4, <1>5, <1>6, <1>7, <1>8, <1>9, <1>10, <1>11,
     <1>12, <1>13, <1>14, <1>15, <1>16, <1>17, <1>18, <1>19 DEF Next, Step

\* Making gives the maker's second; what a run never wanted it never made.
LEMMA OwnersOKStep ==
  ASSUME TypeOK, OwnersOK, GatewayWanted, [Next]_vars
  PROVE  OwnersOK'
<1> USE Nothing, WhatIsThere, Stamped, SameNames, NoRunAssumption
<1> USE DEF OwnersOK, GatewayWanted, Moves, OnlyAt, UnderItsName, NotNamed,
            BeforeClean, Removing, Ended
<1>1. ASSUME NEW r \in Runs, EnsureImage(r) PROVE OwnersOK'
  BY <1>1, EnsureImageEffect
<1>2. ASSUME NEW r \in Runs, BuildImage(r) PROVE OwnersOK'
  BY <1>2, BuildImageEffect
<1>3. ASSUME NEW r \in Runs, StartRun(r) PROVE OwnersOK'
  BY <1>3, StartRunEffect, StartsAlone DEF Seconds
<1>4. ASSUME NEW r \in Runs, CreateNetwork(r) PROVE OwnersOK'
  BY <1>4, CreateNetworkEffect
<1>5. ASSUME NEW r \in Runs, RunGateway(r) PROVE OwnersOK'
  BY <1>5, RunGatewayEffect
<1>6. ASSUME NEW r \in Runs, ConnectGateway(r) PROVE OwnersOK'
  BY <1>6, ConnectGatewayEffect
<1>7. ASSUME NEW r \in Runs, InspectGateway(r) PROVE OwnersOK'
  BY <1>7, InspectGatewayEffect
<1>8. ASSUME NEW r \in Runs, RunTester(r) PROVE OwnersOK'
  BY <1>8, RunTesterEffect
<1>9. ASSUME NEW r \in Runs, TesterReturned(r) PROVE OwnersOK'
  BY <1>9, TesterReturnedEffect
<1>10. ASSUME NEW r \in Runs, DeleteFixtures(r) PROVE OwnersOK'
  BY <1>10, DeleteFixturesEffect
<1>11. ASSUME NEW r \in Runs, SaveResults(r) PROVE OwnersOK'
  BY <1>11, SaveResultsEffect
<1>12. ASSUME NEW r \in Runs, RemoveTester(r) PROVE OwnersOK'
  BY <1>12, RemoveTesterEffect
<1>13. ASSUME NEW r \in Runs, RemoveGateway(r) PROVE OwnersOK'
  BY <1>13, RemoveGatewayEffect
<1>14. ASSUME NEW r \in Runs, RemoveNetwork(r) PROVE OwnersOK'
  BY <1>14, RemoveNetworkEffect
<1>15. ASSUME NEW r \in Runs, Fail(r) PROVE OwnersOK'
  BY <1>15, FailEffect
<1>16. ASSUME NEW s \in Seconds, TesterEnds(s) PROVE OwnersOK'
  BY <1>16, TesterEndsEffect
<1>17. ASSUME NEW s \in Seconds, GatewayStops(s) PROVE OwnersOK'
  BY <1>17, GatewayStopsEffect
<1>18. ASSUME Tick PROVE OwnersOK'
  BY <1>18 DEF Tick, process, directory, daemon
<1>19. CASE UNCHANGED vars
  BY <1>19 DEF vars, process, directory, daemon
<1> QED
  BY <1>1, <1>2, <1>3, <1>4, <1>5, <1>6, <1>7, <1>8, <1>9, <1>10, <1>11,
     <1>12, <1>13, <1>14, <1>15, <1>16, <1>17, <1>18, <1>19 DEF Next, Step

\* A tester starts with its command waiting, and outlives it only by a failure.
LEMMA RunningOKStep ==
  ASSUME TypeOK, RunningOK, OwnersOK, [Next]_vars
  PROVE  RunningOK'
<1> USE Nothing, WhatIsThere, Stamped, SameNames, NoRunAssumption
<1> USE DEF RunningOK, OwnersOK, Moves, OnlyAt, UnderItsName, NotNamed,
            BeforeClean, Removing, Ended
<1>1. ASSUME NEW r \in Runs, EnsureImage(r) PROVE RunningOK'
  BY <1>1, EnsureImageEffect
<1>2. ASSUME NEW r \in Runs, BuildImage(r) PROVE RunningOK'
  BY <1>2, BuildImageEffect
<1>3. ASSUME NEW r \in Runs, StartRun(r) PROVE RunningOK'
  BY <1>3, StartRunEffect, StartsAlone DEF Seconds
<1>4. ASSUME NEW r \in Runs, CreateNetwork(r) PROVE RunningOK'
  BY <1>4, CreateNetworkEffect
<1>5. ASSUME NEW r \in Runs, RunGateway(r) PROVE RunningOK'
  BY <1>5, RunGatewayEffect
<1>6. ASSUME NEW r \in Runs, ConnectGateway(r) PROVE RunningOK'
  BY <1>6, ConnectGatewayEffect
<1>7. ASSUME NEW r \in Runs, InspectGateway(r) PROVE RunningOK'
  BY <1>7, InspectGatewayEffect
<1>8. ASSUME NEW r \in Runs, RunTester(r) PROVE RunningOK'
  BY <1>8, RunTesterEffect
<1>9. ASSUME NEW r \in Runs, TesterReturned(r) PROVE RunningOK'
  BY <1>9, TesterReturnedEffect
<1>10. ASSUME NEW r \in Runs, DeleteFixtures(r) PROVE RunningOK'
  BY <1>10, DeleteFixturesEffect
<1>11. ASSUME NEW r \in Runs, SaveResults(r) PROVE RunningOK'
  BY <1>11, SaveResultsEffect
<1>12. ASSUME NEW r \in Runs, RemoveTester(r) PROVE RunningOK'
  BY <1>12, RemoveTesterEffect
<1>13. ASSUME NEW r \in Runs, RemoveGateway(r) PROVE RunningOK'
  BY <1>13, RemoveGatewayEffect
<1>14. ASSUME NEW r \in Runs, RemoveNetwork(r) PROVE RunningOK'
  BY <1>14, RemoveNetworkEffect
<1>15. ASSUME NEW r \in Runs, Fail(r) PROVE RunningOK'
  BY <1>15, FailEffect
<1>16. ASSUME NEW s \in Seconds, TesterEnds(s) PROVE RunningOK'
  BY <1>16, TesterEndsEffect
<1>17. ASSUME NEW s \in Seconds, GatewayStops(s) PROVE RunningOK'
  BY <1>17, GatewayStopsEffect
<1>18. ASSUME Tick PROVE RunningOK'
  BY <1>18 DEF Tick, process, directory, daemon
<1>19. CASE UNCHANGED vars
  BY <1>19 DEF vars, process, directory, daemon
<1> QED
  BY <1>1, <1>2, <1>3, <1>4, <1>5, <1>6, <1>7, <1>8, <1>9, <1>10, <1>11,
     <1>12, <1>13, <1>14, <1>15, <1>16, <1>17, <1>18, <1>19 DEF Next, Step

\* The network is there when the tester starts, and docker keeps it while used.
LEMMA GatewayFailsClosedStep ==
  ASSUME TypeOK, GatewayFailsClosed, OwnersOK, [Next]_vars
  PROVE  GatewayFailsClosed'
<1> USE Nothing, WhatIsThere, Stamped, SameNames, NoRunAssumption
<1> USE DEF GatewayFailsClosed, OwnersOK, InUse, Moves, OnlyAt, UnderItsName,
            NotNamed, BeforeClean, Removing, Ended
<1>1. ASSUME NEW r \in Runs, EnsureImage(r) PROVE GatewayFailsClosed'
  BY <1>1, EnsureImageEffect
<1>2. ASSUME NEW r \in Runs, BuildImage(r) PROVE GatewayFailsClosed'
  BY <1>2, BuildImageEffect
<1>3. ASSUME NEW r \in Runs, StartRun(r) PROVE GatewayFailsClosed'
  BY <1>3, StartRunEffect, StartsAlone DEF Seconds
<1>4. ASSUME NEW r \in Runs, CreateNetwork(r) PROVE GatewayFailsClosed'
  BY <1>4, CreateNetworkEffect
<1>5. ASSUME NEW r \in Runs, RunGateway(r) PROVE GatewayFailsClosed'
  BY <1>5, RunGatewayEffect
<1>6. ASSUME NEW r \in Runs, ConnectGateway(r) PROVE GatewayFailsClosed'
  BY <1>6, ConnectGatewayEffect
<1>7. ASSUME NEW r \in Runs, InspectGateway(r) PROVE GatewayFailsClosed'
  BY <1>7, InspectGatewayEffect
<1>8. ASSUME NEW r \in Runs, RunTester(r) PROVE GatewayFailsClosed'
  BY <1>8, RunTesterEffect
<1>9. ASSUME NEW r \in Runs, TesterReturned(r) PROVE GatewayFailsClosed'
  BY <1>9, TesterReturnedEffect
<1>10. ASSUME NEW r \in Runs, DeleteFixtures(r) PROVE GatewayFailsClosed'
  BY <1>10, DeleteFixturesEffect
<1>11. ASSUME NEW r \in Runs, SaveResults(r) PROVE GatewayFailsClosed'
  BY <1>11, SaveResultsEffect
<1>12. ASSUME NEW r \in Runs, RemoveTester(r) PROVE GatewayFailsClosed'
  BY <1>12, RemoveTesterEffect
<1>13. ASSUME NEW r \in Runs, RemoveGateway(r) PROVE GatewayFailsClosed'
  BY <1>13, RemoveGatewayEffect
<1>14. ASSUME NEW r \in Runs, RemoveNetwork(r) PROVE GatewayFailsClosed'
  BY <1>14, RemoveNetworkEffect
<1>15. ASSUME NEW r \in Runs, Fail(r) PROVE GatewayFailsClosed'
  BY <1>15, FailEffect
<1>16. ASSUME NEW s \in Seconds, TesterEnds(s) PROVE GatewayFailsClosed'
  BY <1>16, TesterEndsEffect
<1>17. ASSUME NEW s \in Seconds, GatewayStops(s) PROVE GatewayFailsClosed'
  BY <1>17, GatewayStopsEffect
<1>18. ASSUME Tick PROVE GatewayFailsClosed'
  BY <1>18 DEF Tick, process, directory, daemon
<1>19. CASE UNCHANGED vars
  BY <1>19 DEF vars, process, directory, daemon
<1> QED
  BY <1>1, <1>2, <1>3, <1>4, <1>5, <1>6, <1>7, <1>8, <1>9, <1>10, <1>11,
     <1>12, <1>13, <1>14, <1>15, <1>16, <1>17, <1>18, <1>19 DEF Next, Step

\* Fixture trees appear in the second of the run that makes them.
LEMMA UnusedOKStep ==
  ASSUME TypeOK, UnusedOK, [Next]_vars
  PROVE  UnusedOK'
<1> USE Nothing, WhatIsThere, Stamped, SameNames, NoRunAssumption
<1> USE DEF UnusedOK, Moves, OnlyAt, UnderItsName, NotNamed, BeforeClean,
            Removing, Ended
<1>1. ASSUME NEW r \in Runs, EnsureImage(r) PROVE UnusedOK'
  BY <1>1, EnsureImageEffect
<1>2. ASSUME NEW r \in Runs, BuildImage(r) PROVE UnusedOK'
  BY <1>2, BuildImageEffect
<1>3. ASSUME NEW r \in Runs, StartRun(r) PROVE UnusedOK'
  BY <1>3, StartRunEffect, StartsAlone DEF Seconds
<1>4. ASSUME NEW r \in Runs, CreateNetwork(r) PROVE UnusedOK'
  BY <1>4, CreateNetworkEffect
<1>5. ASSUME NEW r \in Runs, RunGateway(r) PROVE UnusedOK'
  BY <1>5, RunGatewayEffect
<1>6. ASSUME NEW r \in Runs, ConnectGateway(r) PROVE UnusedOK'
  BY <1>6, ConnectGatewayEffect
<1>7. ASSUME NEW r \in Runs, InspectGateway(r) PROVE UnusedOK'
  BY <1>7, InspectGatewayEffect
<1>8. ASSUME NEW r \in Runs, RunTester(r) PROVE UnusedOK'
  BY <1>8, RunTesterEffect
<1>9. ASSUME NEW r \in Runs, TesterReturned(r) PROVE UnusedOK'
  BY <1>9, TesterReturnedEffect
<1>10. ASSUME NEW r \in Runs, DeleteFixtures(r) PROVE UnusedOK'
  BY <1>10, DeleteFixturesEffect
<1>11. ASSUME NEW r \in Runs, SaveResults(r) PROVE UnusedOK'
  BY <1>11, SaveResultsEffect
<1>12. ASSUME NEW r \in Runs, RemoveTester(r) PROVE UnusedOK'
  BY <1>12, RemoveTesterEffect
<1>13. ASSUME NEW r \in Runs, RemoveGateway(r) PROVE UnusedOK'
  BY <1>13, RemoveGatewayEffect
<1>14. ASSUME NEW r \in Runs, RemoveNetwork(r) PROVE UnusedOK'
  BY <1>14, RemoveNetworkEffect
<1>15. ASSUME NEW r \in Runs, Fail(r) PROVE UnusedOK'
  BY <1>15, FailEffect
<1>16. ASSUME NEW s \in Seconds, TesterEnds(s) PROVE UnusedOK'
  BY <1>16, TesterEndsEffect
<1>17. ASSUME NEW s \in Seconds, GatewayStops(s) PROVE UnusedOK'
  BY <1>17, GatewayStopsEffect
<1>18. ASSUME Tick PROVE UnusedOK'
  BY <1>18 DEF Tick, process, directory, daemon
<1>19. CASE UNCHANGED vars
  BY <1>19 DEF vars, process, directory, daemon
<1> QED
  BY <1>1, <1>2, <1>3, <1>4, <1>5, <1>6, <1>7, <1>8, <1>9, <1>10, <1>11,
     <1>12, <1>13, <1>14, <1>15, <1>16, <1>17, <1>18, <1>19 DEF Next, Step

\* Nobody else touches the directory of a run alone in its second.
LEMMA DirectoryOKStep ==
  ASSUME TypeOK, DirectoryOK, OwnersOK, RunningOK, UnusedOK, [Next]_vars
  PROVE  DirectoryOK'
<1> USE Nothing, WhatIsThere, Stamped, SameNames, NoRunAssumption
<1> USE DEF DirectoryOK, OwnersOK, RunningOK, UnusedOK, Moves, OnlyAt,
            UnderItsName, NotNamed, BeforeClean, Removing, Ended
<1>1. ASSUME NEW r \in Runs, EnsureImage(r) PROVE DirectoryOK'
  BY <1>1, EnsureImageEffect
<1>2. ASSUME NEW r \in Runs, BuildImage(r) PROVE DirectoryOK'
  BY <1>2, BuildImageEffect
<1>3. ASSUME NEW r \in Runs, StartRun(r) PROVE DirectoryOK'
  BY <1>3, StartRunEffect, StartsAlone DEF Seconds
<1>4. ASSUME NEW r \in Runs, CreateNetwork(r) PROVE DirectoryOK'
  BY <1>4, CreateNetworkEffect
<1>5. ASSUME NEW r \in Runs, RunGateway(r) PROVE DirectoryOK'
  BY <1>5, RunGatewayEffect
<1>6. ASSUME NEW r \in Runs, ConnectGateway(r) PROVE DirectoryOK'
  BY <1>6, ConnectGatewayEffect
<1>7. ASSUME NEW r \in Runs, InspectGateway(r) PROVE DirectoryOK'
  BY <1>7, InspectGatewayEffect
<1>8. ASSUME NEW r \in Runs, RunTester(r) PROVE DirectoryOK'
  BY <1>8, RunTesterEffect
<1>9. ASSUME NEW r \in Runs, TesterReturned(r) PROVE DirectoryOK'
  BY <1>9, TesterReturnedEffect
<1>10. ASSUME NEW r \in Runs, DeleteFixtures(r) PROVE DirectoryOK'
  BY <1>10, DeleteFixturesEffect
<1>11. ASSUME NEW r \in Runs, SaveResults(r) PROVE DirectoryOK'
  BY <1>11, SaveResultsEffect
<1>12. ASSUME NEW r \in Runs, RemoveTester(r) PROVE DirectoryOK'
  BY <1>12, RemoveTesterEffect
<1>13. ASSUME NEW r \in Runs, RemoveGateway(r) PROVE DirectoryOK'
  BY <1>13, RemoveGatewayEffect
<1>14. ASSUME NEW r \in Runs, RemoveNetwork(r) PROVE DirectoryOK'
  BY <1>14, RemoveNetworkEffect
<1>15. ASSUME NEW r \in Runs, Fail(r) PROVE DirectoryOK'
  BY <1>15, FailEffect
<1>16. ASSUME NEW s \in Seconds, TesterEnds(s) PROVE DirectoryOK'
  BY <1>16, TesterEndsEffect
<1>17. ASSUME NEW s \in Seconds, GatewayStops(s) PROVE DirectoryOK'
  BY <1>17, GatewayStopsEffect
<1>18. ASSUME Tick PROVE DirectoryOK'
  BY <1>18 DEF Tick, process, directory, daemon
<1>19. CASE UNCHANGED vars
  BY <1>19 DEF vars, process, directory, daemon
<1> QED
  BY <1>1, <1>2, <1>3, <1>4, <1>5, <1>6, <1>7, <1>8, <1>9, <1>10, <1>11,
     <1>12, <1>13, <1>14, <1>15, <1>16, <1>17, <1>18, <1>19 DEF Next, Step

\* Nobody else removes the network of a run alone in its second.
LEMMA NetworkOKStep ==
  ASSUME TypeOK, NetworkOK, OwnersOK, RunningOK, RemovalOK, GatewayFailsClosed, [Next]_vars
  PROVE  NetworkOK'
<1> USE Nothing, WhatIsThere, Stamped, SameNames, NoRunAssumption
<1> USE DEF NetworkOK, OwnersOK, RunningOK, RemovalOK, GatewayFailsClosed,
            InUse, Moves, OnlyAt, UnderItsName, NotNamed, BeforeClean,
            Removing, Ended
<1>1. ASSUME NEW r \in Runs, EnsureImage(r) PROVE NetworkOK'
  BY <1>1, EnsureImageEffect
<1>2. ASSUME NEW r \in Runs, BuildImage(r) PROVE NetworkOK'
  BY <1>2, BuildImageEffect
<1>3. ASSUME NEW r \in Runs, StartRun(r) PROVE NetworkOK'
  BY <1>3, StartRunEffect, StartsAlone DEF Seconds
<1>4. ASSUME NEW r \in Runs, CreateNetwork(r) PROVE NetworkOK'
  BY <1>4, CreateNetworkEffect
<1>5. ASSUME NEW r \in Runs, RunGateway(r) PROVE NetworkOK'
  BY <1>5, RunGatewayEffect
<1>6. ASSUME NEW r \in Runs, ConnectGateway(r) PROVE NetworkOK'
  BY <1>6, ConnectGatewayEffect
<1>7. ASSUME NEW r \in Runs, InspectGateway(r) PROVE NetworkOK'
  BY <1>7, InspectGatewayEffect
<1>8. ASSUME NEW r \in Runs, RunTester(r) PROVE NetworkOK'
  BY <1>8, RunTesterEffect
<1>9. ASSUME NEW r \in Runs, TesterReturned(r) PROVE NetworkOK'
  BY <1>9, TesterReturnedEffect
<1>10. ASSUME NEW r \in Runs, DeleteFixtures(r) PROVE NetworkOK'
  BY <1>10, DeleteFixturesEffect
<1>11. ASSUME NEW r \in Runs, SaveResults(r) PROVE NetworkOK'
  BY <1>11, SaveResultsEffect
<1>12. ASSUME NEW r \in Runs, RemoveTester(r) PROVE NetworkOK'
  BY <1>12, RemoveTesterEffect
<1>13. ASSUME NEW r \in Runs, RemoveGateway(r) PROVE NetworkOK'
  BY <1>13, RemoveGatewayEffect
<1>14. ASSUME NEW r \in Runs, RemoveNetwork(r) PROVE NetworkOK'
  BY <1>14, RemoveNetworkEffect
<1>15. ASSUME NEW r \in Runs, Fail(r) PROVE NetworkOK'
  BY <1>15, FailEffect
<1>16. ASSUME NEW s \in Seconds, TesterEnds(s) PROVE NetworkOK'
  BY <1>16, TesterEndsEffect
<1>17. ASSUME NEW s \in Seconds, GatewayStops(s) PROVE NetworkOK'
  BY <1>17, GatewayStopsEffect
<1>18. ASSUME Tick PROVE NetworkOK'
  BY <1>18 DEF Tick, process, directory, daemon
<1>19. CASE UNCHANGED vars
  BY <1>19 DEF vars, process, directory, daemon
<1> QED
  BY <1>1, <1>2, <1>3, <1>4, <1>5, <1>6, <1>7, <1>8, <1>9, <1>10, <1>11,
     <1>12, <1>13, <1>14, <1>15, <1>16, <1>17, <1>18, <1>19 DEF Next, Step

\* A run removes after it saved, and never when it keeps.
LEMMA RemovalOKStep ==
  ASSUME TypeOK, RemovalOK, [Next]_vars
  PROVE  RemovalOK'
<1> USE Nothing, WhatIsThere, Stamped, SameNames, NoRunAssumption, Named
<1> USE DEF RemovalOK, Moves, OnlyAt, UnderItsName, NotNamed, BeforeClean,
            Removing, Ended
<1>1. ASSUME NEW r \in Runs, EnsureImage(r) PROVE RemovalOK'
  BY <1>1, EnsureImageEffect
<1>2. ASSUME NEW r \in Runs, BuildImage(r) PROVE RemovalOK'
  BY <1>2, BuildImageEffect
<1>3. ASSUME NEW r \in Runs, StartRun(r) PROVE RemovalOK'
  BY <1>3, StartRunEffect, StartsAlone DEF Seconds
<1>4. ASSUME NEW r \in Runs, CreateNetwork(r) PROVE RemovalOK'
  BY <1>4, CreateNetworkEffect
<1>5. ASSUME NEW r \in Runs, RunGateway(r) PROVE RemovalOK'
  BY <1>5, RunGatewayEffect
<1>6. ASSUME NEW r \in Runs, ConnectGateway(r) PROVE RemovalOK'
  BY <1>6, ConnectGatewayEffect
<1>7. ASSUME NEW r \in Runs, InspectGateway(r) PROVE RemovalOK'
  BY <1>7, InspectGatewayEffect
<1>8. ASSUME NEW r \in Runs, RunTester(r) PROVE RemovalOK'
  BY <1>8, RunTesterEffect
<1>9. ASSUME NEW r \in Runs, TesterReturned(r) PROVE RemovalOK'
  BY <1>9, TesterReturnedEffect
<1>10. ASSUME NEW r \in Runs, DeleteFixtures(r) PROVE RemovalOK'
  BY <1>10, DeleteFixturesEffect
<1>11. ASSUME NEW r \in Runs, SaveResults(r) PROVE RemovalOK'
  BY <1>11, SaveResultsEffect
<1>12. ASSUME NEW r \in Runs, RemoveTester(r) PROVE RemovalOK'
  BY <1>12, RemoveTesterEffect
<1>13. ASSUME NEW r \in Runs, RemoveGateway(r) PROVE RemovalOK'
  BY <1>13, RemoveGatewayEffect
<1>14. ASSUME NEW r \in Runs, RemoveNetwork(r) PROVE RemovalOK'
  BY <1>14, RemoveNetworkEffect
<1>15. ASSUME NEW r \in Runs, Fail(r) PROVE RemovalOK'
  BY <1>15, FailEffect
<1>16. ASSUME NEW s \in Seconds, TesterEnds(s) PROVE RemovalOK'
  BY <1>16, TesterEndsEffect
<1>17. ASSUME NEW s \in Seconds, GatewayStops(s) PROVE RemovalOK'
  BY <1>17, GatewayStopsEffect
<1>18. ASSUME Tick PROVE RemovalOK'
  BY <1>18 DEF Tick, process, directory, daemon
<1>19. CASE UNCHANGED vars
  BY <1>19 DEF vars, process, directory, daemon
<1> QED
  BY <1>1, <1>2, <1>3, <1>4, <1>5, <1>6, <1>7, <1>8, <1>9, <1>10, <1>11,
     <1>12, <1>13, <1>14, <1>15, <1>16, <1>17, <1>18, <1>19 DEF Next, Step

\* The container of a tester that passed stays until its own run removes it.
LEMMA KeptOKStep ==
  ASSUME TypeOK, KeptOK, OwnersOK, RemovalOK, [Next]_vars
  PROVE  KeptOK'
<1> USE Nothing, WhatIsThere, Stamped, SameNames, NoRunAssumption
<1> USE DEF KeptOK, OwnersOK, RemovalOK, Moves, OnlyAt, UnderItsName,
            NotNamed, BeforeClean, Removing, Ended
<1>1. ASSUME NEW r \in Runs, EnsureImage(r) PROVE KeptOK'
  BY <1>1, EnsureImageEffect
<1>2. ASSUME NEW r \in Runs, BuildImage(r) PROVE KeptOK'
  BY <1>2, BuildImageEffect
<1>3. ASSUME NEW r \in Runs, StartRun(r) PROVE KeptOK'
  BY <1>3, StartRunEffect, StartsAlone DEF Seconds
<1>4. ASSUME NEW r \in Runs, CreateNetwork(r) PROVE KeptOK'
  BY <1>4, CreateNetworkEffect
<1>5. ASSUME NEW r \in Runs, RunGateway(r) PROVE KeptOK'
  BY <1>5, RunGatewayEffect
<1>6. ASSUME NEW r \in Runs, ConnectGateway(r) PROVE KeptOK'
  BY <1>6, ConnectGatewayEffect
<1>7. ASSUME NEW r \in Runs, InspectGateway(r) PROVE KeptOK'
  BY <1>7, InspectGatewayEffect
<1>8. ASSUME NEW r \in Runs, RunTester(r) PROVE KeptOK'
  BY <1>8, RunTesterEffect
<1>9. ASSUME NEW r \in Runs, TesterReturned(r) PROVE KeptOK'
  BY <1>9, TesterReturnedEffect
<1>10. ASSUME NEW r \in Runs, DeleteFixtures(r) PROVE KeptOK'
  BY <1>10, DeleteFixturesEffect
<1>11. ASSUME NEW r \in Runs, SaveResults(r) PROVE KeptOK'
  BY <1>11, SaveResultsEffect
<1>12. ASSUME NEW r \in Runs, RemoveTester(r) PROVE KeptOK'
  BY <1>12, RemoveTesterEffect
<1>13. ASSUME NEW r \in Runs, RemoveGateway(r) PROVE KeptOK'
  BY <1>13, RemoveGatewayEffect
<1>14. ASSUME NEW r \in Runs, RemoveNetwork(r) PROVE KeptOK'
  BY <1>14, RemoveNetworkEffect
<1>15. ASSUME NEW r \in Runs, Fail(r) PROVE KeptOK'
  BY <1>15, FailEffect
<1>16. ASSUME NEW s \in Seconds, TesterEnds(s) PROVE KeptOK'
  BY <1>16, TesterEndsEffect DEF PassedTester
<1>17. ASSUME NEW s \in Seconds, GatewayStops(s) PROVE KeptOK'
  BY <1>17, GatewayStopsEffect
<1>18. ASSUME Tick PROVE KeptOK'
  BY <1>18 DEF Tick, process, directory, daemon
<1>19. CASE UNCHANGED vars
  BY <1>19 DEF vars, process, directory, daemon
<1> QED
  BY <1>1, <1>2, <1>3, <1>4, <1>5, <1>6, <1>7, <1>8, <1>9, <1>10, <1>11,
     <1>12, <1>13, <1>14, <1>15, <1>16, <1>17, <1>18, <1>19 DEF Next, Step

\* Deleted fixture trees do not come back.
LEMMA FixturesGoneStep ==
  ASSUME TypeOK, FixturesGone, UnusedOK, DirectoryOK, [Next]_vars
  PROVE  FixturesGone'
<1> USE Nothing, WhatIsThere, Stamped, SameNames, NoRunAssumption, FaultsStay
<1> USE DEF FixturesGone, UnusedOK, DirectoryOK, Moves, OnlyAt, UnderItsName,
            NotNamed, BeforeClean, Removing, Ended, Alone, Over
<1>1. ASSUME NEW r \in Runs, EnsureImage(r) PROVE FixturesGone'
  BY <1>1, EnsureImageEffect
<1>2. ASSUME NEW r \in Runs, BuildImage(r) PROVE FixturesGone'
  BY <1>2, BuildImageEffect
<1>3. ASSUME NEW r \in Runs, StartRun(r) PROVE FixturesGone'
  BY <1>3, StartRunEffect, StartsAlone DEF Seconds
<1>4. ASSUME NEW r \in Runs, CreateNetwork(r) PROVE FixturesGone'
  BY <1>4, CreateNetworkEffect
<1>5. ASSUME NEW r \in Runs, RunGateway(r) PROVE FixturesGone'
  BY <1>5, RunGatewayEffect
<1>6. ASSUME NEW r \in Runs, ConnectGateway(r) PROVE FixturesGone'
  BY <1>6, ConnectGatewayEffect
<1>7. ASSUME NEW r \in Runs, InspectGateway(r) PROVE FixturesGone'
  BY <1>7, InspectGatewayEffect
<1>8. ASSUME NEW r \in Runs, RunTester(r) PROVE FixturesGone'
  BY <1>8, RunTesterEffect
<1>9. ASSUME NEW r \in Runs, TesterReturned(r) PROVE FixturesGone'
  BY <1>9, TesterReturnedEffect
<1>10. ASSUME NEW r \in Runs, DeleteFixtures(r) PROVE FixturesGone'
  BY <1>10, DeleteFixturesEffect
<1>11. ASSUME NEW r \in Runs, SaveResults(r) PROVE FixturesGone'
  BY <1>11, SaveResultsEffect
<1>12. ASSUME NEW r \in Runs, RemoveTester(r) PROVE FixturesGone'
  BY <1>12, RemoveTesterEffect
<1>13. ASSUME NEW r \in Runs, RemoveGateway(r) PROVE FixturesGone'
  BY <1>13, RemoveGatewayEffect
<1>14. ASSUME NEW r \in Runs, RemoveNetwork(r) PROVE FixturesGone'
  BY <1>14, RemoveNetworkEffect
<1>15. ASSUME NEW r \in Runs, Fail(r) PROVE FixturesGone'
  BY <1>15, FailEffect
<1>16. ASSUME NEW s \in Seconds, TesterEnds(s) PROVE FixturesGone'
  BY <1>16, TesterEndsEffect
<1>17. ASSUME NEW s \in Seconds, GatewayStops(s) PROVE FixturesGone'
  BY <1>17, GatewayStopsEffect
<1>18. ASSUME Tick PROVE FixturesGone'
  BY <1>18 DEF Tick, process, directory, daemon
<1>19. CASE UNCHANGED vars
  BY <1>19 DEF vars, process, directory, daemon
<1> QED
  BY <1>1, <1>2, <1>3, <1>4, <1>5, <1>6, <1>7, <1>8, <1>9, <1>10, <1>11,
     <1>12, <1>13, <1>14, <1>15, <1>16, <1>17, <1>18, <1>19 DEF Next, Step

\* A removed container does not come back.
LEMMA TesterGoneStep ==
  ASSUME TypeOK, TesterGone, OwnersOK, [Next]_vars
  PROVE  TesterGone'
<1> USE Nothing, WhatIsThere, Stamped, SameNames, NoRunAssumption, FaultsStay
<1> USE DEF TesterGone, OwnersOK, Moves, OnlyAt, UnderItsName, NotNamed,
            BeforeClean, Removing, Ended, Alone, Over
<1>1. ASSUME NEW r \in Runs, EnsureImage(r) PROVE TesterGone'
  BY <1>1, EnsureImageEffect
<1>2. ASSUME NEW r \in Runs, BuildImage(r) PROVE TesterGone'
  BY <1>2, BuildImageEffect
<1>3. ASSUME NEW r \in Runs, StartRun(r) PROVE TesterGone'
  BY <1>3, StartRunEffect, StartsAlone DEF Seconds
<1>4. ASSUME NEW r \in Runs, CreateNetwork(r) PROVE TesterGone'
  BY <1>4, CreateNetworkEffect
<1>5. ASSUME NEW r \in Runs, RunGateway(r) PROVE TesterGone'
  BY <1>5, RunGatewayEffect
<1>6. ASSUME NEW r \in Runs, ConnectGateway(r) PROVE TesterGone'
  BY <1>6, ConnectGatewayEffect
<1>7. ASSUME NEW r \in Runs, InspectGateway(r) PROVE TesterGone'
  BY <1>7, InspectGatewayEffect
<1>8. ASSUME NEW r \in Runs, RunTester(r) PROVE TesterGone'
  BY <1>8, RunTesterEffect
<1>9. ASSUME NEW r \in Runs, TesterReturned(r) PROVE TesterGone'
  BY <1>9, TesterReturnedEffect
<1>10. ASSUME NEW r \in Runs, DeleteFixtures(r) PROVE TesterGone'
  BY <1>10, DeleteFixturesEffect
<1>11. ASSUME NEW r \in Runs, SaveResults(r) PROVE TesterGone'
  BY <1>11, SaveResultsEffect
<1>12. ASSUME NEW r \in Runs, RemoveTester(r) PROVE TesterGone'
  BY <1>12, RemoveTesterEffect
<1>13. ASSUME NEW r \in Runs, RemoveGateway(r) PROVE TesterGone'
  BY <1>13, RemoveGatewayEffect
<1>14. ASSUME NEW r \in Runs, RemoveNetwork(r) PROVE TesterGone'
  BY <1>14, RemoveNetworkEffect
<1>15. ASSUME NEW r \in Runs, Fail(r) PROVE TesterGone'
  BY <1>15, FailEffect
<1>16. ASSUME NEW s \in Seconds, TesterEnds(s) PROVE TesterGone'
  BY <1>16, TesterEndsEffect
<1>17. ASSUME NEW s \in Seconds, GatewayStops(s) PROVE TesterGone'
  BY <1>17, GatewayStopsEffect
<1>18. ASSUME Tick PROVE TesterGone'
  BY <1>18 DEF Tick, process, directory, daemon
<1>19. CASE UNCHANGED vars
  BY <1>19 DEF vars, process, directory, daemon
<1> QED
  BY <1>1, <1>2, <1>3, <1>4, <1>5, <1>6, <1>7, <1>8, <1>9, <1>10, <1>11,
     <1>12, <1>13, <1>14, <1>15, <1>16, <1>17, <1>18, <1>19 DEF Next, Step

\* A removed gateway does not come back.
LEMMA GatewayGoneStep ==
  ASSUME TypeOK, GatewayGone, OwnersOK, [Next]_vars
  PROVE  GatewayGone'
<1> USE Nothing, WhatIsThere, Stamped, SameNames, NoRunAssumption, FaultsStay
<1> USE DEF GatewayGone, OwnersOK, Moves, OnlyAt, UnderItsName, NotNamed,
            BeforeClean, Removing, Ended, Alone, Over
<1>1. ASSUME NEW r \in Runs, EnsureImage(r) PROVE GatewayGone'
  BY <1>1, EnsureImageEffect
<1>2. ASSUME NEW r \in Runs, BuildImage(r) PROVE GatewayGone'
  BY <1>2, BuildImageEffect
<1>3. ASSUME NEW r \in Runs, StartRun(r) PROVE GatewayGone'
  BY <1>3, StartRunEffect, StartsAlone DEF Seconds
<1>4. ASSUME NEW r \in Runs, CreateNetwork(r) PROVE GatewayGone'
  BY <1>4, CreateNetworkEffect
<1>5. ASSUME NEW r \in Runs, RunGateway(r) PROVE GatewayGone'
  BY <1>5, RunGatewayEffect
<1>6. ASSUME NEW r \in Runs, ConnectGateway(r) PROVE GatewayGone'
  BY <1>6, ConnectGatewayEffect
<1>7. ASSUME NEW r \in Runs, InspectGateway(r) PROVE GatewayGone'
  BY <1>7, InspectGatewayEffect
<1>8. ASSUME NEW r \in Runs, RunTester(r) PROVE GatewayGone'
  BY <1>8, RunTesterEffect
<1>9. ASSUME NEW r \in Runs, TesterReturned(r) PROVE GatewayGone'
  BY <1>9, TesterReturnedEffect
<1>10. ASSUME NEW r \in Runs, DeleteFixtures(r) PROVE GatewayGone'
  BY <1>10, DeleteFixturesEffect
<1>11. ASSUME NEW r \in Runs, SaveResults(r) PROVE GatewayGone'
  BY <1>11, SaveResultsEffect
<1>12. ASSUME NEW r \in Runs, RemoveTester(r) PROVE GatewayGone'
  BY <1>12, RemoveTesterEffect
<1>13. ASSUME NEW r \in Runs, RemoveGateway(r) PROVE GatewayGone'
  BY <1>13, RemoveGatewayEffect
<1>14. ASSUME NEW r \in Runs, RemoveNetwork(r) PROVE GatewayGone'
  BY <1>14, RemoveNetworkEffect
<1>15. ASSUME NEW r \in Runs, Fail(r) PROVE GatewayGone'
  BY <1>15, FailEffect
<1>16. ASSUME NEW s \in Seconds, TesterEnds(s) PROVE GatewayGone'
  BY <1>16, TesterEndsEffect
<1>17. ASSUME NEW s \in Seconds, GatewayStops(s) PROVE GatewayGone'
  BY <1>17, GatewayStopsEffect
<1>18. ASSUME Tick PROVE GatewayGone'
  BY <1>18 DEF Tick, process, directory, daemon
<1>19. CASE UNCHANGED vars
  BY <1>19 DEF vars, process, directory, daemon
<1> QED
  BY <1>1, <1>2, <1>3, <1>4, <1>5, <1>6, <1>7, <1>8, <1>9, <1>10, <1>11,
     <1>12, <1>13, <1>14, <1>15, <1>16, <1>17, <1>18, <1>19 DEF Next, Step

\* The network goes last, when nothing is on it any more.
LEMMA NetworkGoneStep ==
  ASSUME TypeOK, NetworkGone, OwnersOK, TesterGone, GatewayGone, [Next]_vars
  PROVE  NetworkGone'
<1> USE Nothing, WhatIsThere, Stamped, SameNames, NoRunAssumption, FaultsStay
<1> USE DEF NetworkGone, OwnersOK, TesterGone, GatewayGone, InUse, Moves,
            OnlyAt, UnderItsName, NotNamed, BeforeClean, Removing, Ended,
            Alone, Over
<1>1. ASSUME NEW r \in Runs, EnsureImage(r) PROVE NetworkGone'
  BY <1>1, EnsureImageEffect
<1>2. ASSUME NEW r \in Runs, BuildImage(r) PROVE NetworkGone'
  BY <1>2, BuildImageEffect
<1>3. ASSUME NEW r \in Runs, StartRun(r) PROVE NetworkGone'
  BY <1>3, StartRunEffect, StartsAlone DEF Seconds
<1>4. ASSUME NEW r \in Runs, CreateNetwork(r) PROVE NetworkGone'
  BY <1>4, CreateNetworkEffect
<1>5. ASSUME NEW r \in Runs, RunGateway(r) PROVE NetworkGone'
  BY <1>5, RunGatewayEffect
<1>6. ASSUME NEW r \in Runs, ConnectGateway(r) PROVE NetworkGone'
  BY <1>6, ConnectGatewayEffect
<1>7. ASSUME NEW r \in Runs, InspectGateway(r) PROVE NetworkGone'
  BY <1>7, InspectGatewayEffect
<1>8. ASSUME NEW r \in Runs, RunTester(r) PROVE NetworkGone'
  BY <1>8, RunTesterEffect
<1>9. ASSUME NEW r \in Runs, TesterReturned(r) PROVE NetworkGone'
  BY <1>9, TesterReturnedEffect
<1>10. ASSUME NEW r \in Runs, DeleteFixtures(r) PROVE NetworkGone'
  BY <1>10, DeleteFixturesEffect
<1>11. ASSUME NEW r \in Runs, SaveResults(r) PROVE NetworkGone'
  BY <1>11, SaveResultsEffect
<1>12. ASSUME NEW r \in Runs, RemoveTester(r) PROVE NetworkGone'
  BY <1>12, RemoveTesterEffect
<1>13. ASSUME NEW r \in Runs, RemoveGateway(r) PROVE NetworkGone'
  BY <1>13, RemoveGatewayEffect
<1>14. ASSUME NEW r \in Runs, RemoveNetwork(r) PROVE NetworkGone'
  BY <1>14, RemoveNetworkEffect
<1>15. ASSUME NEW r \in Runs, Fail(r) PROVE NetworkGone'
  BY <1>15, FailEffect
<1>16. ASSUME NEW s \in Seconds, TesterEnds(s) PROVE NetworkGone'
  BY <1>16, TesterEndsEffect
<1>17. ASSUME NEW s \in Seconds, GatewayStops(s) PROVE NetworkGone'
  BY <1>17, GatewayStopsEffect
<1>18. ASSUME Tick PROVE NetworkGone'
  BY <1>18 DEF Tick, process, directory, daemon
<1>19. CASE UNCHANGED vars
  BY <1>19 DEF vars, process, directory, daemon
<1> QED
  BY <1>1, <1>2, <1>3, <1>4, <1>5, <1>6, <1>7, <1>8, <1>9, <1>10, <1>11,
     <1>12, <1>13, <1>14, <1>15, <1>16, <1>17, <1>18, <1>19 DEF Next, Step

----------------------------------------------------------------------------
\* The invariant.

LEMMA InitInv == Init => IInv
<1> SUFFICES ASSUME Init PROVE IInv
  OBVIOUS
<1> USE BoundsAssumption, NoRunAssumption, Nothing
<1>1. TypeOK
  BY DEF Init, TypeOK, Points, NotNamed, BeforeClean, Removing, Ended,
         ExitCodes, Seconds, Owners
<1>2. /\ \A s \in Seconds : /\ tester[s] = NoContainer /\ gateway[s] = NoGateway
                            /\ network[s] = NoRun /\ ~fixtures[s]
      /\ \A r \in Runs : /\ pc[r] = "ensure" /\ stamp[r] = 0
                         /\ exitCode[r] = "none"
  BY DEF Init
<1>3. OwnersOK /\ RunningOK /\ GatewayWanted /\ GatewayFailsClosed /\ UnusedOK
  BY <1>2 DEF OwnersOK, RunningOK, GatewayWanted, GatewayFailsClosed, UnusedOK
<1>4. DirectoryOK /\ NetworkOK /\ RemovalOK /\ KeptOK
  BY <1>2 DEF DirectoryOK, NetworkOK, RemovalOK, KeptOK, Removing
<1>5. FixturesGone /\ TesterGone /\ GatewayGone /\ NetworkGone
  BY <1>2 DEF FixturesGone, TesterGone, GatewayGone, NetworkGone
<1> QED
  BY <1>1, <1>3, <1>4, <1>5 DEF IInv

LEMMA NextInv == IInv /\ [Next]_vars => IInv'
<1> SUFFICES ASSUME IInv, [Next]_vars PROVE IInv'
  OBVIOUS
<1>1. TypeOK'
  BY TypeInvariance DEF IInv
<1>2. OwnersOK' /\ RunningOK' /\ GatewayWanted' /\ GatewayFailsClosed'
  BY OwnersOKStep, RunningOKStep, GatewayWantedStep, GatewayFailsClosedStep
     DEF IInv
<1>3. DirectoryOK' /\ UnusedOK' /\ NetworkOK' /\ RemovalOK' /\ KeptOK'
  BY DirectoryOKStep, UnusedOKStep, NetworkOKStep, RemovalOKStep, KeptOKStep
     DEF IInv
<1>4. FixturesGone' /\ TesterGone' /\ GatewayGone' /\ NetworkGone'
  BY FixturesGoneStep, TesterGoneStep, GatewayGoneStep, NetworkGoneStep
     DEF IInv
<1> QED
  BY <1>1, <1>2, <1>3, <1>4 DEF IInv

----------------------------------------------------------------------------
\* The theorems.

\* What runs own, hold and have removed is as IInv says, however many runs
\* there are, whatever they share, and however many commands fail.
THEOREM Invariance == Spec => []IInv
<1>1. Init => IInv
  BY InitInv
<1>2. IInv /\ [Next]_vars => IInv'
  BY NextInv
<1> QED
  BY <1>1, <1>2, PTL DEF Spec

\* The variables keep their types, and names are handed to docker only by runs
\* that have one.
THEOREM TypeCorrect == Spec => []TypeOK
<1>1. IInv => TypeOK
  BY DEF IInv
<1> QED
  BY <1>1, Invariance, PTL

\* A tester whose profile has a gateway never runs without the internal
\* network, also among runs of one second and however many commands fail.
THEOREM GatewaysFailClosed == Spec => []GatewayFailsClosed
<1>1. IInv => GatewayFailsClosed
  BY DEF IInv
<1> QED
  BY <1>1, Invariance, PTL

\* A running tester has its own run's config.json, fixture trees and network.
THEOREM TestersAreUndisturbed == Spec => []TesterUndisturbed
<1>1. IInv => TesterUndisturbed
  <2> SUFFICES ASSUME IInv, DistinctSeconds,
                      NEW s \in Seconds, tester[s].state = "running"
               PROVE  LET r == tester[s].owner
                      IN /\ stamp[r] = s
                         /\ pc[r] \in {"wait", "failed"}
                         /\ config[s] = r
                         /\ profile[r].fixtures => fixtures[s]
                         /\ profile[r].gateway => network[s] = r
    BY DEF TesterUndisturbed
  <2> DEFINE r == tester[s].owner
  <2>1. r \in Runs /\ r # NoRun
    BY WhatIsThere, Nothing DEF IInv
  <2>2. stamp[r] = s /\ s # 0
    BY <2>1 DEF IInv, OwnersOK, Seconds
  <2>3. pc[r] \in {"wait", "failed"}
    BY DEF IInv, RunningOK
  <2>4. config[s] = r /\ (profile[r].fixtures => fixtures[s])
    BY <2>1, <2>2 DEF IInv, DirectoryOK
  <2>5. profile[r].gateway => network[s] = r
    BY <2>3 DEF IInv, NetworkOK
  <2> QED
    BY <2>2, <2>3, <2>4, <2>5
<1> QED
  BY <1>1, Invariance, PTL

\* A run that ended with nothing failing left nothing of its second behind.
THEOREM RunsEndClean == Spec => []EndsClean
<1>1. IInv => EndsClean
  BY DEF IInv, EndsClean, Alone, Over, FixturesGone, TesterGone, GatewayGone,
         NetworkGone
<1> QED
  BY <1>1, Invariance, PTL

\* A successful run with --keep-container left its container, its results and
\* its network.
THEOREM KeptContainersStay == Spec => []KeptForInspection
<1>1. IInv => KeptForInspection
  <2> SUFFICES ASSUME IInv, DistinctSeconds, NEW r \in Runs,
                      pc[r] = "exited", keep[r], exitCode[r] = "zero"
               PROVE  /\ tester[stamp[r]] = PassedTester(r)
                      /\ saved[stamp[r]] = r
                      /\ profile[r].gateway => network[stamp[r]] = r
    BY DEF KeptForInspection, PassedTester
  <2>1. /\ stamp[r] # 0 /\ tester[stamp[r]] = PassedTester(r)
        /\ saved[stamp[r]] = r
    BY DEF IInv, KeptOK
  <2>2. stamp[r] \in Seconds
    BY <2>1, Stamped DEF IInv
  <2>3. profile[r].gateway => network[stamp[r]] = r
    BY <2>1, <2>2 DEF IInv, NetworkOK, PassedTester
  <2> QED
    BY <2>1, <2>3
<1> QED
  BY <1>1, Invariance, PTL

\* Only the run that made a container removes it, after saving its results.
THEOREM OnlyOwnersRemove == Spec => OnlyOwnerRemoves
<1> DEFINE Removal(s) == /\ pc[tester[s].owner] = "remove"
                         /\ pc'[tester[s].owner] # "remove"
                         /\ saved[s] = tester[s].owner
<1>1. ASSUME IInv, [Next]_vars, DistinctSeconds, NEW s \in Seconds,
             tester[s] # NoContainer, tester'[s] = NoContainer
      PROVE  Removal(s)
  <2> USE DEF OnlyAt
  <2>1. TypeOK /\ tester' # tester
    BY <1>1 DEF IInv
  <2>2. PICK r \in Runs : RemoveTester(r)
    <3>1. ASSUME NEW r \in Runs, RunTester(r) PROVE FALSE
      BY <1>1, <2>1, <3>1, RunTesterEffect, Nothing, NoRunAssumption
    <3>2. ASSUME NEW x \in Seconds, TesterEnds(x) PROVE FALSE
      BY <1>1, <2>1, <3>2, TesterEndsEffect, Nothing
    <3> QED
      BY <1>1, <2>1, <3>1, <3>2
      DEF Next, Step, vars, directory, daemon, process, EnsureImage, BuildImage,
          StartRun, CreateNetwork, RunGateway, ConnectGateway, InspectGateway,
          TesterReturned, DeleteFixtures, SaveResults, RemoveGateway,
          RemoveNetwork, Fail, GatewayStops, Tick
  <2>3. s = stamp[r] /\ Moves(r, "remove", {"removeGateway", "exited"})
    BY <1>1, <2>1, <2>2, RemoveTesterEffect
  <2>4. tester[s].owner \in Runs /\ stamp[tester[s].owner] = s
    BY <1>1, <2>1, WhatIsThere DEF IInv, OwnersOK
  <2>5. tester[s].owner = r
    BY <1>1, <2>1, <2>2, <2>3, <2>4, RemoveTesterEffect DEF UnderItsName
  <2>6. saved[s] = r
    BY <1>1, <2>3 DEF IInv, RemovalOK, Moves, Removing
  <2> QED
    BY <2>3, <2>5, <2>6 DEF Moves
<1>2. IInv /\ [Next]_vars =>
        [DistinctSeconds => \A s \in Seconds :
           tester[s] # NoContainer /\ tester'[s] = NoContainer => Removal(s)]_vars
  BY <1>1
<1> QED
  BY <1>2, Invariance, PTL DEF Spec, OnlyOwnerRemoves

----------------------------------------------------------------------------
(***************************************************************************)
(* The names (NamedRuns): each command is one step of the abstract run, or *)
(* none.                                                                   *)
(***************************************************************************)
PhaseOf == [r \in Runs |-> Phase(r)]

\* The clock does not go back.
ClockOK == \A r \in Runs : stamp[r] <= second

LEMMA ClockStep ==
  ASSUME TypeOK, ClockOK, [Next]_vars
  PROVE  ClockOK'
<1>1. ASSUME NEW r \in Runs, StartRun(r) PROVE ClockOK'
  BY <1>1 DEF StartRun, ClockOK, TypeOK, Seconds
<1>2. CASE Tick
  BY <1>2 DEF Tick, ClockOK, TypeOK, Seconds, process
<1>3. CASE UNCHANGED <<stamp, second>>
  BY <1>3 DEF ClockOK
<1> QED
  BY <1>1, <1>2, <1>3
  DEF Next, Step, vars, process, EnsureImage, BuildImage, CreateNetwork,
      RunGateway, ConnectGateway, InspectGateway, RunTester, TesterReturned,
      DeleteFixtures, SaveResults, RemoveTester, RemoveGateway, RemoveNetwork,
      Fail, TesterEnds, GatewayStops

\* Only the run that moves comes to another phase.
LEMMA PhaseMoves ==
  ASSUME NEW r \in Runs, NEW from, NEW to, Moves(r, from, to)
  PROVE  PhaseOf' = [PhaseOf EXCEPT ![r] = Phase(r)']
BY DEF Moves, PhaseOf, Phase

LEMMA PhaseStays ==
  ASSUME UNCHANGED pc
  PROVE  PhaseOf' = PhaseOf
BY DEF PhaseOf, Phase

\* The owners, one kind of thing at a time.
LEMMA MadeStays ==
  ASSUME \A s \in Seconds : /\ tester'[s].owner = tester[s].owner
                            /\ gateway'[s].owner = gateway[s].owner,
         UNCHANGED network
  PROVE  Made' = Made
BY DEF Made

LEMMA TesterMade ==
  ASSUME TypeOK, UNCHANGED <<gateway, network>>, NEW n \in Seconds,
         OnlyAt(tester, tester', n)
  PROVE  Made' = [Made EXCEPT !["tester"][n] = tester'[n].owner]
BY DEF Made, Things, OnlyAt

LEMMA GatewayMade ==
  ASSUME TypeOK, UNCHANGED <<tester, network>>, NEW n \in Seconds,
         OnlyAt(gateway, gateway', n)
  PROVE  Made' = [Made EXCEPT !["gateway"][n] = gateway'[n].owner]
BY DEF Made, Things, OnlyAt

LEMMA NetworkMade ==
  ASSUME TypeOK, TypeOK', UNCHANGED <<tester, gateway>>, NEW n \in Seconds,
         OnlyAt(network, network', n)
  PROVE  Made' = [Made EXCEPT !["network"][n] = network'[n]]
<1>1. network' = [network EXCEPT ![n] = network'[n]]
  BY DEF OnlyAt, TypeOK
<1> QED
  BY <1>1 DEF Made, Things

\* What a step of one run is to the names.
Touches(r) == \/ \E n \in Seconds : NamesOf!Start(r, n)
              \/ \E x \in Things : NamesOf!Make(r, x) \/ NamesOf!Remove(r, x)
              \/ NamesOf!GoOn(r) \/ NamesOf!Refuse(r)
              \/ UNCHANGED <<PhaseOf, stamp, Made>>

\* The phases that a command may lead to.
LEMMA Phased ==
  ASSUME NEW r \in Runs
  PROVE  /\ PhaseOf[r] = Phase(r)
         /\ pc[r] \in Ended => Phase(r) = "over"
         /\ pc[r] \in NotNamed => Phase(r) = "before"
         /\ pc[r] \in Removing => Phase(r) = "removing"
         /\ pc[r] \in {"wait", "clean", "save"} => Phase(r) = "working"
         /\ pc[r] \in {"network", "gateway", "connect", "inspect", "run"} =>
              Phase(r) = "making"
BY DEF PhaseOf, Phase, Ended, NotNamed, Removing

\* A step that makes and removes nothing.
LEMMA Goes ==
  ASSUME NEW r \in Runs, UNCHANGED <<stamp, Made>>,
         NEW from, NEW to, Moves(r, from, to),
         \/ Phase(r)' = Phase(r)
         \/ Phase(r) = "before" /\ Phase(r)' = "over"
         \/ Phase(r) # "before" /\ Phase(r)' \in NamesOf!Later[Phase(r)]
  PROVE  Touches(r)
<1>1. PhaseOf' = [PhaseOf EXCEPT ![r] = Phase(r)'] /\ PhaseOf[r] = Phase(r)
  BY PhaseMoves DEF PhaseOf
<1>2. CASE Phase(r)' = Phase(r)
  BY <1>1, <1>2 DEF Touches, PhaseOf
<1>3. CASE Phase(r) = "before" /\ Phase(r)' = "over"
  BY <1>1, <1>3 DEF Touches, PhaseOf, NamesOf!Refuse, NamesOf!Enter
<1>4. CASE Phase(r) # "before" /\ Phase(r)' \in NamesOf!Later[Phase(r)]
  BY <1>1, <1>4 DEF Touches, PhaseOf, NamesOf!GoOn, NamesOf!Enter
<1> QED
  BY <1>2, <1>3, <1>4

\* A step that may make a thing, and one that may remove one.
LEMMA Makes ==
  ASSUME NEW r \in Runs, UNCHANGED stamp, NEW from, NEW to, Moves(r, from, to),
         Phase(r) = "making", Phase(r)' \in {"making", "working"},
         NEW x \in Things,
         Made' = Made \/ Made' = [Made EXCEPT ![x][stamp[r]] = r]
  PROVE  Touches(r)
<1>1. PhaseOf' = [PhaseOf EXCEPT ![r] = Phase(r)'] /\ PhaseOf[r] = Phase(r)
  BY PhaseMoves DEF PhaseOf
<1>2. CASE Made' = Made
  BY <1>2, Goes DEF NamesOf!Later
<1>3. CASE Made' = [Made EXCEPT ![x][stamp[r]] = r]
  BY <1>1, <1>3 DEF Touches, PhaseOf, NamesOf!Make, NamesOf!Enter, NamesOf!Later
<1> QED
  BY <1>2, <1>3

LEMMA Removes ==
  ASSUME NEW r \in Runs, UNCHANGED stamp, NEW from, NEW to, Moves(r, from, to),
         Phase(r) = "removing", Phase(r)' \in {"removing", "over"},
         NEW x \in Things,
         Made' = Made \/ Made' = [Made EXCEPT ![x][stamp[r]] = NoRun]
  PROVE  Touches(r)
<1>1. PhaseOf' = [PhaseOf EXCEPT ![r] = Phase(r)'] /\ PhaseOf[r] = Phase(r)
  BY PhaseMoves DEF PhaseOf
<1>2. CASE Made' = Made
  BY <1>2, Goes DEF NamesOf!Later
<1>3. CASE Made' = [Made EXCEPT ![x][stamp[r]] = NoRun]
  BY <1>1, <1>3 DEF Touches, PhaseOf, NamesOf!Remove, NamesOf!Enter, NamesOf!Later
<1> QED
  BY <1>2, <1>3

LEMMA NamesStep ==
  ASSUME TypeOK, TypeOK', ClockOK, [Next]_vars
  PROVE  (\E r \in Runs : Touches(r)) \/ UNCHANGED <<PhaseOf, stamp, Made>>
<1> USE DEF Moves, UnderItsName
<1>1. ASSUME NEW r \in Runs, EnsureImage(r) PROVE Touches(r)
  <2>1. Moves(r, "ensure", {"build", "start", "exited"})
    BY <1>1, EnsureImageEffect
  <2>2. UNCHANGED <<stamp, tester, gateway, network>>
    BY <1>1, EnsureImageEffect
  <2> QED
    BY <2>1, <2>2, Goes, MadeStays DEF Phase, Ended, NotNamed
<1>2. ASSUME NEW r \in Runs, BuildImage(r) PROVE Touches(r)
  <2>1. Moves(r, "build", {"start", "exited"})
    BY <1>2, BuildImageEffect
  <2>2. UNCHANGED <<stamp, tester, gateway, network>>
    BY <1>2, BuildImageEffect
  <2> QED
    BY <2>1, <2>2, Goes, MadeStays DEF Phase, Ended, NotNamed
<1>3. ASSUME NEW r \in Runs, StartRun(r) PROVE Touches(r)
  <2>1. /\ Moves(r, "start", {"network", "run"})
        /\ UNCHANGED <<tester, gateway, network>>
        /\ second \in Seconds
    BY <1>3, StartRunEffect
  <2>2. stamp' = [stamp EXCEPT ![r] = second] /\ \A q \in Runs : stamp[q] <= second
    BY <1>3 DEF StartRun, ClockOK
  <2>3. Phase(r) = "before" /\ Phase(r)' = "making" /\ Made' = Made
    BY <2>1, MadeStays DEF Phase, Ended, NotNamed, Removing
  <2>4. PhaseOf' = [PhaseOf EXCEPT ![r] = "making"] /\ PhaseOf[r] = "before"
    BY <2>1, <2>3, PhaseMoves DEF PhaseOf
  <2>5. NamesOf!Start(r, second)
    BY <2>2, <2>3, <2>4 DEF PhaseOf, NamesOf!Start, NamesOf!Enter
  <2> QED
    BY <2>1, <2>5 DEF Touches
<1>4. ASSUME NEW r \in Runs, CreateNetwork(r) PROVE Touches(r)
  <2>1. Moves(r, "network", {"gateway"}) /\ UNCHANGED stamp
    BY <1>4, CreateNetworkEffect
  <2>2. Made' = Made \/ Made' = [Made EXCEPT !["network"][stamp[r]] = r]
    BY <1>4, CreateNetworkEffect, NetworkMade, MadeStays DEF OnlyAt, TypeOK
  <2> QED
    BY <2>1, <2>2, Makes DEF Phase, Ended, NotNamed, Removing, Things
<1>5. ASSUME NEW r \in Runs, RunGateway(r) PROVE Touches(r)
  <2>1. Moves(r, "gateway", {"connect"}) /\ UNCHANGED stamp
    BY <1>5, RunGatewayEffect
  <2>2. Made' = Made \/ Made' = [Made EXCEPT !["gateway"][stamp[r]] = r]
    BY <1>5, RunGatewayEffect, GatewayMade, MadeStays DEF OnlyAt
  <2> QED
    BY <2>1, <2>2, Makes DEF Phase, Ended, NotNamed, Removing, Things
<1>6. ASSUME NEW r \in Runs, ConnectGateway(r) PROVE Touches(r)
  <2>1. Moves(r, "connect", {"inspect"}) /\ UNCHANGED stamp
    BY <1>6, ConnectGatewayEffect
  <2>2. Made' = Made
    BY <1>6, ConnectGatewayEffect, MadeStays DEF OnlyAt
  <2> QED
    BY <2>1, <2>2, Goes DEF Phase, Ended, NotNamed, Removing
<1>7. ASSUME NEW r \in Runs, InspectGateway(r) PROVE Touches(r)
  <2>1. Moves(r, "inspect", {"run"}) /\ UNCHANGED stamp
    BY <1>7, InspectGatewayEffect
  <2>2. Made' = Made
    BY <1>7, InspectGatewayEffect, MadeStays
  <2> QED
    BY <2>1, <2>2, Goes DEF Phase, Ended, NotNamed, Removing
<1>8. ASSUME NEW r \in Runs, RunTester(r) PROVE Touches(r)
  <2>1. Moves(r, "run", {"wait", "clean"}) /\ UNCHANGED stamp
    BY <1>8, RunTesterEffect
  <2>2. Made' = Made \/ Made' = [Made EXCEPT !["tester"][stamp[r]] = r]
    BY <1>8, RunTesterEffect, TesterMade, MadeStays DEF OnlyAt
  <2> QED
    BY <2>1, <2>2, Makes DEF Phase, Ended, NotNamed, Removing, Things
<1>9. ASSUME NEW r \in Runs,
             TesterReturned(r) \/ DeleteFixtures(r) \/ SaveResults(r)
      PROVE  Touches(r)
  <2>1. /\ UNCHANGED <<stamp, tester, gateway, network>>
        /\ \/ Moves(r, "wait", {"clean"})
           \/ Moves(r, "clean", {"save"})
           \/ Moves(r, "save", {"remove", "exited"})
    BY <1>9, TesterReturnedEffect, DeleteFixturesEffect, SaveResultsEffect
  <2>2. /\ Phase(r) = "working"
        /\ Phase(r)' \in {"working", "removing", "over"}
    BY <2>1 DEF Phase, Ended, NotNamed, Removing
  <2> QED
    <3>1. UNCHANGED <<stamp, Made>>
      BY <2>1, MadeStays
    <3>2. \/ Phase(r)' = Phase(r)
          \/ Phase(r) # "before" /\ Phase(r)' \in NamesOf!Later[Phase(r)]
      BY <2>2 DEF NamesOf!Later
    <3> HIDE DEF Moves
    <3> QED
      BY <2>1, <3>1, <3>2, Goes
<1>10. ASSUME NEW r \in Runs, RemoveTester(r) PROVE Touches(r)
  <2>1. Moves(r, "remove", {"removeGateway", "exited"}) /\ UNCHANGED stamp
    BY <1>10, RemoveTesterEffect
  <2>2. Made' = Made \/ Made' = [Made EXCEPT !["tester"][stamp[r]] = NoRun]
    BY <1>10, RemoveTesterEffect, TesterMade, MadeStays, Nothing DEF OnlyAt
  <2> QED
    BY <2>1, <2>2, Removes DEF Phase, Ended, NotNamed, Removing, Things
<1>11. ASSUME NEW r \in Runs, RemoveGateway(r) PROVE Touches(r)
  <2>1. Moves(r, "removeGateway", {"removeNetwork"}) /\ UNCHANGED stamp
    BY <1>11, RemoveGatewayEffect
  <2>2. Made' = Made \/ Made' = [Made EXCEPT !["gateway"][stamp[r]] = NoRun]
    BY <1>11, RemoveGatewayEffect, GatewayMade, MadeStays, Nothing DEF OnlyAt
  <2> QED
    BY <2>1, <2>2, Removes DEF Phase, Ended, NotNamed, Removing, Things
<1>12. ASSUME NEW r \in Runs, RemoveNetwork(r) PROVE Touches(r)
  <2>1. Moves(r, "removeNetwork", {"exited"}) /\ UNCHANGED stamp
    BY <1>12, RemoveNetworkEffect
  <2>2. Made' = Made \/ Made' = [Made EXCEPT !["network"][stamp[r]] = NoRun]
    BY <1>12, RemoveNetworkEffect, NetworkMade, MadeStays DEF OnlyAt, TypeOK
  <2> QED
    BY <2>1, <2>2, Removes DEF Phase, Ended, NotNamed, Removing, Things
<1>13. ASSUME NEW r \in Runs, Fail(r) PROVE Touches(r)
  <2>1. /\ Moves(r, pc[r], {"failed"}) /\ pc[r] \notin Ended
        /\ UNCHANGED <<stamp, tester, gateway, network>>
    BY <1>13, FailEffect
  <2>2. Phase(r)' = "over" /\ "over" \in NamesOf!Later[Phase(r)]
    BY <2>1 DEF Phase, Ended, NamesOf!Later
  <2> QED
    BY <2>1, <2>2, Goes, MadeStays
<1>14. ASSUME NEW s \in Seconds, TesterEnds(s) \/ GatewayStops(s)
       PROVE  UNCHANGED <<PhaseOf, stamp, Made>>
  <2>1. UNCHANGED <<pc, stamp, network>>
    BY <1>14, TesterEndsEffect, GatewayStopsEffect
  <2>2. \A x \in Seconds : /\ tester'[x].owner = tester[x].owner
                           /\ gateway'[x].owner = gateway[x].owner
    BY <1>14, TesterEndsEffect, GatewayStopsEffect DEF OnlyAt
  <2> QED
    BY <2>1, <2>2, PhaseStays, MadeStays
<1>15. CASE Tick \/ UNCHANGED vars
  BY <1>15, PhaseStays, MadeStays DEF Tick, vars, process, daemon
<1> QED
  BY <1>1, <1>2, <1>3, <1>4, <1>5, <1>6, <1>7, <1>8, <1>9, <1>10, <1>11,
     <1>12, <1>13, <1>14, <1>15 DEF Next, Step

\* A run touches only what has its name, a name that it took from the clock,
\* and removes nothing before it has made all it makes: the tester's container,
\* the gateway's and the network alike, also when commands fail, processes are
\* killed or runs share a second (run_sandbox_container, remove_container).
THEOREM ImplementsNames == Spec => NamesSpec
<1>1. Init => NamesOf!Init /\ ClockOK
  <2> SUFFICES ASSUME Init PROVE NamesOf!Init /\ ClockOK
    OBVIOUS
  <2>1. PhaseOf = [r \in Runs |-> "before"]
    BY DEF Init, PhaseOf, Phase, Ended, NotNamed
  <2>2. Made = [x \in Things |-> [n \in 1..MaxSecond |-> NoRun]]
    BY DEF Init, Made, NoContainer, NoGateway, Seconds
  <2>3. ClockOK
    <3>1. ASSUME NEW r \in Runs PROVE stamp[r] <= second
      <4>1. stamp[r] = 0 /\ second = 1
        BY DEF Init
      <4>2. 0 <= 1
        OBVIOUS
      <4> QED
        BY <4>1, <4>2
    <3> QED
      BY <3>1 DEF ClockOK
  <2> QED
    BY <2>1, <2>2, <2>3 DEF Init, PhaseOf, NamesOf!Init, NamesOf!Names
<1>2. TypeOK /\ ClockOK /\ [Next]_vars => ClockOK'
  BY ClockStep
<1>3. TypeOK /\ TypeOK' /\ ClockOK /\ [Next]_vars => [NamesOf!Next]_(NamesOf!vars)
  <2> SUFFICES ASSUME TypeOK, TypeOK', ClockOK, [Next]_vars
               PROVE  [NamesOf!Next]_(NamesOf!vars)
    OBVIOUS
  <2>1. CASE UNCHANGED <<PhaseOf, stamp, Made>>
    BY <2>1 DEF PhaseOf, NamesOf!vars
  <2>2. ASSUME NEW r \in Runs, Touches(r) PROVE [NamesOf!Next]_(NamesOf!vars)
    BY <2>1, <2>2 DEF Touches, NamesOf!Next, NamesOf!Names, Seconds
  <2> QED
    BY <2>1, <2>2, NamesStep
<1> QED
  BY <1>1, <1>2, <1>3, TypeCorrect, PTL DEF Spec, NamesSpec, NamesOf!Spec

-----------------------------------------------------------------------------
\* What the names promise (NamedRunsTheorems) holds of the harness.
Names ==
  INSTANCE NamedRunsTheorems WITH
    LastName <- MaxSecond,
    phase <- [r \in Runs |-> Phase(r)], name <- stamp, owner <- Made

LEMMA NamesConstants == Names!Constants
BY NoRunAssumption, BoundsAssumption DEF Names!Constants

LEMMA NamesHold == Spec => Names!Spec
<1>1. NamesOf!Init => Names!Init
  BY DEF NamesOf!Init, Names!Init, NamesOf!Names, Names!Names
<1>2. [NamesOf!Next]_(NamesOf!vars) => [Names!Next]_(Names!vars)
  BY DEF NamesOf!Next, Names!Next, NamesOf!vars, Names!vars, NamesOf!Names,
         Names!Names, NamesOf!Start, Names!Start, NamesOf!Make, Names!Make,
         NamesOf!Remove, Names!Remove, NamesOf!GoOn, Names!GoOn,
         NamesOf!Refuse, Names!Refuse, NamesOf!Enter, Names!Enter,
         NamesOf!Later, Names!Later
<1> QED
  BY <1>1, <1>2, ImplementsNames, PTL
  DEF NamesSpec, NamesOf!Spec, Names!Spec

\* Containers, gateways and networks change only by runs of their own second,
\* which are making or removing theirs; and one that is alone in its second
\* replaces nothing that is there and removes only its own (run_container,
\* remove_container and _remove_network go by the name).
THEOREM NamesakesChange == Spec => Names!OnlyNamesakesChange
BY NamesHold, NamesConstants, Names!NamesakesChange

\* What a run has left behind, be it kept, failed or killed, is left alone by
\* every later run: no command names it any more (run_sandbox_container).
THEOREM LeftoversStay == Spec => Names!LeftoversStay
BY NamesHold, NamesConstants, Names!AbandonedStays
=============================================================================
