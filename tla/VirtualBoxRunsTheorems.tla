----------------------- MODULE VirtualBoxRunsTheorems -----------------------
(***************************************************************************)
(* What VirtualBoxRuns promises of clones, of sessions and of the base     *)
(* after finalizations, for every set of runs, commands, ports and seconds *)
(* and any number of faults.                                               *)
(***************************************************************************)
EXTENDS VirtualBoxRuns, TLAPS

\* Where a run can stand that works in its clone.
CloneWork == {"forwardClone", "startClone", "script", "removeClone",
              "powerOff", "waitClone", "unregister"}

\* The types of what the runs know, of the machines, and of the rest.
Control ==
  /\ pc \in [Runs -> Points]
  /\ seen \in [Runs -> Seen]
  /\ raised \in [Runs -> Points \cup {""}]
Choices ==
  /\ command \in [Runs -> {"run", "finalize"}]
  /\ stamp \in [Runs -> Names]
  /\ port \in [Runs -> SomePort]
  /\ session \in [Runs -> Names \cup {NoName}]
MachinesOK ==
  /\ vm \in [Names -> VMs]
  /\ bound \in [Ports -> Names \cup {NoName}]
Rest ==
  /\ command \in Commands
  /\ keep \in [Runs -> BOOLEAN]
  /\ saved \in [Seconds -> Runs \cup {NoRun}]
  /\ faults \in 0..MaxFaults

\* A port is listened on by a machine that is online and has a rule for it.
Listening ==
  \A p \in Ports, n \in Names :
    bound[p] = n => vm[n].power \in Online /\ p \in Rules(n)

\* What a run with command c at point a knows: nothing before it chooses, then
\* a second s and a port p, and a session n once it connected.
PlaceAt(a, c, s, p, n) ==
  /\ a \in {"create", "createVm", "modifyBase", "createDisk", "addController",
            "attachDisk", "installBase", "clone", "finalize"} =>
       s = 0 /\ p = NoPort /\ n = NoName
  /\ c = "finalize" => s = 0
  /\ a \in {"create", "clone", "cloneVm"} \cup CloneWork => c = "run"
  /\ a \in {"finalize", "clearStopped", "clearRunning", "addStopped",
            "addRunning", "startBase", "install", "shutdown", "waitBase",
            "removeForward"} => c = "finalize"
  /\ a = "cloneVm" \/ a \in CloneWork \/ (a = "connect" /\ c = "run") =>
       s \in Seconds
  /\ a \in {"cloneVm", "forwardClone", "startClone", "connect",
            "clearStopped", "clearRunning", "addStopped", "addRunning",
            "startBase"} => p \in Ports
  /\ a \in {"script", "install", "shutdown"} => n \in Names

Has(r, b) == PlaceAt(b, command[r], stamp[r], port[r], session[r])
Place == \A r \in Runs : Has(r, pc[r])

\* A step that at most starts, stops or writes to a machine.
Reshape ==
  \E n \in Names :
    /\ vm' \in [Names -> VMs]
    /\ \A m \in Names \ {n} : vm'[m] = vm[m]
    /\ vm'[n].baseRule = vm[n].baseRule
    /\ vm'[n].ownRule = vm[n].ownRule
    /\ vm'[n].owner = vm[n].owner
    /\ n # Base => vm[n].power # "absent" /\ vm'[n].power # "absent"
    /\ \/ bound' = bound /\ (vm[n].power \in Online => vm'[n].power \in Online)
       \/ bound' = Listen(n, Rules(n)) /\ vm'[n].power \in Online
       \/ bound' = Silence(n)

LEMMA Reshaped ==
  ASSUME MachinesOK, NEW n \in Names, NEW q \in Powers, NEW d \in Disks,
         vm' = [vm EXCEPT ![n] = [@ EXCEPT !.power = q, !.disk = d]],
         n # Base => vm[n].power # "absent" /\ q # "absent",
         \/ bound' = bound /\ (vm[n].power \in Online => q \in Online)
         \/ bound' = Listen(n, Rules(n)) /\ q \in Online
         \/ bound' = Silence(n)
  PROVE  Reshape
<1>1. vm[n] \in VMs
  BY DEF MachinesOK
<1>2. vm'[n] = [vm[n] EXCEPT !.power = q, !.disk = d]
  BY DEF MachinesOK
<1>3. /\ vm'[n].power = q /\ vm'[n].disk = d
      /\ vm'[n].baseRule = vm[n].baseRule
      /\ vm'[n].ownRule = vm[n].ownRule
      /\ vm'[n].owner = vm[n].owner
  BY <1>1, <1>2 DEF VMs
<1>4. vm'[n] \in VMs
  <2> DEFINE v == vm[n]
  <2>1. v \in VMs
    BY <1>1
  <2>. HIDE DEF v
  <2>2. [v EXCEPT !.power = q, !.disk = d] \in VMs
    BY <2>1 DEF VMs
  <2>3. vm'[n] = [v EXCEPT !.power = q, !.disk = d]
    BY <1>2 DEF v
  <2>. QED
    BY <2>2, <2>3
<1>5. vm'[n] \in VMs /\ vm'[n].power = q
  BY <1>3, <1>4
<1>6. /\ vm'[n].baseRule = vm[n].baseRule
      /\ vm'[n].ownRule = vm[n].ownRule
      /\ vm'[n].owner = vm[n].owner
  BY <1>3
<1>7. vm' \in [Names -> VMs] /\ \A m \in Names \ {n} : vm'[m] = vm[m]
  BY <1>5 DEF MachinesOK
<1>. QED
  BY <1>5, <1>6, <1>7 DEF Reshape

LEMMA Powered ==
  ASSUME MachinesOK, NEW n \in Names, NEW q \in Powers,
         vm' = [vm EXCEPT ![n].power = q],
         n # Base => vm[n].power # "absent" /\ q # "absent",
         \/ bound' = bound /\ (vm[n].power \in Online => q \in Online)
         \/ bound' = Listen(n, Rules(n)) /\ q \in Online
         \/ bound' = Silence(n)
  PROVE  Reshape
<1>1. vm[n] \in VMs
  BY DEF MachinesOK
<1>2. vm'[n] = [vm[n] EXCEPT !.power = q]
  BY DEF MachinesOK
<1>3. vm'[n] \in VMs /\ vm'[n].power = q
  BY <1>1, <1>2 DEF VMs
<1>4. /\ vm'[n].baseRule = vm[n].baseRule
      /\ vm'[n].ownRule = vm[n].ownRule
      /\ vm'[n].owner = vm[n].owner
  BY <1>1, <1>2 DEF VMs
<1>5. vm' \in [Names -> VMs] /\ \A m \in Names \ {n} : vm'[m] = vm[m]
  BY <1>3 DEF MachinesOK
<1>. QED
  BY <1>3, <1>4, <1>5 DEF Reshape

LEMMA Written ==
  ASSUME MachinesOK, NEW n \in Names, NEW d \in Disks,
         vm' = [vm EXCEPT ![n].disk = d], bound' = bound,
         n # Base => vm[n].power # "absent"
  PROVE  Reshape
<1>1. vm[n] \in VMs
  BY DEF MachinesOK
<1>2. vm'[n] = [vm[n] EXCEPT !.disk = d]
  BY DEF MachinesOK
<1>3. vm'[n] \in VMs /\ vm'[n].power = vm[n].power
  BY <1>1, <1>2 DEF VMs
<1>4. /\ vm'[n].baseRule = vm[n].baseRule
      /\ vm'[n].ownRule = vm[n].ownRule
      /\ vm'[n].owner = vm[n].owner
  BY <1>1, <1>2 DEF VMs
<1>5. vm' \in [Names -> VMs] /\ \A m \in Names \ {n} : vm'[m] = vm[m]
  BY <1>3 DEF MachinesOK
<1>. QED
  BY <1>3, <1>4, <1>5 DEF Reshape

\* The rule of a machine is set.
LEMMA Ruled ==
  ASSUME MachinesOK, NEW n \in Names, NEW p \in SomePort,
         \/ vm' = [vm EXCEPT ![n].baseRule = p]
         \/ vm' = [vm EXCEPT ![n].ownRule = p]
  PROVE  /\ vm' \in [Names -> VMs]
         /\ \A m \in Names \ {n} : vm'[m] = vm[m]
         /\ vm'[n].owner = vm[n].owner /\ vm'[n].power = vm[n].power
         /\ \/ vm'[n].baseRule = p /\ vm'[n].ownRule = vm[n].ownRule
            \/ vm'[n].ownRule = p /\ vm'[n].baseRule = vm[n].baseRule
<1>1. vm[n] \in VMs
  BY DEF MachinesOK
<1>2. CASE vm' = [vm EXCEPT ![n].baseRule = p]
  <2>1. vm'[n] = [vm[n] EXCEPT !.baseRule = p]
    BY <1>2 DEF MachinesOK
  <2>2. vm'[n] \in VMs /\ vm'[n].baseRule = p
    BY <1>1, <2>1 DEF VMs
  <2>3. /\ vm'[n].ownRule = vm[n].ownRule /\ vm'[n].owner = vm[n].owner
        /\ vm'[n].power = vm[n].power
    BY <1>1, <2>1 DEF VMs
  <2>. QED
    BY <1>2, <2>2, <2>3 DEF MachinesOK
<1>3. CASE vm' = [vm EXCEPT ![n].ownRule = p]
  <2>1. vm'[n] = [vm[n] EXCEPT !.ownRule = p]
    BY <1>3 DEF MachinesOK
  <2>2. vm'[n] \in VMs /\ vm'[n].ownRule = p
    BY <1>1, <2>1 DEF VMs
  <2>3. /\ vm'[n].baseRule = vm[n].baseRule /\ vm'[n].owner = vm[n].owner
        /\ vm'[n].power = vm[n].power
    BY <1>1, <2>1 DEF VMs
  <2>. QED
    BY <1>3, <2>2, <2>3 DEF MachinesOK
<1>. QED
  BY <1>2, <1>3

\* Most steps leave the machines alone, or reshape one.
Quiet(r) ==
  \/ Query(r) \/ ChooseByState(r) \/ NameClone(r) \/ Connect(r)
  \/ RunScript(r) \/ ChooseRemoval(r) \/ ChooseFinalization(r)
  \/ LookAgain(r) \/ TimeOut(r) \/ Kill(r)

LEMMA QuietSteps == ASSUME NEW r \in Runs, Quiet(r) PROVE UNCHANGED machines
  BY DEF Quiet, Query, ListVms, ShowInfo, ChooseByState, NameClone, Connect,
         RunScript, ChooseRemoval, ChooseFinalization, LookAgain, TimeOut, Kill

Shapes(r) ==
  \/ CreateVm(r) \/ PrepareBase(r) \/ InstallBase(r) \/ StartClone(r)
  \/ PowerOff(r) \/ StartBase(r) \/ InstallPackages(r) \/ ShutDownGuest(r)

\* A step of the preparation of the base.
LEMMA PreparingSteps ==
  ASSUME NEW r \in Runs, PrepareBase(r)
  PROVE  /\ pc[r] \in Preparing
         /\ \/ Raise(r) /\ UNCHANGED machines
            \/ \E b \in (Preparing \ {"modifyBase"}) \cup {"installBase"} :
                 /\ Continue(r, b) /\ bound' = bound
                 /\ \/ vm' = vm
                    \/ /\ vm[Base].power \notin Online
                       /\ vm' = [vm EXCEPT ![Base].disk = "empty"]
<1>1. pc[r] \in Preparing
  BY DEF PrepareBase
<1>2. AfterPreparing[pc[r]] \in (Preparing \ {"modifyBase"}) \cup {"installBase"}
  BY <1>1 DEF Preparing, AfterPreparing
<1>3. \/ Raise(r) /\ UNCHANGED machines
      \/ /\ Continue(r, AfterPreparing[pc[r]]) /\ bound' = bound
         /\ \/ vm' = vm
            \/ /\ vm[Base].power \notin Online
               /\ vm' = [vm EXCEPT ![Base].disk = "empty"]
  BY DEF PrepareBase, VBoxManage, machines
<1>. QED
  BY <1>1, <1>2, <1>3

LEMMA ShapingSteps ==
  ASSUME MachinesOK, Choices, Place, NEW r \in Runs, Shapes(r)
  PROVE  UNCHANGED machines \/ Reshape
<1> USE DEF machines
<1>1. Base \in Names /\ vm[Base].power \in Powers
  BY DEF MachinesOK, Names, VMs
<1>2. stamp[r] \in Names
  BY DEF Choices
<1>3. /\ "off" \in Powers /\ "on" \in Powers /\ "halting" \in Powers
      /\ "empty" \in Disks /\ "installing" \in Disks /\ "ready" \in Disks
  BY DEF Powers, Disks
<1>4. CASE CreateVm(r)
  <2>1. SUFFICES ASSUME vm[Base].power = "absent", bound' = bound,
                        vm' = [vm EXCEPT ![Base].power = "off"]
                 PROVE  Reshape
    BY <1>4 DEF CreateVm, VBoxManage
  <2>. QED
    BY <1>1, <1>3, <2>1, Powered DEF Online
<1>5. CASE PrepareBase(r)
  <2>1. SUFFICES ASSUME vm' = [vm EXCEPT ![Base].disk = "empty"],
                        bound' = bound
                 PROVE  Reshape
    BY <1>5, PreparingSteps
  <2>. QED
    BY <1>1, <1>3, <2>1, Written
<1>6. CASE InstallBase(r)
  <2>1. SUFFICES ASSUME vm' = [vm EXCEPT ![Base].power = "on",
                                         ![Base].disk = "installing"],
                        bound' = Listen(Base, Rules(Base))
                 PROVE  Reshape
    BY <1>6 DEF InstallBase, VBoxManage
  <2>2. vm' = [vm EXCEPT ![Base] = [@ EXCEPT !.power = "on",
                                             !.disk = "installing"]]
    BY <1>1, <2>1 DEF MachinesOK
  <2>. QED
    BY <1>1, <1>3, <2>1, <2>2, Reshaped DEF Online
<1>7. CASE StartClone(r)
  <2>1. SUFFICES ASSUME vm[stamp[r]].power = "off",
                        vm' = [vm EXCEPT ![stamp[r]].power = "on"],
                        bound' = Listen(stamp[r], Rules(stamp[r]))
                 PROVE  Reshape
    BY <1>7 DEF StartClone, VBoxManage
  <2>. QED
    BY <1>2, <1>3, <2>1, Powered DEF Online
<1>8. CASE PowerOff(r)
  <2>1. SUFFICES ASSUME vm[stamp[r]].power \in Online, bound' = bound,
                        vm' = [vm EXCEPT ![stamp[r]].power = "halting"]
                 PROVE  Reshape
    BY <1>8 DEF PowerOff, VBoxManage
  <2>. QED
    BY <1>2, <1>3, <2>1, Powered DEF Online
<1>9. CASE StartBase(r)
  <2>1. SUFFICES ASSUME vm' = [vm EXCEPT ![Base].power = "on"],
                        bound' = Listen(Base, Rules(Base))
                 PROVE  Reshape
    BY <1>9 DEF StartBase, VBoxManage
  <2>. QED
    BY <1>1, <1>3, <2>1, Powered DEF Online
<1>10. CASE InstallPackages(r)
  <2>1. SUFFICES ASSUME vm[session[r]].power = "on", bound' = bound,
                        vm' = [vm EXCEPT ![session[r]].disk = "ready"],
                        pc[r] = "install"
                 PROVE  Reshape
    BY <1>10 DEF InstallPackages
  <2>2. session[r] \in Names
    BY <2>1 DEF Place, Has, PlaceAt
  <2>. QED
    BY <1>3, <2>1, <2>2, Written
<1>11. CASE ShutDownGuest(r)
  <2>1. SUFFICES ASSUME vm[session[r]].power = "on", bound' = bound,
                        vm' = [vm EXCEPT ![session[r]].power = "halting"],
                        pc[r] = "shutdown"
                 PROVE  Reshape
    BY <1>11 DEF ShutDownGuest
  <2>2. session[r] \in Names
    BY <2>1 DEF Place, Has, PlaceAt
  <2>. QED
    BY <1>3, <2>1, <2>2, Powered DEF Online
<1>. QED
  BY <1>4, <1>5, <1>6, <1>7, <1>8, <1>9, <1>10, <1>11 DEF Shapes

\* What happens without a run.
World ==
  \/ \E n \in Names : GuestHalts(n) \/ Abort(n)
  \/ InstallationEnds \/ UserStopsBase

LEMMA WorldSteps == ASSUME MachinesOK, World PROVE Reshape
<1>1. /\ Base \in Names /\ "off" \in Powers /\ "aborted" \in Powers
      /\ "installed" \in Disks
  BY DEF Names, Powers, Disks
<1>2. ASSUME NEW n \in Names, GuestHalts(n) PROVE Reshape
  BY <1>1, <1>2, Powered DEF GuestHalts, Online
<1>3. ASSUME NEW n \in Names, Abort(n) PROVE Reshape
  BY <1>1, <1>3, Powered DEF Abort, Online
<1>4. CASE InstallationEnds
  BY <1>1, <1>4, Written DEF InstallationEnds
<1>5. CASE UserStopsBase
  BY <1>1, <1>5, Powered DEF UserStopsBase, Online
<1>. QED
  BY <1>2, <1>3, <1>4, <1>5 DEF World
-----------------------------------------------------------------------------
\* A NAT engine takes its ports when its machine starts, and gives them up
\* when it stops; a rule comes and goes with the port.
LEMMA ReshapeListens ==
  ASSUME MachinesOK, Listening, Reshape
  PROVE  MachinesOK' /\ Listening'
<1>1. PICK n \in Names :
        /\ vm' \in [Names -> VMs]
        /\ \A m \in Names \ {n} : vm'[m] = vm[m]
        /\ vm'[n].baseRule = vm[n].baseRule
        /\ vm'[n].ownRule = vm[n].ownRule
        /\ \/ /\ bound' = bound
              /\ vm[n].power \in Online => vm'[n].power \in Online
           \/ bound' = Listen(n, Rules(n)) /\ vm'[n].power \in Online
           \/ bound' = Silence(n)
  BY DEF Reshape
<1>2. /\ \A m \in Names : Rules(m)' = Rules(m)
      /\ n \in Names /\ NoName \notin Names
  BY <1>1, BoundsAssumption DEF Rules, Names, Seconds, Base, NoName
<1>3. CASE /\ bound' = bound
           /\ vm[n].power \in Online => vm'[n].power \in Online
  <2>1. ASSUME NEW p \in Ports, NEW m \in Names, bound'[p] = m
        PROVE  vm'[m].power \in Online /\ p \in Rules(m)'
    BY <1>1, <1>2, <1>3, <2>1 DEF MachinesOK, Listening
  <2>. QED
    BY <1>1, <1>3, <2>1 DEF MachinesOK, Listening, Rules
<1>4. CASE bound' = Listen(n, Rules(n)) /\ vm'[n].power \in Online
  <2>1. bound' \in [Ports -> Names \cup {NoName}]
    BY <1>4 DEF MachinesOK, Listen
  <2>2. ASSUME NEW p \in Ports, NEW m \in Names, bound'[p] = m
        PROVE  vm'[m].power \in Online /\ p \in Rules(m)'
    <3>1. (bound'[p] = n /\ p \in Rules(n)) \/ bound'[p] = bound[p]
      BY <1>4 DEF Listen
    <3>. QED
      BY <1>1, <1>2, <1>4, <2>1, <2>2, <3>1 DEF MachinesOK, Listening
  <2>. QED
    BY <1>1, <2>1, <2>2 DEF MachinesOK, Listening, Rules
<1>5. CASE bound' = Silence(n)
  <2>1. bound' \in [Ports -> Names \cup {NoName}]
    BY <1>5 DEF MachinesOK, Silence
  <2>2. ASSUME NEW p \in Ports, NEW m \in Names, bound'[p] = m
        PROVE  vm'[m].power \in Online /\ p \in Rules(m)'
    <3>1. bound'[p] = bound[p] /\ bound[p] # n
      BY <1>2, <1>5, <2>2 DEF Silence
    <3>. QED
      BY <1>1, <1>2, <2>1, <2>2, <3>1 DEF MachinesOK, Listening
  <2>. QED
    BY <1>1, <2>1, <2>2 DEF MachinesOK, Listening, Rules
<1>. QED
  BY <1>1, <1>3, <1>4, <1>5

\* A machine that is not online can be replaced.
LEMMA OfflineListens ==
  ASSUME MachinesOK, Listening, NEW n \in Names, vm[n].power \notin Online,
         vm' \in [Names -> VMs], \A m \in Names \ {n} : vm'[m] = vm[m],
         bound' = bound
  PROVE  MachinesOK' /\ Listening'
<1>1. ASSUME NEW p \in Ports, NEW m \in Names, bound'[p] = m
      PROVE  vm'[m].power \in Online /\ p \in Rules(m)'
  <2>1. m # n /\ vm[m].power \in Online /\ p \in Rules(m)
    BY <1>1 DEF Listening
  <2>. QED
    BY <2>1 DEF Rules
<1>. QED
  BY <1>1 DEF MachinesOK, Listening, Rules

LEMMA CloneType ==
  ASSUME MachinesOK, NEW r \in Runs, stamp[r] \in Names,
         vm' = [vm EXCEPT ![stamp[r]] =
                  [vm[Base] EXCEPT !.owner = r, !.power = "off"]]
  PROVE  /\ vm' \in [Names -> VMs]
         /\ \A m \in Names \ {stamp[r]} : vm'[m] = vm[m]
         /\ vm'[stamp[r]].owner = r /\ vm'[stamp[r]].power = "off"
         /\ vm'[stamp[r]].baseRule = vm[Base].baseRule
         /\ vm'[stamp[r]].ownRule = vm[Base].ownRule
<1>1. vm[Base] \in VMs /\ "off" \in Powers
  BY DEF MachinesOK, Names, Powers
<1>2. vm'[stamp[r]] = [vm[Base] EXCEPT !.owner = r, !.power = "off"]
  BY DEF MachinesOK
<1>3. /\ vm'[stamp[r]] \in VMs
      /\ vm'[stamp[r]].owner = r /\ vm'[stamp[r]].power = "off"
      /\ vm'[stamp[r]].baseRule = vm[Base].baseRule
      /\ vm'[stamp[r]].ownRule = vm[Base].ownRule
  <2> DEFINE v == vm[Base]
  <2>1. v \in VMs /\ r \in Runs \cup {NoRun}
    BY <1>1
  <2>. HIDE DEF v
  <2>2. [v EXCEPT !.owner = r, !.power = "off"] \in VMs
    BY <1>1, <2>1 DEF VMs
  <2>3. [v EXCEPT !.owner = r, !.power = "off"].owner = r
    BY <2>1 DEF VMs
  <2>4. [v EXCEPT !.owner = r, !.power = "off"].baseRule = v.baseRule
    BY <2>1 DEF VMs
  <2>5. [v EXCEPT !.owner = r, !.power = "off"].ownRule = v.ownRule
    BY <2>1 DEF VMs
  <2>6. [v EXCEPT !.owner = r, !.power = "off"].power = "off"
    BY <2>1 DEF VMs
  <2>7. vm'[stamp[r]] = [v EXCEPT !.owner = r, !.power = "off"]
    BY <1>2 DEF v
  <2>8. v = vm[Base]
    BY DEF v
  <2>. QED
    BY <2>2, <2>3, <2>4, <2>5, <2>6, <2>7, <2>8
<1>. QED
  BY <1>3 DEF MachinesOK

LEMMA NoVMType == NoVM \in VMs
  BY DEF NoVM, VMs, Powers, Disks, SomePort

LEMMA MachinesStep ==
  ASSUME MachinesOK, Listening, Choices, Place, [Next]_vars
  PROVE  MachinesOK' /\ Listening'
<1>1. ASSUME UNCHANGED machines PROVE MachinesOK' /\ Listening'
  BY <1>1 DEF machines, MachinesOK, Listening, Rules
<1>2. ASSUME NEW r \in Runs, Quiet(r) PROVE MachinesOK' /\ Listening'
  BY <1>1, <1>2, QuietSteps
<1>3. ASSUME NEW r \in Runs, Shapes(r) PROVE MachinesOK' /\ Listening'
  BY <1>1, <1>3, ShapingSteps, ReshapeListens
<1>4. CASE World
  BY <1>4, WorldSteps, ReshapeListens
<1>5. ASSUME NEW r \in Runs, CloneVm(r) PROVE MachinesOK' /\ Listening'
  <2>1. SUFFICES ASSUME vm[stamp[r]] = NoVM, bound' = bound,
                        vm' = [vm EXCEPT ![stamp[r]] =
                           [vm[Base] EXCEPT !.owner = r, !.power = "off"]]
                 PROVE  MachinesOK' /\ Listening'
    BY <1>1, <1>5 DEF CloneVm, VBoxManage
  <2>2. stamp[r] \in Names /\ vm[stamp[r]].power \notin Online
    BY <2>1 DEF Choices, NoVM, Online
  <2>. QED
    BY <2>1, <2>2, CloneType, OfflineListens
<1>6. ASSUME NEW r \in Runs, ForwardClone(r) PROVE MachinesOK' /\ Listening'
  <2>1. SUFFICES ASSUME vm[stamp[r]].power = "off", bound' = bound,
                        vm' = [vm EXCEPT ![stamp[r]].ownRule = port[r]]
                 PROVE  MachinesOK' /\ Listening'
    BY <1>1, <1>6 DEF ForwardClone, VBoxManage
  <2>2. stamp[r] \in Names /\ port[r] \in SomePort
    BY DEF Choices
  <2>. QED
    BY <2>1, <2>2, Ruled, OfflineListens DEF Online
<1>7. ASSUME NEW r \in Runs, Unregister(r) PROVE MachinesOK' /\ Listening'
  <2>1. SUFFICES ASSUME vm[stamp[r]].power \in {"off", "aborted"},
                        bound' = bound,
                        vm' = [vm EXCEPT ![stamp[r]] = NoVM]
                 PROVE  MachinesOK' /\ Listening'
    BY <1>1, <1>7 DEF Unregister, VBoxManage
  <2>2. stamp[r] \in Names /\ vm[stamp[r]].power \notin Online
    BY <2>1 DEF Choices, Online
  <2>3. vm' \in [Names -> VMs] /\ \A m \in Names \ {stamp[r]} : vm'[m] = vm[m]
    BY <2>1, <2>2, NoVMType DEF MachinesOK
  <2>. QED
    BY <2>1, <2>2, <2>3, OfflineListens
<1>8. ASSUME NEW r \in Runs, DeleteForward(r) PROVE MachinesOK' /\ Listening'
  <2>1. SUFFICES ASSUME vm' = [vm EXCEPT ![Base].baseRule = NoPort],
                        bound' = [p \in Ports |->
                          IF p = vm[Base].baseRule /\ bound[p] = Base
                            THEN NoName ELSE bound[p]]
                 PROVE  MachinesOK' /\ Listening'
    BY <1>1, <1>8 DEF DeleteForward
  <2>2. Base \in Names /\ NoPort \in SomePort
    BY DEF Names, SomePort
  <2>3. /\ vm' \in [Names -> VMs]
        /\ \A m \in Names \ {Base} : vm'[m] = vm[m]
        /\ vm'[Base].power = vm[Base].power
        /\ vm'[Base].ownRule = vm[Base].ownRule
    <3>1. vm'[Base] = [vm[Base] EXCEPT !.baseRule = NoPort]
      BY <2>1, <2>2 DEF MachinesOK
    <3>2. vm[Base] \in VMs
      BY <2>2 DEF MachinesOK
    <3>3. vm'[Base].ownRule = vm[Base].ownRule
      BY <3>1, <3>2 DEF VMs
    <3>. QED
      BY <2>1, <2>2, <3>3, Ruled
  <2>4. bound' \in [Ports -> Names \cup {NoName}]
    BY <2>1 DEF MachinesOK
  <2>5. ASSUME NEW p \in Ports, NEW m \in Names, bound'[p] = m
        PROVE  vm'[m].power \in Online /\ p \in Rules(m)'
    <3>1. bound[p] = m /\ (m = Base => p # vm[Base].baseRule)
      BY <2>1, <2>5 DEF Names, Seconds, NoName, Base
    <3>2. vm[m].power \in Online /\ p \in Rules(m)
      BY <3>1 DEF Listening
    <3>. QED
      BY <2>3, <3>1, <3>2 DEF Rules
  <2>. QED
    BY <2>3, <2>4, <2>5 DEF MachinesOK, Listening, Rules
<1>9. ASSUME NEW r \in Runs, AddForwardStopped(r)
      PROVE  MachinesOK' /\ Listening'
  <2>1. SUFFICES ASSUME vm[Base].power \notin Online, bound' = bound,
                        vm' = [vm EXCEPT ![Base].baseRule = port[r]]
                 PROVE  MachinesOK' /\ Listening'
    BY <1>1, <1>9 DEF AddForwardStopped, VBoxManage
  <2>2. Base \in Names /\ port[r] \in SomePort
    BY DEF Choices, Names
  <2>. QED
    BY <2>1, <2>2, Ruled, OfflineListens
<1>10. ASSUME NEW r \in Runs, AddForwardRunning(r)
       PROVE  MachinesOK' /\ Listening'
  <2>1. SUFFICES ASSUME vm[Base].power \in Online, vm[Base].baseRule = NoPort,
                        bound' = Listen(Base, {port[r]}), pc[r] = "addRunning",
                        vm' = [vm EXCEPT ![Base].baseRule = port[r]]
                 PROVE  MachinesOK' /\ Listening'
    BY <1>1, <1>10 DEF AddForwardRunning, VBoxManage
  <2>2. Base \in Names /\ port[r] \in Ports /\ port[r] \in SomePort
    BY <2>1 DEF Place, Has, PlaceAt, Names, SomePort
  <2>3. /\ vm' \in [Names -> VMs]
        /\ \A m \in Names \ {Base} : vm'[m] = vm[m]
        /\ vm'[Base].power = vm[Base].power
        /\ vm'[Base].ownRule = vm[Base].ownRule
        /\ vm'[Base].baseRule = port[r]
    <3>1. vm'[Base] = [vm[Base] EXCEPT !.baseRule = port[r]]
      BY <2>1, <2>2 DEF MachinesOK
    <3>2. vm[Base] \in VMs
      BY <2>2 DEF MachinesOK
    <3>3. vm'[Base].ownRule = vm[Base].ownRule /\ vm'[Base].baseRule = port[r]
      BY <3>1, <3>2 DEF VMs
    <3>. QED
      BY <2>1, <2>2, <3>3, Ruled
  <2>4. bound' \in [Ports -> Names \cup {NoName}]
    BY <2>1, <2>2 DEF MachinesOK, Listen
  <2>5. ASSUME NEW p \in Ports, NEW m \in Names, bound'[p] = m
        PROVE  vm'[m].power \in Online /\ p \in Rules(m)'
    <3>1. CASE p = port[r] /\ m = Base
      BY <2>1, <2>2, <2>3, <3>1, PortsAssumption DEF Rules, NoPort
    <3>2. CASE bound[p] = m
      <4>1. vm[m].power \in Online /\ p \in Rules(m)
        BY <3>2 DEF Listening
      <4>. QED
        BY <2>1, <2>3, <4>1 DEF Rules
    <3>. QED
      BY <2>1, <2>5, <3>1, <3>2 DEF Listen
  <2>. QED
    BY <2>3, <2>4, <2>5 DEF MachinesOK, Listening, Rules
<1>11. CASE UNCHANGED vars
  BY <1>1, <1>11 DEF vars
<1>. QED
  BY <1>2, <1>3, <1>4, <1>5, <1>6, <1>7, <1>8, <1>9, <1>10, <1>11
  DEF Next, Step, Quiet, Shapes, World
-----------------------------------------------------------------------------
\* The steps of a program lead to steps of it, and a run has what it needs
\* there.
Knows == Control /\ Choices /\ Place
KeepsChoices == UNCHANGED <<command, stamp, port, session>>

LEMMA Moves ==
  ASSUME Knows, KeepsChoices, NEW r \in Runs, NEW b \in Points, Has(r, b),
         pc' = [pc EXCEPT ![r] = b]
  PROVE  Choices' /\ Place'
<1>1. Choices'
  BY DEF Knows, KeepsChoices, Choices
<1>2. ASSUME NEW q \in Runs PROVE Has(q, pc[q])'
  <2>1. Has(q, pc'[q])
    BY DEF Knows, Control, Place
  <2>. QED
    BY <2>1 DEF KeepsChoices, Has
<1>. QED
  BY <1>1, <1>2 DEF Place

LEMMA Continues ==
  ASSUME Knows, KeepsChoices, NEW r \in Runs, NEW b \in Points, Has(r, b),
         Continue(r, b)
  PROVE  Knows'
<1>1. Control' /\ pc' = [pc EXCEPT ![r] = b]
  BY DEF Knows, Control, Continue, Goto, Seen
<1>. QED
  BY <1>1, Moves DEF Knows

LEMMA Raises ==
  ASSUME Knows, KeepsChoices, NEW r \in Runs, Raise(r)
  PROVE  Knows'
<1>1. PICK b \in {"removeForward", "removeClone", "failed"} :
        /\ pc' = [pc EXCEPT ![r] = b]
        /\ b = "removeForward" => command[r] = "finalize"
        /\ b = "removeClone" =>
             command[r] # "finalize" /\ pc[r] \in {"connect", "script"}
  BY DEF Raise, Goto
<1>2. b \in Points /\ pc[r] \in Points
  BY DEF Knows, Control, Points, QueryPoints, Ended
<1>3. Control'
  BY <1>1, <1>2 DEF Knows, Control, Raise, Goto, Seen
<1>4. Has(r, b)
  <2>1. command[r] \in {"run", "finalize"}
    BY DEF Knows, Choices
  <2>2. Has(r, pc[r])
    BY DEF Knows, Place
  <2>. QED
    BY <1>1, <2>1, <2>2 DEF Has, PlaceAt, CloneWork
<1>. QED
  BY <1>1, <1>2, <1>3, <1>4, Moves DEF Knows

LEMMA KnowsStep == ASSUME Knows, MachinesOK, [Next]_vars PROVE Knows'
<1> USE DEF OtherwiseUnchanged, KeepsChoices
<1>1. ASSUME NEW r \in Runs
      PROVE  Has(r, pc[r]) /\ command[r] \in {"run", "finalize"}
  BY DEF Knows, Place, Choices
<1>2. /\ {"done", "failed", "refused", "killed"} \subseteq Ended
      /\ Ended \subseteq Points
      /\ \A r \in Runs : \A b \in Ended : Has(r, b)
  BY <1>1 DEF Ended, Points, Has, PlaceAt, CloneWork
<1>3. ASSUME NEW r \in Runs, CreateVm(r) PROVE Knows'
  <2>1. "modifyBase" \in Points /\ Has(r, "modifyBase")
    BY <1>1, <1>3 DEF CreateVm, Has, PlaceAt, CloneWork, Points,
            QueryPoints, Ended, Preparing
  <2>2. Continue(r, "modifyBase") \/ Raise(r)
    BY <1>3 DEF CreateVm, VBoxManage
  <2>. QED
    BY <1>3, <2>1, <2>2, Continues, Raises DEF CreateVm
<1>4. ASSUME NEW r \in Runs, PrepareBase(r) PROVE Knows'
  <2>1. ASSUME NEW b \in Preparing \cup {"installBase"}
        PROVE  b \in Points /\ Has(r, b)
    BY <1>1, <1>4, <2>1, PreparingSteps
    DEF Has, PlaceAt, CloneWork, Points, QueryPoints, Ended, Preparing
  <2>2. Raise(r) \/ \E b \in Preparing \cup {"installBase"} : Continue(r, b)
    BY <1>4, PreparingSteps
  <2>. QED
    BY <1>4, <2>1, <2>2, Continues, Raises DEF PrepareBase
<1>5. ASSUME NEW r \in Runs, InstallBase(r) PROVE Knows'
  <2>1. "done" \in Points /\ Has(r, "done")
    BY <1>1, <1>5 DEF InstallBase, Has, PlaceAt, CloneWork, Points,
            QueryPoints, Ended
  <2>2. Continue(r, "done") \/ Raise(r)
    BY <1>5 DEF InstallBase, VBoxManage
  <2>. QED
    BY <1>5, <2>1, <2>2, Continues, Raises DEF InstallBase
<1>6. ASSUME NEW r \in Runs, CloneVm(r) PROVE Knows'
  <2>1. "forwardClone" \in Points /\ Has(r, "forwardClone")
    BY <1>1, <1>6 DEF CloneVm, Has, PlaceAt, CloneWork, Points,
            QueryPoints, Ended
  <2>2. Continue(r, "forwardClone") \/ Raise(r)
    BY <1>6 DEF CloneVm, VBoxManage
  <2>. QED
    BY <1>6, <2>1, <2>2, Continues, Raises DEF CloneVm
<1>7. ASSUME NEW r \in Runs, ForwardClone(r) PROVE Knows'
  <2>1. "startClone" \in Points /\ Has(r, "startClone")
    BY <1>1, <1>7 DEF ForwardClone, Has, PlaceAt, CloneWork, Points,
            QueryPoints, Ended
  <2>2. Continue(r, "startClone") \/ Raise(r)
    BY <1>7 DEF ForwardClone, VBoxManage
  <2>. QED
    BY <1>7, <2>1, <2>2, Continues, Raises DEF ForwardClone
<1>8. ASSUME NEW r \in Runs, StartClone(r) PROVE Knows'
  <2>1. "connect" \in Points /\ Has(r, "connect")
    BY <1>1, <1>8 DEF StartClone, Has, PlaceAt, CloneWork, Points,
            QueryPoints, Ended
  <2>2. Continue(r, "connect") \/ Raise(r)
    BY <1>8 DEF StartClone, VBoxManage
  <2>. QED
    BY <1>8, <2>1, <2>2, Continues, Raises DEF StartClone
<1>9. ASSUME NEW r \in Runs, PowerOff(r) PROVE Knows'
  <2>1. "waitClone" \in Points /\ Has(r, "waitClone")
    BY <1>1, <1>9 DEF PowerOff, Has, PlaceAt, CloneWork, Points,
            QueryPoints, Ended
  <2>2. Continue(r, "waitClone") \/ Raise(r)
    BY <1>9 DEF PowerOff, VBoxManage
  <2>. QED
    BY <1>9, <2>1, <2>2, Continues, Raises DEF PowerOff
<1>10. ASSUME NEW r \in Runs, AddForwardStopped(r) PROVE Knows'
  <2>1. "startBase" \in Points /\ Has(r, "startBase")
    BY <1>1, <1>10 DEF AddForwardStopped, Has, PlaceAt, CloneWork, Points,
            QueryPoints, Ended
  <2>2. Continue(r, "startBase") \/ Raise(r)
    BY <1>10 DEF AddForwardStopped, VBoxManage
  <2>. QED
    BY <1>10, <2>1, <2>2, Continues, Raises DEF AddForwardStopped
<1>11. ASSUME NEW r \in Runs, AddForwardRunning(r) PROVE Knows'
  <2>1. "connect" \in Points /\ Has(r, "connect")
    BY <1>1, <1>11 DEF AddForwardRunning, Has, PlaceAt, CloneWork, Points,
            QueryPoints, Ended
  <2>2. Continue(r, "connect") \/ Raise(r)
    BY <1>11 DEF AddForwardRunning, VBoxManage
  <2>. QED
    BY <1>11, <2>1, <2>2, Continues, Raises DEF AddForwardRunning
<1>12. ASSUME NEW r \in Runs, StartBase(r) PROVE Knows'
  <2>1. "connect" \in Points /\ Has(r, "connect")
    BY <1>1, <1>12 DEF StartBase, Has, PlaceAt, CloneWork, Points,
            QueryPoints, Ended
  <2>2. Continue(r, "connect") \/ Raise(r)
    BY <1>12 DEF StartBase, VBoxManage
  <2>. QED
    BY <1>12, <2>1, <2>2, Continues, Raises DEF StartBase
<1>13. ASSUME NEW r \in Runs, ListVms(r) PROVE Knows'
  <2>1. CASE QueryFails(r)
    BY <1>13, <2>1, Raises DEF ListVms, QueryFails
  <2>2. CASE UNCHANGED <<pc, raised>>
    <3>1. \E s \in Seen : seen' = [seen EXCEPT ![r] = s]
      BY <1>13, <2>2
      DEF ListVms, Saw, QueryFails, Raise, Goto, Seen, MachineStates
    <3>2. Control'
      BY <2>2, <3>1 DEF Knows, Control
    <3>3. Choices' /\ Place'
      BY <1>13, <2>2 DEF ListVms, Knows, Choices, Place, Has
    <3>. QED
      BY <3>2, <3>3 DEF Knows
  <2>. QED
    BY <1>13, <2>1, <2>2 DEF ListVms, Saw
<1>14. ASSUME NEW r \in Runs, ShowInfo(r) PROVE Knows'
  <2>1. CASE QueryFails(r)
    BY <1>14, <2>1, Raises DEF ShowInfo, QueryFails
  <2>2. CASE UNCHANGED <<pc, raised>>
    <3>1. \E s \in Seen : seen' = [seen EXCEPT ![r] = s]
      BY <1>14, <2>2
      DEF ShowInfo, Saw, QueryFails, Raise, Goto, Seen, MachineStates
    <3>2. Control'
      BY <2>2, <3>1 DEF Knows, Control
    <3>3. Choices' /\ Place'
      BY <1>14, <2>2 DEF ShowInfo, Knows, Choices, Place, Has
    <3>. QED
      BY <3>2, <3>3 DEF Knows
  <2>. QED
    BY <1>14, <2>1, <2>2 DEF ShowInfo, Saw
<1>15. ASSUME NEW r \in Runs, ChooseByState(r) PROVE Knows'
  <2>1. /\ {"createVm", "clone"} \subseteq Points
        /\ Has(r, "createVm") /\ Has(r, "clone")
    BY <1>1, <1>15 DEF ChooseByState, Has, PlaceAt, CloneWork, Points,
            QueryPoints, Ended
  <2>2. \E b \in {"refused", "createVm", "done", "clone"} : Continue(r, b)
    BY <1>15 DEF ChooseByState
  <2>. QED
    BY <1>15, <1>2, <2>1, <2>2, Continues DEF ChooseByState
<1>16. ASSUME NEW r \in Runs, RunScript(r) PROVE Knows'
  <2>1. CASE keep[r] /\ Finish(r)
    BY <1>16, <1>2, <2>1, Continues DEF RunScript, Finish
  <2>2. CASE ~keep[r] /\ Continue(r, "removeClone")
    <3>1. command[r] = "run" =>
            "removeClone" \in Points /\ Has(r, "removeClone")
      BY <1>1, <1>16
      DEF RunScript, Has, PlaceAt, CloneWork, Points, QueryPoints
    <3>2. command[r] = "run"
      BY <1>1, <1>16 DEF RunScript, Has, PlaceAt, CloneWork
    <3>. QED
      BY <1>16, <2>2, <3>1, <3>2, Continues DEF RunScript
  <2>3. CASE Raise(r)
    BY <1>16, <2>3, Raises DEF RunScript
  <2>. QED
    BY <1>16, <2>1, <2>2, <2>3 DEF RunScript
<1>17. ASSUME NEW r \in Runs, ChooseRemoval(r) PROVE Knows'
  <2>1. /\ {"powerOff", "unregister"} \subseteq Points
        /\ Has(r, "powerOff") /\ Has(r, "unregister")
    BY <1>1, <1>17 DEF ChooseRemoval, Has, PlaceAt, CloneWork, Points,
            QueryPoints, Ended
  <2>2. \E b \in {"done", "failed", "powerOff", "unregister"} : Continue(r, b)
    BY <1>17 DEF ChooseRemoval, Finish
  <2>. QED
    BY <1>17, <1>2, <2>1, <2>2, Continues DEF ChooseRemoval
<1>18. ASSUME NEW r \in Runs, Unregister(r) PROVE Knows'
  <2>1. Continue(r, "done") \/ Continue(r, "failed") \/ Raise(r)
    BY <1>18 DEF Unregister, VBoxManage
  <2>. QED
    BY <1>18, <1>2, <2>1, Continues, Raises DEF Unregister
<1>19. ASSUME NEW r \in Runs, DeleteForward(r) PROVE Knows'
  <2>1. CASE pc[r] = "clearStopped" /\ Continue(r, "addStopped")
    <3>1. "addStopped" \in Points /\ Has(r, "addStopped")
      BY <1>1, <2>1 DEF Has, PlaceAt, CloneWork, Points
    <3>. QED
      BY <1>19, <2>1, <3>1, Continues DEF DeleteForward
  <2>2. CASE pc[r] = "clearRunning" /\ Continue(r, "addRunning")
    <3>1. "addRunning" \in Points /\ Has(r, "addRunning")
      BY <1>1, <2>2 DEF Has, PlaceAt, CloneWork, Points
    <3>. QED
      BY <1>19, <2>2, <3>1, Continues DEF DeleteForward
  <2>3. CASE Continue(r, "done") \/ Continue(r, "failed")
    BY <1>19, <1>2, <2>3, Continues DEF DeleteForward
  <2>. QED
    BY <1>19, <2>1, <2>2, <2>3 DEF DeleteForward, AfterDelete, Finish
<1>20. ASSUME NEW r \in Runs, InstallPackages(r) PROVE Knows'
  <2>1. "shutdown" \in Points /\ Has(r, "shutdown")
    BY <1>1, <1>20 DEF InstallPackages, Has, PlaceAt, CloneWork, Points,
            QueryPoints, Ended
  <2>2. Continue(r, "shutdown") \/ Raise(r)
    BY <1>20 DEF InstallPackages
  <2>. QED
    BY <1>20, <2>1, <2>2, Continues, Raises DEF InstallPackages
<1>21. ASSUME NEW r \in Runs, ShutDownGuest(r) PROVE Knows'
  <2>1. "waitBase" \in Points /\ Has(r, "waitBase")
    BY <1>1, <1>21 DEF ShutDownGuest, Has, PlaceAt, CloneWork, Points,
            QueryPoints, Ended
  <2>2. Continue(r, "waitBase") \/ Raise(r)
    BY <1>21 DEF ShutDownGuest
  <2>. QED
    BY <1>21, <2>1, <2>2, Continues, Raises DEF ShutDownGuest
<1>22. ASSUME NEW r \in Runs, LookAgain(r) PROVE Knows'
  <2>1. CASE /\ pc[r] = "waitBase"
             /\ \E b \in {"waitBase", "removeForward"} : Continue(r, b)
    <3>1. \A b \in {"waitBase", "removeForward"} : b \in Points /\ Has(r, b)
      BY <1>1, <2>1 DEF Has, PlaceAt, CloneWork, Points, QueryPoints
    <3>. QED
      BY <1>22, <2>1, <3>1, Continues DEF LookAgain
  <2>2. CASE /\ pc[r] = "waitClone"
             /\ \E b \in {"waitClone", "unregister"} : Continue(r, b)
    <3>1. \A b \in {"waitClone", "unregister"} : b \in Points /\ Has(r, b)
      BY <1>1, <2>2 DEF Has, PlaceAt, CloneWork, Points, QueryPoints
    <3>. QED
      BY <1>22, <2>2, <3>1, Continues DEF LookAgain
  <2>. QED
    BY <1>22, <2>1, <2>2 DEF LookAgain
<1>23. ASSUME NEW r \in Runs, TimeOut(r) PROVE Knows'
  BY <1>23, Raises DEF TimeOut
<1>24. ASSUME NEW r \in Runs, Kill(r) PROVE Knows'
  <2>1. Control' /\ pc' = [pc EXCEPT ![r] = "killed"]
    BY <1>24, <1>2 DEF Kill, Goto, Knows, Control, Seen
  <2>. QED
    BY <1>24, <1>2, <2>1, Moves DEF Kill, Knows
<1>25. ASSUME NEW r \in Runs, NameClone(r) PROVE Knows'
  <2>1. PICK s \in Now, p \in FreePorts :
          /\ stamp' = [stamp EXCEPT ![r] = s]
          /\ port' = [port EXCEPT ![r] = p]
          /\ Continue(r, "cloneVm")
          /\ UNCHANGED <<command, session>>
    BY <1>25 DEF NameClone
  <2>2. s \in Seconds /\ s \in Names /\ p \in Ports /\ p \in SomePort
    BY DEF Now, FreePorts, Names, SomePort
  <2>3. Control' /\ Choices'
    BY <2>1, <2>2 DEF Continue, Goto, Knows, Control, Choices, Points, Seen
  <2>4. ASSUME NEW q \in Runs \ {r} PROVE Has(q, pc[q])'
    <3>1. /\ pc'[q] = pc[q] /\ command'[q] = command[q] /\ stamp'[q] = stamp[q]
          /\ port'[q] = port[q] /\ session'[q] = session[q]
      BY <2>1 DEF Continue, Goto, Knows, Control, Choices
    <3>. QED
      BY <1>1, <3>1 DEF Has
  <2>5. Has(r, pc[r])'
    <3>1. /\ pc'[r] = "cloneVm" /\ command'[r] = command[r]
          /\ stamp'[r] = s /\ port'[r] = p
      BY <2>1 DEF Continue, Goto, Knows, Control, Choices
    <3>2. command[r] = "run"
      BY <1>1, <1>25 DEF NameClone, Has, PlaceAt
    <3>. QED
      BY <2>2, <3>1, <3>2 DEF Has, PlaceAt, CloneWork
  <2>. QED
    BY <2>3, <2>4, <2>5 DEF Knows, Place
<1>26. ASSUME NEW r \in Runs, ChooseFinalization(r) PROVE Knows'
  <2>1. CASE Continue(r, "refused") /\ UNCHANGED port
    BY <1>26, <1>2, <2>1, Continues DEF ChooseFinalization
  <2>2. ASSUME NEW b \in {"clearStopped", "clearRunning"}, Continue(r, b),
               NEW p \in FreePorts, port' = [port EXCEPT ![r] = p]
        PROVE  Knows'
    <3>1. p \in Ports /\ p \in SomePort /\ b \in Points
      BY DEF FreePorts, SomePort, Points, QueryPoints
    <3>2. Control' /\ Choices'
      BY <1>26, <2>2, <3>1
      DEF ChooseFinalization, Continue, Goto, Knows, Control, Choices, Seen
    <3>3. ASSUME NEW q \in Runs \ {r} PROVE Has(q, pc[q])'
      <4>1. /\ pc'[q] = pc[q] /\ command'[q] = command[q]
            /\ stamp'[q] = stamp[q]
            /\ port'[q] = port[q] /\ session'[q] = session[q]
        BY <1>26, <2>2
        DEF ChooseFinalization, Continue, Goto, Knows, Control, Choices
      <4>. QED
        BY <1>1, <4>1 DEF Has
    <3>4. Has(r, pc[r])'
      <4>1. /\ pc'[r] = b /\ port'[r] = p
            /\ command'[r] = command[r] /\ stamp'[r] = stamp[r]
        BY <1>26, <2>2
        DEF ChooseFinalization, Continue, Goto, Knows, Control, Choices
      <4>2. command[r] = "finalize"
        BY <1>1, <1>26 DEF ChooseFinalization, Has, PlaceAt
      <4>. QED
        BY <1>1, <3>1, <4>1, <4>2 DEF Has, PlaceAt, CloneWork
    <3>. QED
      BY <3>2, <3>3, <3>4 DEF Knows, Place
  <2>. QED
    BY <1>26, <2>1, <2>2 DEF ChooseFinalization
<1>27. ASSUME NEW r \in Runs, Connect(r) PROVE Knows'
  <2>1. CASE Raise(r) /\ UNCHANGED session
    BY <1>27, <2>1, Raises DEF Connect
  <2>2. ASSUME NEW n, n = bound[port[r]], n \in Names,
               session' = [session EXCEPT ![r] = n],
               Continue(r, IF command[r] = "finalize" THEN "install"
                                                      ELSE "script")
        PROVE  Knows'
    <3>1. Control' /\ Choices'
      BY <1>27, <2>2
      DEF Connect, Continue, Goto, Knows, Control, Choices, Seen, Points
    <3>2. ASSUME NEW q \in Runs \ {r} PROVE Has(q, pc[q])'
      <4>1. /\ pc'[q] = pc[q] /\ command'[q] = command[q]
            /\ stamp'[q] = stamp[q]
            /\ port'[q] = port[q] /\ session'[q] = session[q]
        BY <1>27, <2>2 DEF Connect, Continue, Goto, Knows, Control, Choices
      <4>. QED
        BY <1>1, <4>1 DEF Has
    <3>3. Has(r, pc[r])'
      <4>1. /\ pc'[r] = IF command[r] = "finalize" THEN "install" ELSE "script"
            /\ session'[r] = n
            /\ command'[r] = command[r] /\ stamp'[r] = stamp[r]
        BY <1>27, <2>2 DEF Connect, Continue, Goto, Knows, Control, Choices
      <4>2. command[r] = "run" => stamp[r] \in Seconds
        BY <1>1, <1>27 DEF Connect, Has, PlaceAt
      <4>. QED
        BY <1>1, <2>2, <4>1, <4>2 DEF Has, PlaceAt, CloneWork
    <3>. QED
      BY <3>1, <3>2, <3>3 DEF Knows, Place
  <2>3. bound[port[r]] \in Names \cup {NoName}
    BY <1>1, <1>27 DEF Connect, Has, PlaceAt, MachinesOK
  <2>. QED
    BY <1>27, <2>1, <2>2, <2>3 DEF Connect
<1>28. ASSUME UNCHANGED process PROVE Knows'
  BY <1>28 DEF process, Knows, Control, Choices, Place, Has
<1>. QED
  BY <1>3, <1>4, <1>5, <1>6, <1>7, <1>8, <1>9, <1>10, <1>11, <1>12, <1>13,
     <1>14, <1>15, <1>16, <1>17, <1>18, <1>19, <1>20, <1>21, <1>22, <1>23,
     <1>24, <1>25, <1>26, <1>27, <1>28
  DEF Next, Step, Query, GuestHalts, Abort, InstallationEnds, UserStopsBase,
      vars
-----------------------------------------------------------------------------
\* What one step does to one machine: nothing that matters to owners and rules;
\* or it is made by a run, removed by one, or given a rule.
Kept(n) ==
  /\ vm'[n].owner = vm[n].owner
  /\ vm'[n].ownRule = vm[n].ownRule
  /\ vm'[n].baseRule \in {vm[n].baseRule, NoPort}
  /\ n # Base /\ vm[n] # NoVM => vm'[n] # NoVM
Made(n, r) ==
  /\ pc[r] = "cloneVm" /\ stamp[r] = n /\ vm[n] = NoVM
  /\ pc'[r] = "forwardClone" /\ stamp'[r] = n
  /\ vm'[n].owner = r
  /\ vm'[n].ownRule = vm[Base].ownRule
  /\ vm'[n].baseRule = vm[Base].baseRule
Removed(n, r) ==
  /\ pc[r] = "unregister" /\ stamp[r] = n /\ vm'[n] = NoVM
  /\ pc'[r] \in Ended
Forwarded(n, r) ==
  /\ pc[r] = "forwardClone" /\ stamp[r] = n
  /\ vm'[n].owner = vm[n].owner
  /\ vm'[n].ownRule = port[r]
  /\ vm'[n].baseRule = vm[n].baseRule
  /\ vm'[n] # NoVM
Opened(n, r) ==
  /\ pc[r] \in {"addStopped", "addRunning"} /\ n = Base
  /\ vm'[n].owner = vm[n].owner
  /\ vm'[n].ownRule = vm[n].ownRule
  /\ vm'[n].baseRule = port[r]
Touched(n) ==
  Kept(n) \/ \E r \in Runs : Made(n, r) \/ Removed(n, r) \/ Forwarded(n, r)
                            \/ Opened(n, r)

LEMMA ReshapeTouches ==
  ASSUME MachinesOK, Reshape, NEW m \in Names PROVE Kept(m)
  BY DEF Reshape, Kept, NoVM

LEMMA TouchStep ==
  ASSUME Knows, MachinesOK, [Next]_vars, NEW m \in Names PROVE Touched(m)
<1>1. ASSUME UNCHANGED machines PROVE Touched(m)
  BY <1>1 DEF machines, Touched, Kept
<1>2. ASSUME Reshape PROVE Touched(m)
  BY <1>2, ReshapeTouches DEF Touched
<1>3. ASSUME NEW r \in Runs, Quiet(r) PROVE Touched(m)
  BY <1>1, <1>3, QuietSteps
<1>4. ASSUME NEW r \in Runs, Shapes(r) PROVE Touched(m)
  BY <1>1, <1>2, <1>4, ShapingSteps DEF Knows
<1>5. CASE World
  BY <1>2, <1>5, WorldSteps
<1>6. ASSUME NEW r \in Runs PROVE stamp[r] \in Names /\ port[r] \in SomePort
  BY DEF Knows, Choices
<1>7. ASSUME NEW r \in Runs, CloneVm(r) PROVE Touched(m)
  <2>1. SUFFICES ASSUME vm[stamp[r]] = NoVM, pc[r] = "cloneVm",
                        vm' = [vm EXCEPT ![stamp[r]] =
                           [vm[Base] EXCEPT !.owner = r, !.power = "off"]],
                        Continue(r, "forwardClone"), UNCHANGED stamp
                 PROVE  Touched(m)
    BY <1>1, <1>7 DEF CloneVm, VBoxManage, OtherwiseUnchanged
  <2>2. CASE m = stamp[r]
    <3>1. pc'[r] = "forwardClone"
      BY <2>1 DEF Continue, Goto, Knows, Control
    <3>. QED
      BY <1>6, <2>1, <2>2, <3>1, CloneType DEF Touched, Made
  <2>3. CASE m # stamp[r]
    BY <1>6, <2>1, <2>3, CloneType DEF Touched, Kept
  <2>. QED
    BY <2>2, <2>3
<1>8. ASSUME NEW r \in Runs, ForwardClone(r) PROVE Touched(m)
  <2>1. SUFFICES ASSUME vm[stamp[r]].power = "off", pc[r] = "forwardClone",
                        vm' = [vm EXCEPT ![stamp[r]].ownRule = port[r]]
                 PROVE  Touched(m)
    BY <1>1, <1>8 DEF ForwardClone, VBoxManage
  <2>2. CASE m = stamp[r]
    <3>1. vm'[m] = [vm[m] EXCEPT !.ownRule = port[r]] /\ vm[m] \in VMs
      BY <2>1, <2>2 DEF MachinesOK
    <3>2. vm'[m].ownRule = port[r] /\ vm'[m].baseRule = vm[m].baseRule
      BY <3>1 DEF VMs
    <3>3. vm'[m].owner = vm[m].owner /\ vm'[m].power = vm[m].power
      BY <3>1 DEF VMs
    <3>. QED
      BY <2>1, <2>2, <3>2, <3>3 DEF Touched, Forwarded, NoVM
  <2>3. CASE m # stamp[r]
    BY <1>6, <2>1, <2>3, Ruled DEF Touched, Kept
  <2>. QED
    BY <2>2, <2>3
<1>9. ASSUME NEW r \in Runs, Unregister(r) PROVE Touched(m)
  <2>1. SUFFICES ASSUME vm' = [vm EXCEPT ![stamp[r]] = NoVM],
                        pc[r] = "unregister",
                        Continue(r, "done") \/ Continue(r, "failed")
                 PROVE  Touched(m)
    BY <1>1, <1>9 DEF Unregister, VBoxManage
  <2>2. pc'[r] \in Ended
    BY <2>1 DEF Continue, Goto, Ended, Knows, Control
  <2>. QED
    BY <1>6, <2>1, <2>2 DEF Touched, Removed, Kept, MachinesOK
<1>10. ASSUME NEW r \in Runs, DeleteForward(r) PROVE Touched(m)
  <2>1. SUFFICES ASSUME vm' = [vm EXCEPT ![Base].baseRule = NoPort]
                 PROVE  Touched(m)
    BY <1>1, <1>10 DEF DeleteForward
  <2>2. CASE m = Base
    <3>1. vm'[m] = [vm[m] EXCEPT !.baseRule = NoPort] /\ vm[m] \in VMs
      BY <2>1, <2>2 DEF MachinesOK
    <3>2. vm'[m].ownRule = vm[m].ownRule /\ vm'[m].baseRule = NoPort
      BY <3>1 DEF VMs
    <3>3. vm'[m].owner = vm[m].owner
      BY <3>1 DEF VMs
    <3>. QED
      BY <2>2, <3>2, <3>3 DEF Touched, Kept
  <2>3. CASE m # Base
    BY <2>1, <2>3 DEF Touched, Kept, MachinesOK
  <2>. QED
    BY <2>2, <2>3
<1>11. ASSUME NEW r \in Runs, AddForwardStopped(r) \/ AddForwardRunning(r)
       PROVE  Touched(m)
  <2>1. SUFFICES ASSUME vm' = [vm EXCEPT ![Base].baseRule = port[r]],
                        pc[r] \in {"addStopped", "addRunning"}
                 PROVE  Touched(m)
    BY <1>1, <1>11 DEF AddForwardStopped, AddForwardRunning, VBoxManage
  <2>2. CASE m = Base
    <3>1. vm'[m] = [vm[m] EXCEPT !.baseRule = port[r]] /\ vm[m] \in VMs
      BY <2>1, <2>2 DEF MachinesOK
    <3>2. vm'[m].ownRule = vm[m].ownRule /\ vm'[m].baseRule = port[r]
      BY <3>1 DEF VMs
    <3>3. vm'[m].owner = vm[m].owner
      BY <3>1 DEF VMs
    <3>. QED
      BY <2>1, <2>2, <3>2, <3>3 DEF Touched, Opened
  <2>3. CASE m # Base
    BY <2>1, <2>3 DEF Touched, Kept, MachinesOK
  <2>. QED
    BY <2>2, <2>3
<1>12. CASE UNCHANGED vars
  BY <1>1, <1>12 DEF vars
<1>. QED
  BY <1>3, <1>4, <1>5, <1>7, <1>8, <1>9, <1>10, <1>11, <1>12
  DEF Next, Step, Quiet, Shapes, World

\* What one step does to one run: it goes on in its clone, it enters it, and
\* what it chose it keeps.
HasClone(r) == pc[r] \in CloneWork \/ (pc[r] = "connect" /\ command[r] = "run")
Enters(q) ==
  /\ pc[q] = "cloneVm"
  /\ vm'[stamp[q]].owner = q /\ vm'[stamp[q]].power = "off"
Chooses(q) ==
  /\ command'[q] = command[q]
  /\ \/ port'[q] = port[q] /\ stamp'[q] = stamp[q]
     \/ port[q] = NoPort /\ stamp[q] = 0 /\ session[q] = NoName
          /\ session'[q] = NoName
  /\ \/ session'[q] = session[q]
     \/ /\ pc[q] = "connect" /\ session'[q] = bound[port[q]]
        /\ bound[port[q]] # NoName
        /\ port'[q] = port[q] /\ stamp'[q] = stamp[q]
StaysIn(q) ==
  HasClone(q)' => stamp'[q] = stamp[q] /\ (HasClone(q) \/ Enters(q))
Advances(q) == Chooses(q) /\ StaysIn(q)

LEMMA RunStep ==
  ASSUME Knows, MachinesOK, [Next]_vars, NEW q \in Runs PROVE Advances(q)
<1>1. Has(q, pc[q]) /\ command[q] \in {"run", "finalize"}
  BY DEF Knows, Place, Choices
<1>2. ASSUME pc'[q] = pc[q], command'[q] = command[q], stamp'[q] = stamp[q],
             port'[q] = port[q], session'[q] = session[q]
      PROVE  Advances(q)
  BY <1>2 DEF Advances, Chooses, StaysIn, HasClone
<1>3. ASSUME KeepsChoices, NEW b, pc' = [pc EXCEPT ![q] = b],
             b \in CloneWork \/ (b = "connect" /\ command[q] = "run")
               => HasClone(q)
      PROVE  Advances(q)
  BY <1>3
  DEF Advances, Chooses, StaysIn, HasClone, KeepsChoices, Knows, Control
<1>4. ASSUME KeepsChoices, Raise(q) PROVE Advances(q)
  <2>1. PICK b \in {"removeForward", "removeClone", "failed"} :
          /\ pc' = [pc EXCEPT ![q] = b]
          /\ b = "removeClone" =>
               command[q] # "finalize" /\ pc[q] \in {"connect", "script"}
    BY <1>4 DEF Raise, Goto
  <2>2. b \in CloneWork \/ (b = "connect" /\ command[q] = "run") => HasClone(q)
    BY <1>1, <2>1 DEF CloneWork, HasClone
  <2>. QED
    BY <1>3, <1>4, <2>1, <2>2
<1>5. ASSUME NEW r \in Runs, ListVms(r) PROVE Advances(q)
  <2>1. CASE q # r
    BY <1>2, <1>5, <2>1
    DEF ListVms, Saw, QueryFails, OtherwiseUnchanged, Continue, Raise, Goto,
        Knows, Control, Choices
  <2>2. CASE q = r /\ UNCHANGED pc
    BY <1>2, <1>5, <2>2 DEF ListVms
  <2>3. CASE q = r /\ Raise(r)
    BY <1>4, <1>5, <2>3 DEF ListVms, KeepsChoices
  <2>. QED
    BY <1>5, <2>1, <2>2, <2>3 DEF ListVms, Saw, QueryFails
<1>6. ASSUME NEW r \in Runs, ShowInfo(r) PROVE Advances(q)
  <2>1. CASE q # r
    BY <1>2, <1>6, <2>1
    DEF ShowInfo, Saw, QueryFails, OtherwiseUnchanged, Continue, Raise, Goto,
        Knows, Control, Choices
  <2>2. CASE q = r /\ UNCHANGED pc
    BY <1>2, <1>6, <2>2 DEF ShowInfo
  <2>3. CASE q = r /\ Raise(r)
    BY <1>4, <1>6, <2>3 DEF ShowInfo, KeepsChoices
  <2>. QED
    BY <1>6, <2>1, <2>2, <2>3 DEF ShowInfo, Saw, QueryFails
<1>7. ASSUME NEW r \in Runs, ChooseByState(r) PROVE Advances(q)
  <2>1. CASE q # r
    BY <1>2, <1>7, <2>1
    DEF ChooseByState, OtherwiseUnchanged, Continue, Raise, Goto, Knows,
        Control, Choices
  <2>2. CASE q = r /\ ~Raise(r)
    BY <1>1, <1>3, <1>7, <2>2
    DEF ChooseByState, HasClone, CloneWork, Continue, Goto, OtherwiseUnchanged,
        KeepsChoices, Has, PlaceAt
  <2>3. CASE q = r /\ Raise(r)
    BY <1>4, <1>7, <2>3 DEF ChooseByState, OtherwiseUnchanged, KeepsChoices
  <2>. QED
    BY <2>1, <2>2, <2>3
<1>8. ASSUME NEW r \in Runs, NameClone(r) PROVE Advances(q)
  <2>1. CASE q # r
    BY <1>2, <1>8, <2>1
    DEF NameClone, OtherwiseUnchanged, Continue, Raise, Goto, Knows, Control,
        Choices
  <2>2. CASE q = r
    BY <1>1, <1>4, <1>8, <2>2
    DEF NameClone, Advances, Chooses, StaysIn, HasClone, CloneWork, Continue,
        Goto, Has, PlaceAt, Knows, Control, Choices, KeepsChoices
  <2>. QED
    BY <2>1, <2>2
<1>9. ASSUME NEW r \in Runs, Connect(r) PROVE Advances(q)
  <2>1. CASE q # r
    BY <1>2, <1>9, <2>1
    DEF Connect, OtherwiseUnchanged, Continue, Raise, Goto, Knows, Control,
        Choices
  <2>2. CASE q = r
    BY <1>1, <1>4, <1>9, <2>2
    DEF Connect, Advances, Chooses, StaysIn, HasClone, CloneWork, Continue,
        Goto,
        Has, PlaceAt, Knows, Control, Choices, KeepsChoices
  <2>. QED
    BY <2>1, <2>2
<1>10. ASSUME NEW r \in Runs, RunScript(r) PROVE Advances(q)
  <2>1. CASE q # r
    BY <1>2, <1>10, <2>1
    DEF RunScript, Finish, OtherwiseUnchanged, Continue, Raise, Goto, Knows,
        Control, Choices
  <2>2. CASE q = r /\ ~Raise(r)
    BY <1>1, <1>3, <1>10, <2>2
    DEF RunScript, Finish, HasClone, CloneWork, Continue, Goto,
        OtherwiseUnchanged, KeepsChoices, Has, PlaceAt
  <2>3. CASE q = r /\ Raise(r)
    BY <1>4, <1>10, <2>3
    DEF RunScript, Finish, OtherwiseUnchanged, KeepsChoices
  <2>. QED
    BY <2>1, <2>2, <2>3
<1>11. ASSUME NEW r \in Runs, ChooseRemoval(r) PROVE Advances(q)
  <2>1. CASE q # r
    BY <1>2, <1>11, <2>1
    DEF ChooseRemoval, Finish, OtherwiseUnchanged, Continue, Raise, Goto,
        Knows, Control, Choices
  <2>2. CASE q = r /\ ~Raise(r)
    BY <1>1, <1>3, <1>11, <2>2
    DEF ChooseRemoval, Finish, HasClone, CloneWork, Continue, Goto,
        OtherwiseUnchanged, KeepsChoices, Has, PlaceAt
  <2>3. CASE q = r /\ Raise(r)
    BY <1>4, <1>11, <2>3
    DEF ChooseRemoval, Finish, OtherwiseUnchanged, KeepsChoices
  <2>. QED
    BY <2>1, <2>2, <2>3
<1>12. ASSUME NEW r \in Runs, ChooseFinalization(r) PROVE Advances(q)
  <2>1. CASE q # r
    BY <1>2, <1>12, <2>1
    DEF ChooseFinalization, OtherwiseUnchanged, Continue, Raise, Goto, Knows,
        Control, Choices
  <2>2. CASE q = r
    BY <1>1, <1>4, <1>12, <2>2
    DEF ChooseFinalization, Advances, Chooses, StaysIn, HasClone, CloneWork,
        Continue, Goto, Has, PlaceAt, Knows, Control, Choices, KeepsChoices
  <2>. QED
    BY <2>1, <2>2
<1>13. ASSUME NEW r \in Runs, LookAgain(r) PROVE Advances(q)
  <2>1. CASE q # r
    BY <1>2, <1>13, <2>1
    DEF LookAgain, OtherwiseUnchanged, Continue, Raise, Goto, Knows, Control,
        Choices
  <2>2. CASE q = r /\ ~Raise(r)
    BY <1>1, <1>3, <1>13, <2>2
    DEF LookAgain, HasClone, CloneWork, Continue, Goto, OtherwiseUnchanged,
        KeepsChoices, Has, PlaceAt
  <2>3. CASE q = r /\ Raise(r)
    BY <1>4, <1>13, <2>3 DEF LookAgain, OtherwiseUnchanged, KeepsChoices
  <2>. QED
    BY <2>1, <2>2, <2>3
<1>14. ASSUME NEW r \in Runs, TimeOut(r) PROVE Advances(q)
  <2>1. CASE q # r
    BY <1>2, <1>14, <2>1
    DEF TimeOut, OtherwiseUnchanged, Continue, Raise, Goto, Knows, Control,
        Choices
  <2>2. CASE q = r /\ ~Raise(r)
    BY <1>1, <1>3, <1>14, <2>2
    DEF TimeOut, HasClone, CloneWork, Continue, Goto, OtherwiseUnchanged,
        KeepsChoices, Has, PlaceAt
  <2>3. CASE q = r /\ Raise(r)
    BY <1>4, <1>14, <2>3 DEF TimeOut, OtherwiseUnchanged, KeepsChoices
  <2>. QED
    BY <2>1, <2>2, <2>3
<1>15. ASSUME NEW r \in Runs, Kill(r) PROVE Advances(q)
  <2>1. CASE q # r
    BY <1>2, <1>15, <2>1
    DEF Kill, OtherwiseUnchanged, Continue, Raise, Goto, Knows, Control,
        Choices
  <2>2. CASE q = r /\ ~Raise(r)
    BY <1>1, <1>3, <1>15, <2>2
    DEF Kill, HasClone, CloneWork, Continue, Goto, OtherwiseUnchanged,
        KeepsChoices, Has, PlaceAt
  <2>3. CASE q = r /\ Raise(r)
    BY <1>4, <1>15, <2>3 DEF Kill, OtherwiseUnchanged, KeepsChoices
  <2>. QED
    BY <2>1, <2>2, <2>3
<1>16. ASSUME NEW r \in Runs, CreateVm(r) PROVE Advances(q)
  <2>1. CASE q # r
    BY <1>2, <1>16, <2>1
    DEF CreateVm, VBoxManage, OtherwiseUnchanged, Continue, Raise, Goto, Knows,
        Control, Choices
  <2>2. CASE q = r /\ ~Raise(r)
    BY <1>1, <1>3, <1>16, <2>2
    DEF CreateVm, VBoxManage, HasClone, CloneWork, Continue, Goto,
        OtherwiseUnchanged, KeepsChoices, Has, PlaceAt
  <2>3. CASE q = r /\ Raise(r)
    BY <1>4, <1>16, <2>3
    DEF CreateVm, VBoxManage, OtherwiseUnchanged, KeepsChoices
  <2>. QED
    BY <2>1, <2>2, <2>3
<1>17. ASSUME NEW r \in Runs, PrepareBase(r) PROVE Advances(q)
  <2>1. CASE q # r
    BY <1>2, <1>17, <2>1
    DEF PrepareBase, VBoxManage, OtherwiseUnchanged, Continue, Raise, Goto,
        Knows, Control, Choices
  <2>2. CASE q = r /\ ~Raise(r)
    BY <1>1, <1>3, <1>17, <2>2, PreparingSteps
    DEF PrepareBase, HasClone, CloneWork, Continue, Goto, Preparing,
        OtherwiseUnchanged, KeepsChoices, Has, PlaceAt
  <2>3. CASE q = r /\ Raise(r)
    BY <1>4, <1>17, <2>3
    DEF PrepareBase, VBoxManage, OtherwiseUnchanged, KeepsChoices
  <2>. QED
    BY <2>1, <2>2, <2>3
<1>18. ASSUME NEW r \in Runs, InstallBase(r) PROVE Advances(q)
  <2>1. CASE q # r
    BY <1>2, <1>18, <2>1
    DEF InstallBase, VBoxManage, OtherwiseUnchanged, Continue, Raise, Goto,
        Knows, Control, Choices
  <2>2. CASE q = r /\ ~Raise(r)
    BY <1>1, <1>3, <1>18, <2>2
    DEF InstallBase, VBoxManage, HasClone, CloneWork, Continue, Goto,
        OtherwiseUnchanged, KeepsChoices, Has, PlaceAt
  <2>3. CASE q = r /\ Raise(r)
    BY <1>4, <1>18, <2>3
    DEF InstallBase, VBoxManage, OtherwiseUnchanged, KeepsChoices
  <2>. QED
    BY <2>1, <2>2, <2>3
<1>19. ASSUME NEW r \in Runs, CloneVm(r) PROVE Advances(q)
  <2>1. CASE q # r
    BY <1>2, <1>19, <2>1
    DEF CloneVm, VBoxManage, OtherwiseUnchanged, Continue, Raise, Goto, Knows,
        Control, Choices
  <2>2. CASE q = r /\ Raise(r)
    BY <1>4, <1>19, <2>2 DEF CloneVm, OtherwiseUnchanged, KeepsChoices
  <2>3. CASE /\ q = r
             /\ vm' = [vm EXCEPT ![stamp[r]] =
                         [vm[Base] EXCEPT !.owner = r, !.power = "off"]]
    <3>1. vm'[stamp[q]].owner = q /\ vm'[stamp[q]].power = "off"
      BY <2>3, CloneType DEF Knows, Choices
    <3>. QED
      BY <1>19, <2>3, <3>1
      DEF CloneVm, OtherwiseUnchanged, Advances, Chooses, StaysIn, Enters
  <2>. QED
    BY <1>19, <2>1, <2>2, <2>3 DEF CloneVm, VBoxManage
<1>20. ASSUME NEW r \in Runs, ForwardClone(r) PROVE Advances(q)
  <2>1. CASE q # r
    BY <1>2, <1>20, <2>1
    DEF ForwardClone, VBoxManage, OtherwiseUnchanged, Continue, Raise, Goto,
        Knows, Control, Choices
  <2>2. CASE q = r /\ ~Raise(r)
    BY <1>1, <1>3, <1>20, <2>2
    DEF ForwardClone, VBoxManage, HasClone, CloneWork, Continue, Goto,
        OtherwiseUnchanged, KeepsChoices, Has, PlaceAt
  <2>3. CASE q = r /\ Raise(r)
    BY <1>4, <1>20, <2>3
    DEF ForwardClone, VBoxManage, OtherwiseUnchanged, KeepsChoices
  <2>. QED
    BY <2>1, <2>2, <2>3
<1>21. ASSUME NEW r \in Runs, StartClone(r) PROVE Advances(q)
  <2>1. CASE q # r
    BY <1>2, <1>21, <2>1
    DEF StartClone, VBoxManage, OtherwiseUnchanged, Continue, Raise, Goto,
        Knows, Control, Choices
  <2>2. CASE q = r /\ ~Raise(r)
    BY <1>1, <1>3, <1>21, <2>2
    DEF StartClone, VBoxManage, HasClone, CloneWork, Continue, Goto,
        OtherwiseUnchanged, KeepsChoices, Has, PlaceAt
  <2>3. CASE q = r /\ Raise(r)
    BY <1>4, <1>21, <2>3
    DEF StartClone, VBoxManage, OtherwiseUnchanged, KeepsChoices
  <2>. QED
    BY <2>1, <2>2, <2>3
<1>22. ASSUME NEW r \in Runs, PowerOff(r) PROVE Advances(q)
  <2>1. CASE q # r
    BY <1>2, <1>22, <2>1
    DEF PowerOff, VBoxManage, OtherwiseUnchanged, Continue, Raise, Goto, Knows,
        Control, Choices
  <2>2. CASE q = r /\ ~Raise(r)
    BY <1>1, <1>3, <1>22, <2>2
    DEF PowerOff, VBoxManage, HasClone, CloneWork, Continue, Goto,
        OtherwiseUnchanged, KeepsChoices, Has, PlaceAt
  <2>3. CASE q = r /\ Raise(r)
    BY <1>4, <1>22, <2>3
    DEF PowerOff, VBoxManage, OtherwiseUnchanged, KeepsChoices
  <2>. QED
    BY <2>1, <2>2, <2>3
<1>23. ASSUME NEW r \in Runs, Unregister(r) PROVE Advances(q)
  <2>1. CASE q # r
    BY <1>2, <1>23, <2>1
    DEF Unregister, VBoxManage, OtherwiseUnchanged, Continue, Raise, Goto,
        Knows, Control, Choices
  <2>2. CASE q = r /\ ~Raise(r)
    BY <1>1, <1>3, <1>23, <2>2
    DEF Unregister, VBoxManage, HasClone, CloneWork, Continue, Goto,
        OtherwiseUnchanged, KeepsChoices, Has, PlaceAt
  <2>3. CASE q = r /\ Raise(r)
    BY <1>4, <1>23, <2>3
    DEF Unregister, VBoxManage, OtherwiseUnchanged, KeepsChoices
  <2>. QED
    BY <2>1, <2>2, <2>3
<1>24. ASSUME NEW r \in Runs, DeleteForward(r) PROVE Advances(q)
  <2>1. CASE q # r
    BY <1>2, <1>24, <2>1
    DEF DeleteForward, AfterDelete, Finish, OtherwiseUnchanged, Continue,
        Raise, Goto, Knows, Control, Choices
  <2>2. CASE q = r /\ ~Raise(r)
    BY <1>1, <1>3, <1>24, <2>2
    DEF DeleteForward, AfterDelete, Finish, HasClone, CloneWork, Continue,
        Goto, OtherwiseUnchanged, KeepsChoices, Has, PlaceAt
  <2>3. CASE q = r /\ Raise(r)
    BY <1>4, <1>24, <2>3
    DEF DeleteForward, AfterDelete, Finish, OtherwiseUnchanged, KeepsChoices
  <2>. QED
    BY <2>1, <2>2, <2>3
<1>25. ASSUME NEW r \in Runs, AddForwardStopped(r) PROVE Advances(q)
  <2>1. CASE q # r
    BY <1>2, <1>25, <2>1
    DEF AddForwardStopped, VBoxManage, OtherwiseUnchanged, Continue, Raise,
        Goto, Knows, Control, Choices
  <2>2. CASE q = r /\ ~Raise(r)
    BY <1>1, <1>3, <1>25, <2>2
    DEF AddForwardStopped, VBoxManage, HasClone, CloneWork, Continue, Goto,
        OtherwiseUnchanged, KeepsChoices, Has, PlaceAt
  <2>3. CASE q = r /\ Raise(r)
    BY <1>4, <1>25, <2>3
    DEF AddForwardStopped, VBoxManage, OtherwiseUnchanged, KeepsChoices
  <2>. QED
    BY <2>1, <2>2, <2>3
<1>26. ASSUME NEW r \in Runs, AddForwardRunning(r) PROVE Advances(q)
  <2>1. CASE q # r
    BY <1>2, <1>26, <2>1
    DEF AddForwardRunning, VBoxManage, OtherwiseUnchanged, Continue, Raise,
        Goto, Knows, Control, Choices
  <2>2. CASE q = r /\ ~Raise(r)
    BY <1>1, <1>3, <1>26, <2>2
    DEF AddForwardRunning, VBoxManage, HasClone, CloneWork, Continue, Goto,
        OtherwiseUnchanged, KeepsChoices, Has, PlaceAt
  <2>3. CASE q = r /\ Raise(r)
    BY <1>4, <1>26, <2>3
    DEF AddForwardRunning, VBoxManage, OtherwiseUnchanged, KeepsChoices
  <2>. QED
    BY <2>1, <2>2, <2>3
<1>27. ASSUME NEW r \in Runs, StartBase(r) PROVE Advances(q)
  <2>1. CASE q # r
    BY <1>2, <1>27, <2>1
    DEF StartBase, VBoxManage, OtherwiseUnchanged, Continue, Raise, Goto,
        Knows, Control, Choices
  <2>2. CASE q = r /\ ~Raise(r)
    BY <1>1, <1>3, <1>27, <2>2
    DEF StartBase, VBoxManage, HasClone, CloneWork, Continue, Goto,
        OtherwiseUnchanged, KeepsChoices, Has, PlaceAt
  <2>3. CASE q = r /\ Raise(r)
    BY <1>4, <1>27, <2>3
    DEF StartBase, VBoxManage, OtherwiseUnchanged, KeepsChoices
  <2>. QED
    BY <2>1, <2>2, <2>3
<1>28. ASSUME NEW r \in Runs, InstallPackages(r) PROVE Advances(q)
  <2>1. CASE q # r
    BY <1>2, <1>28, <2>1
    DEF InstallPackages, OtherwiseUnchanged, Continue, Raise, Goto, Knows,
        Control, Choices
  <2>2. CASE q = r /\ ~Raise(r)
    BY <1>1, <1>3, <1>28, <2>2
    DEF InstallPackages, HasClone, CloneWork, Continue, Goto,
        OtherwiseUnchanged, KeepsChoices, Has, PlaceAt
  <2>3. CASE q = r /\ Raise(r)
    BY <1>4, <1>28, <2>3 DEF InstallPackages, OtherwiseUnchanged, KeepsChoices
  <2>. QED
    BY <2>1, <2>2, <2>3
<1>29. ASSUME NEW r \in Runs, ShutDownGuest(r) PROVE Advances(q)
  <2>1. CASE q # r
    BY <1>2, <1>29, <2>1
    DEF ShutDownGuest, OtherwiseUnchanged, Continue, Raise, Goto, Knows,
        Control, Choices
  <2>2. CASE q = r /\ ~Raise(r)
    BY <1>1, <1>3, <1>29, <2>2
    DEF ShutDownGuest, HasClone, CloneWork, Continue, Goto, OtherwiseUnchanged,
        KeepsChoices, Has, PlaceAt
  <2>3. CASE q = r /\ Raise(r)
    BY <1>4, <1>29, <2>3 DEF ShutDownGuest, OtherwiseUnchanged, KeepsChoices
  <2>. QED
    BY <2>1, <2>2, <2>3
<1>30. ASSUME UNCHANGED process PROVE Advances(q)
  BY <1>2, <1>30 DEF process
<1>. QED
  BY <1>5, <1>6, <1>7, <1>8, <1>9, <1>10, <1>11, <1>12, <1>13, <1>14, <1>15,
     <1>16, <1>17, <1>18, <1>19, <1>20, <1>21, <1>22, <1>23, <1>24, <1>25,
     <1>26, <1>27, <1>28, <1>29, <1>30
  DEF Next, Step, Query, GuestHalts, Abort, InstallationEnds, UserStopsBase,
      vars
-----------------------------------------------------------------------------
\* The clone a run works in is its own.
Mine == \A r \in Runs : HasClone(r) => vm[stamp[r]].owner = r

LEMMA MineStep ==
  ASSUME Knows, MachinesOK, Mine, [Next]_vars
  PROVE  Mine'
<1>1. SUFFICES ASSUME NEW q \in Runs, HasClone(q)'
               PROVE  vm'[stamp'[q]].owner = q
  BY DEF Mine
<1>2. stamp'[q] = stamp[q] /\ (HasClone(q) \/ Enters(q))
  BY <1>1, RunStep DEF Advances, StaysIn
<1>3. CASE Enters(q)
  BY <1>2, <1>3 DEF Enters
<1>4. CASE HasClone(q)
  <2>1. vm[stamp[q]].owner = q /\ stamp[q] \in Names
    BY <1>4 DEF Mine, Knows, Choices
  <2>2. Touched(stamp[q])
    BY <2>1, TouchStep
  <2>3. ASSUME NEW r \in Runs, Removed(stamp[q], r) PROVE FALSE
    <3>1. HasClone(r)
      BY <2>3 DEF Removed, HasClone, CloneWork
    <3>2. r = q
      BY <2>1, <2>3, <3>1 DEF Mine, Removed
    <3>. QED
      BY <1>1, <2>3, <3>2 DEF Removed, HasClone, CloneWork, Ended
  <2>4. ASSUME NEW r \in Runs, Made(stamp[q], r) PROVE FALSE
    BY <2>1, <2>4, NoRunAssumption DEF Made, NoVM
  <2>. QED
    BY <1>2, <2>1, <2>2, <2>3, <2>4 DEF Touched, Kept, Forwarded, Opened
<1>. QED
  BY <1>2, <1>3, <1>4

\* The temporary forward is at the port of a finalization, the forward of a
\* clone at the port of the run that is named by it.
RuleOK ==
  /\ vm[Base].ownRule = NoPort
  /\ \A n \in Names : vm[n].baseRule # NoPort =>
       \E q \in Finalizers : port[q] = vm[n].baseRule
  /\ \A n \in Names : vm[n].ownRule # NoPort =>
       /\ vm[n].owner \in Runs
       /\ stamp[vm[n].owner] = n /\ port[vm[n].owner] = vm[n].ownRule

LEMMA RuleStep ==
  ASSUME Knows, MachinesOK, Mine, RuleOK, [Next]_vars
  PROVE  RuleOK'
<1>1. ASSUME NEW q \in Runs, port[q] # NoPort
      PROVE  port'[q] = port[q] /\ stamp'[q] = stamp[q]
  BY <1>1, RunStep DEF Advances, Chooses
<1>2. Finalizers' = Finalizers
  BY RunStep DEF Advances, Chooses, Finalizers
<1>3. Base \in Names /\ Base \notin Seconds
  BY BoundsAssumption DEF Names, Seconds, Base
<1>4. ASSUME NEW r \in Runs PROVE Has(r, pc[r])
  BY DEF Knows, Place
<1>5. ASSUME NEW n \in Names PROVE Touched(n)
  BY TouchStep
<1>6. vm'[Base].ownRule = NoPort
  <2>1. ASSUME NEW r \in Runs, pc[r] \in {"cloneVm", "forwardClone"}
        PROVE  stamp[r] # Base
    BY <1>3, <1>4, <2>1 DEF Has, PlaceAt, CloneWork
  <2>. QED
    BY <1>3, <1>5, <2>1
    DEF RuleOK, Touched, Kept, Made, Removed, Forwarded, Opened, NoVM
<1>7. ASSUME NEW n \in Names, vm'[n].baseRule # NoPort
      PROVE  \E q \in Finalizers : port'[q] = vm'[n].baseRule
  <2>1. ASSUME NEW m \in Names, vm[m].baseRule = vm'[n].baseRule
        PROVE  \E q \in Finalizers : port'[q] = vm'[n].baseRule
    <3>1. PICK q \in Finalizers : port[q] = vm[m].baseRule
      BY <1>7, <2>1 DEF RuleOK
    <3>2. port'[q] = port[q]
      BY <1>1, <1>7, <2>1, <3>1 DEF Finalizers
    <3>. QED
      BY <2>1, <3>1, <3>2
  <2>2. ASSUME NEW r \in Runs, Opened(n, r)
        PROVE  \E q \in Finalizers : port'[q] = vm'[n].baseRule
    <3>1. r \in Finalizers
      BY <1>4, <2>2 DEF Opened, Has, PlaceAt, Finalizers
    <3>. QED
      BY <1>1, <1>7, <2>2, <3>1 DEF Opened
  <2>. QED
    BY <1>3, <1>5, <1>7, <2>1, <2>2
    DEF Touched, Kept, Made, Removed, Forwarded, NoVM
<1>8. ASSUME NEW n \in Names, vm'[n].ownRule # NoPort
      PROVE  /\ vm'[n].owner \in Runs
             /\ stamp'[vm'[n].owner] = n
             /\ port'[vm'[n].owner] = vm'[n].ownRule
  <2>1. CASE vm'[n].owner = vm[n].owner /\ vm'[n].ownRule = vm[n].ownRule
    <3>1. /\ vm[n].owner \in Runs /\ stamp[vm[n].owner] = n
          /\ port[vm[n].owner] = vm[n].ownRule
      BY <1>8, <2>1 DEF RuleOK
    <3>. QED
      BY <1>1, <1>8, <2>1, <3>1
  <2>2. ASSUME NEW r \in Runs, Forwarded(n, r)
        PROVE  /\ vm'[n].owner = r
               /\ stamp'[r] = n /\ port'[r] = vm'[n].ownRule
    <3>1. vm[n].owner = r
      BY <2>2 DEF Forwarded, Mine, HasClone, CloneWork
    <3>. QED
      BY <1>1, <1>8, <2>2, <3>1 DEF Forwarded
  <2>. QED
    BY <1>5, <1>8, <2>1, <2>2
    DEF RuleOK, Touched, Kept, Made, Removed, Opened, NoVM
<1>. QED
  BY <1>2, <1>6, <1>7, <1>8 DEF RuleOK

LEMMA SessionStep ==
  ASSUME Knows, MachinesOK, Listening, RuleOK, SessionIsOwn, [Next]_vars
  PROVE  SessionIsOwn'
<1>1. ASSUME NEW q \in Runs PROVE Chooses(q)
  BY RunStep DEF Advances
<1>2. SUFFICES ASSUME DistinctPorts', NEW r \in Runs, command[r] # "finalize"
               PROVE  session'[r] \in {NoName, stamp'[r]}
  BY <1>1 DEF SessionIsOwn, Finalizers, Chooses
<1>3. DistinctPorts
  <2>1. SUFFICES ASSUME NEW q \in Runs, NEW p \in Runs, q # p,
                        port[q] # NoPort, port[q] = port[p]
                 PROVE  FALSE
    BY DEF DistinctPorts
  <2>. QED
    BY <1>1, <1>2, <2>1 DEF DistinctPorts, Chooses
<1>4. session[r] \in {NoName, stamp[r]}
  BY <1>2, <1>3 DEF SessionIsOwn, Finalizers
<1>5. CASE session'[r] = session[r]
  BY <1>1, <1>4, <1>5 DEF Chooses
<1>6. CASE /\ pc[r] = "connect" /\ session'[r] = bound[port[r]]
           /\ bound[port[r]] # NoName /\ stamp'[r] = stamp[r]
  <2>1. port[r] \in Ports /\ port[r] # NoPort
    BY <1>6, PortsAssumption DEF Knows, Place, Has, PlaceAt, NoPort
  <2>2. PICK n \in Names : n = bound[port[r]]
    BY <1>6, <2>1 DEF MachinesOK
  <2>3. port[r] \in Rules(n)
    BY <2>1, <2>2 DEF Listening
  <2>4. CASE port[r] = vm[n].baseRule
    <3>1. PICK q \in Finalizers : port[q] = port[r]
      BY <2>1, <2>4 DEF RuleOK
    <3>. QED
      BY <1>2, <1>3, <2>1, <3>1 DEF DistinctPorts, Finalizers
  <2>5. CASE port[r] = vm[n].ownRule
    <3>1. vm[n].owner = r /\ stamp[vm[n].owner] = n
      BY <1>3, <2>1, <2>5 DEF RuleOK, DistinctPorts
    <3>. QED
      BY <1>6, <2>2, <3>1
  <2>. QED
    BY <2>3, <2>4, <2>5 DEF Rules
<1>. QED
  BY <1>1, <1>5, <1>6 DEF Chooses
-----------------------------------------------------------------------------
\* Flags stay as they were given, and results are saved under a second.
RestKept ==
  /\ command' = command /\ keep' = keep
  /\ saved' = saved \/ \E r \in Runs : saved' = [saved EXCEPT ![stamp[r]] = r]
  /\ Succeeds \/ Fails \/ UNCHANGED faults

LEMMA RestKeeps == ASSUME [Next]_vars PROVE RestKept
<1>1. ASSUME NEW r \in Runs, Quiet(r) PROVE RestKept
  BY <1>1
  DEF RestKept, Quiet, Query, ListVms, ShowInfo, Saw, QueryFails,
      ChooseByState, NameClone, Connect, RunScript, ChooseRemoval,
      ChooseFinalization, LookAgain, TimeOut, Kill
<1>2. ASSUME NEW r \in Runs, Shapes(r) PROVE RestKept
  BY <1>2
  DEF RestKept, Shapes, OtherwiseUnchanged, VBoxManage, CreateVm,
      PrepareBase, InstallBase, StartClone, PowerOff, StartBase,
      InstallPackages, ShutDownGuest
<1>3. ASSUME NEW r \in Runs,
             \/ CloneVm(r) \/ ForwardClone(r) \/ Unregister(r)
             \/ DeleteForward(r)
             \/ AddForwardStopped(r) \/ AddForwardRunning(r)
      PROVE  RestKept
  BY <1>3
  DEF RestKept, OtherwiseUnchanged, VBoxManage, CloneVm, ForwardClone,
      Unregister, DeleteForward, AddForwardStopped, AddForwardRunning
<1>4. ASSUME World PROVE RestKept
  <2>1. ASSUME NEW n \in Names, GuestHalts(n) \/ Abort(n) PROVE RestKept
    BY <2>1 DEF RestKept, GuestHalts, Abort, process, Succeeds, Fails
  <2>2. ASSUME InstallationEnds \/ UserStopsBase PROVE RestKept
    BY <2>2
    DEF RestKept, InstallationEnds, UserStopsBase, process, Succeeds, Fails
  <2>. QED
    BY <1>4, <2>1, <2>2 DEF World
<1>5. ASSUME UNCHANGED vars PROVE RestKept
  BY <1>5 DEF RestKept, vars, process, Succeeds, Fails
<1>. QED
  BY <1>1, <1>2, <1>3, <1>4, <1>5
  DEF Next, Step, Quiet, Shapes, World

LEMMA RestStep == ASSUME Rest, [Next]_vars PROVE Rest'
<1>1. RestKept
  BY RestKeeps
<1>2. faults' \in 0..MaxFaults
  BY <1>1, BoundsAssumption DEF Rest, RestKept, Succeeds, Fails
<1>. QED
  BY <1>1, <1>2 DEF Rest, RestKept
-----------------------------------------------------------------------------
\* Where a run can stand that removes its clone, and that holds it with its
\* forward.
Removing == {"removeClone", "powerOff", "waitClone", "unregister"}
Holds(r) == pc[r] \in {"startClone", "script"}
              \/ (pc[r] = "connect" /\ command[r] = "run")

\* What one step of a run does to its flags and results: it goes from its work
\* to the removal with an exception or with saved results, or ends with them.
Works(q) ==
  /\ keep'[q] = keep[q]
  /\ pc'[q] \in Removing =>
       \/ pc[q] \in Removing /\ raised'[q] = raised[q]
       \/ ~keep[q] /\ Holds(q) /\ (raised'[q] # "" \/ saved'[stamp[q]] = q)
  /\ Holds(q)' =>
       Holds(q) \/ (pc[q] = "forwardClone" /\ vm'[stamp[q]].ownRule = port[q])
  /\ pc'[q] = "done" => stamp'[q] = stamp[q] /\ port'[q] = port[q]
  /\ pc'[q] = "done" /\ stamp[q] # 0 =>
       \/ pc[q] = "done"
       \/ pc[q] \in Removing /\ raised[q] = ""
       \/ keep[q] /\ Holds(q) /\ saved'[stamp[q]] = q
Saves(s) ==
  saved'[s] = saved[s] \/ \E r \in Runs : pc[r] = "script" /\ stamp[r] = s

LEMMA WorkStep ==
  ASSUME Knows, MachinesOK, Rest, [Next]_vars, NEW q \in Runs PROVE Works(q)
<1>1. Has(q, pc[q]) /\ command[q] \in {"run", "finalize"}
  BY DEF Knows, Place, Choices
<1>2. ASSUME pc'[q] = pc[q], command'[q] = command[q], stamp'[q] = stamp[q],
             port'[q] = port[q], keep'[q] = keep[q], raised'[q] = raised[q]
      PROVE  Works(q)
  BY <1>2 DEF Works, Holds
<1>3. ASSUME NEW b \in Points, pc' = [pc EXCEPT ![q] = b], KeepsChoices,
             UNCHANGED <<raised, keep>>,
             b \in Removing => pc[q] \in Removing,
             b = "connect" => pc[q] = "startClone" \/ command[q] = "finalize",
             b \notin {"startClone", "script"},
             b = "done" =>
               stamp[q] = 0 \/ (pc[q] \in Removing /\ raised[q] = "")
      PROVE  Works(q)
  <2>1. pc'[q] = b /\ raised'[q] = raised[q] /\ keep'[q] = keep[q]
    BY <1>3 DEF Knows, Control, Rest
  <2>2. /\ command'[q] = command[q] /\ stamp'[q] = stamp[q]
        /\ port'[q] = port[q]
    BY <1>3 DEF KeepsChoices
  <2>. QED
    BY <1>1, <1>3, <2>1, <2>2 DEF Works, Holds
<1>4. ASSUME KeepsChoices, keep' = keep, Raise(q) PROVE Works(q)
  <2>1. PICK b \in {"removeForward", "removeClone", "failed"} :
          /\ pc' = [pc EXCEPT ![q] = b]
          /\ b = "removeClone" =>
               /\ command[q] # "finalize" /\ ~keep[q]
               /\ pc[q] \in {"connect", "script"}
    BY <1>4 DEF Raise, Goto
  <2>2. raised'[q] = pc[q] /\ pc'[q] = b
    BY <1>4, <2>1 DEF Raise, Knows, Control
  <2>3. b = "removeClone" => Holds(q) /\ raised'[q] # ""
    BY <1>1, <2>1, <2>2 DEF Holds
  <2>. QED
    BY <1>4, <2>1, <2>2, <2>3 DEF Works, Removing, Holds, KeepsChoices
<1>5. ASSUME NEW r \in Runs, ListVms(r) PROVE Works(q)
  <2>1. CASE q # r
    BY <1>2, <1>5, <2>1
    DEF ListVms, Saw, QueryFails, Continue, Raise, Goto, Knows, Control,
        Choices
  <2>2. CASE q = r /\ UNCHANGED <<pc, raised>>
    BY <1>2, <1>5, <2>2 DEF ListVms
  <2>3. CASE q = r /\ Raise(r)
    BY <1>4, <1>5, <2>3 DEF ListVms, KeepsChoices
  <2>. QED
    BY <1>5, <2>1, <2>2, <2>3 DEF ListVms, Saw, QueryFails
<1>6. ASSUME NEW r \in Runs, ShowInfo(r) PROVE Works(q)
  <2>1. CASE q # r
    BY <1>2, <1>6, <2>1
    DEF ShowInfo, Saw, QueryFails, Continue, Raise, Goto, Knows, Control,
        Choices
  <2>2. CASE q = r /\ UNCHANGED <<pc, raised>>
    BY <1>2, <1>6, <2>2 DEF ShowInfo
  <2>3. CASE q = r /\ Raise(r)
    BY <1>4, <1>6, <2>3 DEF ShowInfo, KeepsChoices
  <2>. QED
    BY <1>6, <2>1, <2>2, <2>3 DEF ShowInfo, Saw, QueryFails
<1>7. ASSUME NEW r \in Runs, ChooseByState(r) PROVE Works(q)
  <2>1. CASE q # r
    BY <1>2, <1>7, <2>1
    DEF ChooseByState, Continue, Raise, Goto, Knows, Control, Choices
  <2>2. ASSUME NEW b \in {"refused", "createVm", "done", "clone"},
               q = r, Continue(r, b)
        PROVE  Works(q)
    BY <1>1, <1>3, <1>7, <2>2
    DEF ChooseByState, Removing, CloneWork, Continue, Goto, KeepsChoices,
        Has, PlaceAt, Points, QueryPoints, Ended
  <2>. QED
    BY <1>7, <2>1, <2>2 DEF ChooseByState
<1>8. ASSUME NEW r \in Runs, NameClone(r) PROVE Works(q)
  <2>1. CASE q # r
    BY <1>2, <1>8, <2>1
    DEF NameClone, Continue, Raise, Goto, Knows, Control, Choices
  <2>2. CASE q = r
    BY <1>1, <1>4, <1>8, <2>2
    DEF NameClone, Works, Holds, Removing, CloneWork, Continue, Goto, Has,
        PlaceAt, Knows, Control, Choices, Rest, KeepsChoices
  <2>. QED
    BY <2>1, <2>2
<1>9. ASSUME NEW r \in Runs, Connect(r) PROVE Works(q)
  <2>1. CASE q # r
    BY <1>2, <1>9, <2>1
    DEF Connect, Continue, Raise, Goto, Knows, Control, Choices
  <2>2. CASE q = r
    BY <1>1, <1>4, <1>9, <2>2
    DEF Connect, Works, Holds, Removing, CloneWork, Continue, Goto, Has,
        PlaceAt, Knows, Control, Choices, Rest, KeepsChoices
  <2>. QED
    BY <2>1, <2>2
<1>10. ASSUME NEW r \in Runs, RunScript(r) PROVE Works(q)
  <2>1. CASE q # r
    BY <1>2, <1>10, <2>1
    DEF RunScript, Finish, Continue, Raise, Goto, Knows, Control, Choices
  <2>2. CASE q = r /\ Raise(r)
    BY <1>4, <1>10, <2>2 DEF RunScript, KeepsChoices
  <2>3. CASE /\ q = r /\ saved' = [saved EXCEPT ![stamp[r]] = r]
             /\ IF keep[r] THEN Finish(r) ELSE Continue(r, "removeClone")
    <3>1. saved'[stamp[q]] = q
      <4>1. stamp[q] \in Seconds
        BY <1>1, <1>10, <2>3 DEF RunScript, Has, PlaceAt, CloneWork
      <4>. QED
        BY <2>3, <4>1 DEF Rest
    <3>2. /\ pc'[q] \in IF keep[q] THEN {"done", "failed"} ELSE {"removeClone"}
          /\ keep' = keep /\ Holds(q)
          /\ stamp'[q] = stamp[q] /\ port'[q] = port[q]
      BY <1>10, <2>3
      DEF RunScript, Finish, Continue, Goto, Holds, Knows, Control
    <3>. QED
      BY <3>1, <3>2 DEF Works, Holds, Removing
  <2>. QED
    BY <1>10, <2>1, <2>2, <2>3 DEF RunScript
<1>11. ASSUME NEW r \in Runs, ChooseRemoval(r) PROVE Works(q)
  <2>1. CASE q # r
    BY <1>2, <1>11, <2>1
    DEF ChooseRemoval, Finish, Continue, Raise, Goto, Knows, Control, Choices
  <2>2. ASSUME NEW b \in {"powerOff", "unregister", "done", "failed"},
               q = r, Continue(r, b),
               b = "done" => raised[q] = ""
        PROVE  Works(q)
    BY <1>1, <1>3, <1>11, <2>2
    DEF ChooseRemoval, Removing, CloneWork, Continue, Goto, KeepsChoices,
        Has, PlaceAt, Points, QueryPoints, Ended
  <2>. QED
    BY <1>11, <2>1, <2>2 DEF ChooseRemoval, Finish
<1>12. ASSUME NEW r \in Runs, ChooseFinalization(r) PROVE Works(q)
  <2>1. CASE q # r
    BY <1>2, <1>12, <2>1
    DEF ChooseFinalization, Continue, Raise, Goto, Knows, Control, Choices
  <2>2. CASE q = r
    BY <1>1, <1>4, <1>12, <2>2
    DEF ChooseFinalization, Works, Holds, Removing, CloneWork, Continue,
        Goto, Has, PlaceAt, Knows, Control, Choices, Rest, KeepsChoices
  <2>. QED
    BY <2>1, <2>2
<1>13. ASSUME NEW r \in Runs, LookAgain(r) PROVE Works(q)
  <2>1. CASE q # r
    BY <1>2, <1>13, <2>1
    DEF LookAgain, Continue, Raise, Goto, Knows, Control, Choices
  <2>2. ASSUME NEW b \in {"waitBase", "removeForward", "waitClone",
                       "unregister"},
               q = r, Continue(r, b),
               b \in {"waitClone", "unregister"} => pc[q] = "waitClone"
        PROVE  Works(q)
    BY <1>1, <1>3, <1>13, <2>2
    DEF LookAgain, Removing, CloneWork, Continue, Goto, KeepsChoices, Has,
        PlaceAt, Points, QueryPoints, Ended
  <2>. QED
    BY <1>13, <2>1, <2>2 DEF LookAgain
<1>14. ASSUME NEW r \in Runs, TimeOut(r) PROVE Works(q)
  <2>1. CASE q # r
    BY <1>2, <1>14, <2>1
    DEF TimeOut, Continue, Raise, Goto, Knows, Control, Choices
  <2>2. CASE q = r /\ ~Raise(r)
    BY <1>1, <1>3, <1>14, <2>2
    DEF TimeOut, Removing, CloneWork, Continue, Goto, KeepsChoices, Has,
        PlaceAt, Points, QueryPoints, Ended
  <2>3. CASE q = r /\ Raise(r)
    BY <1>4, <1>14, <2>3 DEF TimeOut, KeepsChoices
  <2>. QED
    BY <2>1, <2>2, <2>3
<1>15. ASSUME NEW r \in Runs, Kill(r) PROVE Works(q)
  <2>1. CASE q # r
    BY <1>2, <1>15, <2>1
    DEF Kill, Continue, Raise, Goto, Knows, Control, Choices
  <2>2. CASE q = r /\ ~Raise(r)
    BY <1>1, <1>3, <1>15, <2>2
    DEF Kill, Removing, CloneWork, Continue, Goto, KeepsChoices, Has,
        PlaceAt, Points, QueryPoints, Ended, Preparing
  <2>3. CASE q = r /\ Raise(r)
    BY <1>4, <1>15, <2>3 DEF Kill, KeepsChoices
  <2>. QED
    BY <2>1, <2>2, <2>3
<1>16. ASSUME NEW r \in Runs, CreateVm(r) PROVE Works(q)
  <2>1. CASE q # r
    BY <1>2, <1>16, <2>1
    DEF CreateVm, VBoxManage, OtherwiseUnchanged, Continue, Raise, Goto,
        Knows, Control, Choices
  <2>2. CASE q = r /\ Continue(r, "modifyBase")
    <3>1. /\ pc[q] = "createVm" /\ "modifyBase" \in Points
          /\ pc' = [pc EXCEPT ![q] = "modifyBase"]
          /\ KeepsChoices /\ UNCHANGED <<raised, keep>>
      BY <1>16, <2>2
      DEF CreateVm, Continue, Goto, OtherwiseUnchanged, KeepsChoices, Points,
          QueryPoints, Ended, Preparing
    <3>. QED
      BY <1>3, <3>1 DEF Removing
  <2>3. CASE q = r /\ Raise(r)
    BY <1>4, <1>16, <2>3 DEF CreateVm, OtherwiseUnchanged, KeepsChoices
  <2>. QED
    BY <1>16, <2>1, <2>2, <2>3 DEF CreateVm, VBoxManage
<1>17. ASSUME NEW r \in Runs, PrepareBase(r) PROVE Works(q)
  <2>1. CASE q # r
    BY <1>2, <1>17, <2>1
    DEF PrepareBase, VBoxManage, OtherwiseUnchanged, Continue, Raise, Goto,
        Knows, Control, Choices
  <2>2. ASSUME q = r, NEW b \in Preparing \cup {"installBase"}, Continue(r, b)
        PROVE  Works(q)
    <3>1. /\ pc[q] \in Preparing /\ b \in Points
          /\ pc' = [pc EXCEPT ![q] = b]
          /\ KeepsChoices /\ UNCHANGED <<raised, keep>>
      BY <1>17, <2>2
      DEF PrepareBase, Continue, Goto, OtherwiseUnchanged, KeepsChoices,
          Points, QueryPoints, Ended
    <3>. QED
      BY <1>3, <2>2, <3>1 DEF Removing, Preparing
  <2>3. CASE q = r /\ Raise(r)
    BY <1>4, <1>17, <2>3 DEF PrepareBase, OtherwiseUnchanged, KeepsChoices
  <2>. QED
    BY <1>17, <2>1, <2>2, <2>3, PreparingSteps
<1>18. ASSUME NEW r \in Runs, InstallBase(r) PROVE Works(q)
  <2>1. CASE q # r
    BY <1>2, <1>18, <2>1
    DEF InstallBase, VBoxManage, OtherwiseUnchanged, Continue, Raise, Goto,
        Knows, Control, Choices
  <2>2. CASE q = r /\ Continue(r, "done")
    <3>1. /\ pc[q] = "installBase" /\ "done" \in Points
          /\ pc' = [pc EXCEPT ![q] = "done"]
          /\ KeepsChoices /\ UNCHANGED <<raised, keep>>
      BY <1>18, <2>2
      DEF InstallBase, Continue, Goto, OtherwiseUnchanged, KeepsChoices,
          Points, QueryPoints, Ended
    <3>. QED
      BY <1>1, <1>3, <3>1 DEF Removing, Has, PlaceAt
  <2>3. CASE q = r /\ Raise(r)
    BY <1>4, <1>18, <2>3 DEF InstallBase, OtherwiseUnchanged, KeepsChoices
  <2>. QED
    BY <1>18, <2>1, <2>2, <2>3 DEF InstallBase, VBoxManage
<1>19. ASSUME NEW r \in Runs, CloneVm(r) PROVE Works(q)
  <2>1. CASE q # r
    BY <1>2, <1>19, <2>1
    DEF CloneVm, VBoxManage, OtherwiseUnchanged, Continue, Raise, Goto,
        Knows, Control, Choices
  <2>2. CASE q = r /\ Continue(r, "forwardClone")
    <3>1. /\ pc[q] = "cloneVm" /\ "forwardClone" \in Points
          /\ pc' = [pc EXCEPT ![q] = "forwardClone"]
          /\ KeepsChoices /\ UNCHANGED <<raised, keep>>
      BY <1>19, <2>2
      DEF CloneVm, Continue, Goto, OtherwiseUnchanged, KeepsChoices, Points,
          QueryPoints, Ended
    <3>. QED
      BY <1>3, <3>1 DEF Removing
  <2>3. CASE q = r /\ Raise(r)
    BY <1>4, <1>19, <2>3 DEF CloneVm, OtherwiseUnchanged, KeepsChoices
  <2>. QED
    BY <1>19, <2>1, <2>2, <2>3 DEF CloneVm, VBoxManage
<1>20. ASSUME NEW r \in Runs, ForwardClone(r) PROVE Works(q)
  <2>1. CASE q # r
    BY <1>2, <1>20, <2>1
    DEF ForwardClone, VBoxManage, OtherwiseUnchanged, Continue, Raise, Goto,
        Knows, Control, Choices
  <2>2. CASE q = r /\ Raise(r)
    BY <1>4, <1>20, <2>2 DEF ForwardClone, OtherwiseUnchanged, KeepsChoices
  <2>3. CASE /\ q = r /\ vm' = [vm EXCEPT ![stamp[r]].ownRule = port[r]]
             /\ Continue(r, "startClone")
    <3>1. vm'[stamp[q]].ownRule = port[q]
      <4>1. stamp[q] \in Names
        BY DEF Knows, Choices
      <4>2. vm'[stamp[q]] = [vm[stamp[q]] EXCEPT !.ownRule = port[q]]
        BY <2>3, <4>1 DEF MachinesOK
      <4>3. vm[stamp[q]] \in VMs
        BY <4>1 DEF MachinesOK
      <4>. QED
        BY <4>2, <4>3 DEF VMs
    <3>2. pc'[q] = "startClone" /\ keep' = keep /\ pc[q] = "forwardClone"
      BY <1>20, <2>3
      DEF ForwardClone, OtherwiseUnchanged, Continue, Goto, Knows, Control
    <3>. QED
      BY <3>1, <3>2 DEF Works, Removing
  <2>. QED
    BY <1>20, <2>1, <2>2, <2>3 DEF ForwardClone, VBoxManage
<1>21. ASSUME NEW r \in Runs, StartClone(r) PROVE Works(q)
  <2>1. CASE q # r
    BY <1>2, <1>21, <2>1
    DEF StartClone, VBoxManage, OtherwiseUnchanged, Continue, Raise, Goto,
        Knows, Control, Choices
  <2>2. CASE q = r /\ Continue(r, "connect")
    <3>1. /\ pc[q] = "startClone" /\ "connect" \in Points
          /\ pc' = [pc EXCEPT ![q] = "connect"]
          /\ KeepsChoices /\ UNCHANGED <<raised, keep>>
      BY <1>21, <2>2
      DEF StartClone, Continue, Goto, OtherwiseUnchanged, KeepsChoices,
          Points, QueryPoints, Ended
    <3>. QED
      BY <1>1, <1>3, <3>1 DEF Removing, Has, PlaceAt
  <2>3. CASE q = r /\ Raise(r)
    BY <1>4, <1>21, <2>3 DEF StartClone, OtherwiseUnchanged, KeepsChoices
  <2>. QED
    BY <1>21, <2>1, <2>2, <2>3 DEF StartClone, VBoxManage
<1>22. ASSUME NEW r \in Runs, PowerOff(r) PROVE Works(q)
  <2>1. CASE q # r
    BY <1>2, <1>22, <2>1
    DEF PowerOff, VBoxManage, OtherwiseUnchanged, Continue, Raise, Goto,
        Knows, Control, Choices
  <2>2. CASE q = r /\ Continue(r, "waitClone")
    <3>1. /\ pc[q] = "powerOff" /\ "waitClone" \in Points
          /\ pc' = [pc EXCEPT ![q] = "waitClone"]
          /\ KeepsChoices /\ UNCHANGED <<raised, keep>>
      BY <1>22, <2>2
      DEF PowerOff, Continue, Goto, OtherwiseUnchanged, KeepsChoices, Points,
          QueryPoints, Ended
    <3>. QED
      BY <1>3, <3>1 DEF Removing
  <2>3. CASE q = r /\ Raise(r)
    BY <1>4, <1>22, <2>3 DEF PowerOff, OtherwiseUnchanged, KeepsChoices
  <2>. QED
    BY <1>22, <2>1, <2>2, <2>3 DEF PowerOff, VBoxManage
<1>23. ASSUME NEW r \in Runs, Unregister(r) PROVE Works(q)
  <2>1. CASE q # r
    BY <1>2, <1>23, <2>1
    DEF Unregister, VBoxManage, OtherwiseUnchanged, Continue, Raise, Goto,
        Knows, Control, Choices
  <2>2. ASSUME NEW b \in {"done", "failed"}, q = r, Continue(r, b),
               b = "done" => raised[q] = ""
        PROVE  Works(q)
    BY <1>1, <1>3, <1>23, <2>2
    DEF Unregister, OtherwiseUnchanged, KeepsChoices, Continue, Goto,
        Removing, Points, Ended
  <2>3. CASE q = r /\ Raise(r)
    BY <1>4, <1>23, <2>3 DEF Unregister, OtherwiseUnchanged, KeepsChoices
  <2>. QED
    BY <1>23, <2>1, <2>2, <2>3 DEF Unregister, VBoxManage
<1>24. ASSUME NEW r \in Runs, DeleteForward(r) PROVE Works(q)
  <2>1. CASE q # r
    BY <1>2, <1>24, <2>1
    DEF DeleteForward, AfterDelete, Finish, OtherwiseUnchanged, Continue,
        Raise, Goto, Knows, Control, Choices
  <2>2. ASSUME NEW b \in {"addStopped", "addRunning", "done", "failed"},
               q = r, Continue(r, b)
        PROVE  Works(q)
    <3>1. stamp[q] = 0
      BY <1>1, <1>24, <2>2 DEF DeleteForward, Has, PlaceAt
    <3>. QED
      BY <1>1, <1>3, <1>24, <2>2, <3>1
      DEF DeleteForward, OtherwiseUnchanged, KeepsChoices, Continue, Goto,
          Removing, Points, Ended
  <2>. QED
    BY <1>24, <2>1, <2>2 DEF DeleteForward, AfterDelete, Finish
<1>25. ASSUME NEW r \in Runs, AddForwardStopped(r) PROVE Works(q)
  <2>1. CASE q # r
    BY <1>2, <1>25, <2>1
    DEF AddForwardStopped, VBoxManage, OtherwiseUnchanged, Continue, Raise,
        Goto, Knows, Control, Choices
  <2>2. CASE q = r /\ Continue(r, "startBase")
    <3>1. /\ pc[q] = "addStopped" /\ "startBase" \in Points
          /\ pc' = [pc EXCEPT ![q] = "startBase"]
          /\ KeepsChoices /\ UNCHANGED <<raised, keep>>
      BY <1>25, <2>2
      DEF AddForwardStopped, Continue, Goto, OtherwiseUnchanged,
          KeepsChoices, Points, QueryPoints, Ended
    <3>. QED
      BY <1>3, <3>1 DEF Removing
  <2>3. CASE q = r /\ Raise(r)
    BY <1>4, <1>25, <2>3
    DEF AddForwardStopped, OtherwiseUnchanged, KeepsChoices
  <2>. QED
    BY <1>25, <2>1, <2>2, <2>3 DEF AddForwardStopped, VBoxManage
<1>26. ASSUME NEW r \in Runs, AddForwardRunning(r) PROVE Works(q)
  <2>1. CASE q # r
    BY <1>2, <1>26, <2>1
    DEF AddForwardRunning, VBoxManage, OtherwiseUnchanged, Continue, Raise,
        Goto, Knows, Control, Choices
  <2>2. CASE q = r /\ Continue(r, "connect")
    <3>1. /\ pc[q] = "addRunning" /\ "connect" \in Points
          /\ pc' = [pc EXCEPT ![q] = "connect"]
          /\ KeepsChoices /\ UNCHANGED <<raised, keep>>
      BY <1>26, <2>2
      DEF AddForwardRunning, Continue, Goto, OtherwiseUnchanged,
          KeepsChoices, Points, QueryPoints, Ended
    <3>. QED
      BY <1>1, <1>3, <3>1 DEF Removing, Has, PlaceAt
  <2>3. CASE q = r /\ Raise(r)
    BY <1>4, <1>26, <2>3
    DEF AddForwardRunning, OtherwiseUnchanged, KeepsChoices
  <2>. QED
    BY <1>26, <2>1, <2>2, <2>3 DEF AddForwardRunning, VBoxManage
<1>27. ASSUME NEW r \in Runs, StartBase(r) PROVE Works(q)
  <2>1. CASE q # r
    BY <1>2, <1>27, <2>1
    DEF StartBase, VBoxManage, OtherwiseUnchanged, Continue, Raise, Goto,
        Knows, Control, Choices
  <2>2. CASE q = r /\ Continue(r, "connect")
    <3>1. /\ pc[q] = "startBase" /\ "connect" \in Points
          /\ pc' = [pc EXCEPT ![q] = "connect"]
          /\ KeepsChoices /\ UNCHANGED <<raised, keep>>
      BY <1>27, <2>2
      DEF StartBase, Continue, Goto, OtherwiseUnchanged, KeepsChoices,
          Points, QueryPoints, Ended
    <3>. QED
      BY <1>1, <1>3, <3>1 DEF Removing, Has, PlaceAt
  <2>3. CASE q = r /\ Raise(r)
    BY <1>4, <1>27, <2>3 DEF StartBase, OtherwiseUnchanged, KeepsChoices
  <2>. QED
    BY <1>27, <2>1, <2>2, <2>3 DEF StartBase, VBoxManage
<1>28. ASSUME NEW r \in Runs, InstallPackages(r) PROVE Works(q)
  <2>1. CASE q # r
    BY <1>2, <1>28, <2>1
    DEF InstallPackages, Continue, Raise, Goto, Knows, Control, Choices
  <2>2. CASE q = r /\ Continue(r, "shutdown")
    <3>1. /\ pc[q] = "install" /\ "shutdown" \in Points
          /\ pc' = [pc EXCEPT ![q] = "shutdown"]
          /\ KeepsChoices /\ UNCHANGED <<raised, keep>>
      BY <1>28, <2>2
      DEF InstallPackages, Continue, Goto, KeepsChoices, Points, QueryPoints,
          Ended
    <3>. QED
      BY <1>3, <3>1 DEF Removing
  <2>3. CASE q = r /\ Raise(r)
    BY <1>4, <1>28, <2>3 DEF InstallPackages, KeepsChoices
  <2>. QED
    BY <1>28, <2>1, <2>2, <2>3 DEF InstallPackages
<1>29. ASSUME NEW r \in Runs, ShutDownGuest(r) PROVE Works(q)
  <2>1. CASE q # r
    BY <1>2, <1>29, <2>1
    DEF ShutDownGuest, Continue, Raise, Goto, Knows, Control, Choices
  <2>2. CASE q = r /\ Continue(r, "waitBase")
    <3>1. /\ pc[q] = "shutdown" /\ "waitBase" \in Points
          /\ pc' = [pc EXCEPT ![q] = "waitBase"]
          /\ KeepsChoices /\ UNCHANGED <<raised, keep>>
      BY <1>29, <2>2
      DEF ShutDownGuest, Continue, Goto, KeepsChoices, Points, QueryPoints,
          Ended
    <3>. QED
      BY <1>3, <3>1 DEF Removing
  <2>3. CASE q = r /\ Raise(r)
    BY <1>4, <1>29, <2>3 DEF ShutDownGuest, KeepsChoices
  <2>. QED
    BY <1>29, <2>1, <2>2, <2>3 DEF ShutDownGuest
<1>30. ASSUME UNCHANGED process PROVE Works(q)
  BY <1>2, <1>30 DEF process
<1>. QED
  BY <1>5, <1>6, <1>7, <1>8, <1>9, <1>10, <1>11, <1>12, <1>13, <1>14, <1>15,
     <1>16, <1>17, <1>18, <1>19, <1>20, <1>21, <1>22, <1>23, <1>24, <1>25,
     <1>26, <1>27, <1>28, <1>29, <1>30
  DEF Next, Step, Query, GuestHalts, Abort, InstallationEnds, UserStopsBase,
      vars
LEMMA SaveStep ==
  ASSUME Rest, [Next]_vars, NEW s \in Seconds PROVE Saves(s)
<1>1. saved' = saved \/ \E r \in Runs : RunScript(r)
  <2>1. ASSUME NEW r \in Runs, Quiet(r), ~RunScript(r) PROVE saved' = saved
    BY <2>1
    DEF Quiet, Query, ListVms, ShowInfo, ChooseByState, NameClone, Connect,
        ChooseRemoval, ChooseFinalization, LookAgain, TimeOut, Kill
  <2>2. ASSUME NEW r \in Runs,
               \/ Shapes(r) \/ CloneVm(r) \/ ForwardClone(r) \/ Unregister(r)
               \/ DeleteForward(r) \/ AddForwardStopped(r)
               \/ AddForwardRunning(r)
        PROVE  saved' = saved
    BY <2>2
    DEF Shapes, CreateVm, PrepareBase, InstallBase, StartClone, PowerOff,
        StartBase, InstallPackages, ShutDownGuest, CloneVm, ForwardClone,
        Unregister, DeleteForward, AddForwardStopped, AddForwardRunning,
        OtherwiseUnchanged
  <2>3. World => saved' = saved
    BY DEF World, GuestHalts, Abort, InstallationEnds, UserStopsBase
  <2>. QED
    BY <2>1, <2>2, <2>3 DEF Next, Step, Quiet, Shapes, World, vars
<1>2. ASSUME NEW r \in Runs, RunScript(r) PROVE Saves(s)
  BY <1>2 DEF RunScript, Saves, Rest
<1>. QED
  BY <1>1, <1>2 DEF Saves

\* What becomes of the results and the clone of a run, from its work to its
\* end.
KeptOK ==
  \A r \in Runs :
    /\ pc[r] \in Removing => ~keep[r]
    /\ Holds(r) => vm[stamp[r]].ownRule = port[r]
    /\ DistinctSeconds =>
         /\ pc[r] \in Removing /\ raised[r] = "" => saved[stamp[r]] = r
         /\ pc[r] = "done" /\ stamp[r] # 0 =>
              /\ saved[stamp[r]] = r
              /\ keep[r] => /\ vm[stamp[r]].owner = r
                            /\ vm[stamp[r]].ownRule = port[r]

LEMMA KeptStep ==
  ASSUME Knows, MachinesOK, Rest, Mine, KeptOK, [Next]_vars
  PROVE  KeptOK'
<1> SUFFICES ASSUME NEW q \in Runs
             PROVE  /\ pc'[q] \in Removing => ~keep'[q]
                    /\ Holds(q)' => vm'[stamp'[q]].ownRule = port'[q]
                    /\ DistinctSeconds' =>
                         /\ pc'[q] \in Removing /\ raised'[q] = "" =>
                              saved'[stamp'[q]] = q
                         /\ pc'[q] = "done" /\ stamp'[q] # 0 =>
                              /\ saved'[stamp'[q]] = q
                              /\ keep'[q] =>
                                   /\ vm'[stamp'[q]].owner = q
                                   /\ vm'[stamp'[q]].ownRule = port'[q]
  BY DEF KeptOK
<1>1. Works(q) /\ Advances(q) /\ Has(q, pc[q])
  BY WorkStep, RunStep DEF Knows, Place
<1>2. pc'[q] \in Removing => ~keep'[q]
  BY <1>1 DEF Works, KeptOK
<1>3. Holds(q) => HasClone(q) /\ stamp[q] \in Seconds /\ stamp[q] \in Names
  BY <1>1 DEF Holds, HasClone, CloneWork, Has, PlaceAt, Names
<1>4. pc[q] \in Removing => HasClone(q) /\ stamp[q] \in Seconds
  BY <1>1 DEF Removing, HasClone, CloneWork, Has, PlaceAt
<1>5. stamp[q] \in Seconds => stamp[q] # 0 /\ stamp[q] # Base
  BY BoundsAssumption DEF Seconds, Base
<1>6. stamp[q] # 0 => stamp'[q] = stamp[q] /\ port'[q] = port[q]
  BY <1>1 DEF Advances, Chooses
\* A run that holds its clone keeps it in this step.
<1>7. ASSUME Holds(q)
      PROVE  vm'[stamp[q]].owner = q /\ vm'[stamp[q]].ownRule = port[q]
  <2>1. vm[stamp[q]].owner = q /\ vm[stamp[q]].ownRule = port[q]
    BY <1>3, <1>7 DEF Mine, KeptOK
  <2>2. Touched(stamp[q])
    BY <1>3, <1>7, TouchStep
  <2>3. ASSUME NEW r \in Runs,
               Removed(stamp[q], r) \/ Forwarded(stamp[q], r)
        PROVE  FALSE
    <3>1. HasClone(r) /\ stamp[r] = stamp[q]
      BY <2>3 DEF Removed, Forwarded, HasClone, CloneWork
    <3>2. r = q
      BY <2>1, <3>1 DEF Mine
    <3>. QED
      BY <1>7, <2>3, <3>2 DEF Removed, Forwarded, Holds
  <2>4. ASSUME NEW r \in Runs, Made(stamp[q], r) PROVE FALSE
    BY <2>1, <2>4, NoRunAssumption DEF Made, NoVM
  <2>. QED
    BY <1>3, <1>5, <1>7, <2>1, <2>2, <2>3, <2>4 DEF Touched, Kept, Opened
<1>8. ASSUME Holds(q)' PROVE vm'[stamp'[q]].ownRule = port'[q]
  <2>1. CASE Holds(q)
    BY <1>3, <1>5, <1>6, <1>7, <2>1
  <2>2. CASE pc[q] = "forwardClone" /\ vm'[stamp[q]].ownRule = port[q]
    BY <1>1, <1>5, <1>6, <2>2 DEF Has, PlaceAt, CloneWork
  <2>. QED
    BY <1>1, <1>8, <2>1, <2>2 DEF Works
<1>9. ASSUME DistinctSeconds'
      PROVE  DistinctSeconds
  <2>1. \A r \in Runs : stamp[r] # 0 => stamp'[r] = stamp[r]
    BY RunStep DEF Advances, Chooses
  <2>. QED
    BY <1>9, <2>1 DEF DistinctSeconds
<1>10. ASSUME DistinctSeconds', saved[stamp[q]] = q, stamp[q] \in Seconds,
              pc[q] # "script"
       PROVE  saved'[stamp[q]] = q
  <2>1. ASSUME NEW r \in Runs, pc[r] = "script", stamp[r] = stamp[q]
        PROVE  FALSE
    BY <1>5, <1>9, <1>10, <2>1 DEF DistinctSeconds
  <2>. QED
    BY <1>10, <2>1, SaveStep DEF Saves
<1>11. ASSUME DistinctSeconds', pc'[q] \in Removing, raised'[q] = ""
       PROVE  saved'[stamp'[q]] = q
  <2>1. CASE pc[q] \in Removing /\ raised'[q] = raised[q]
    <3>1. saved[stamp[q]] = q /\ pc[q] # "script"
      BY <1>9, <1>11, <2>1 DEF KeptOK, Removing
    <3>. QED
      BY <1>4, <1>5, <1>6, <1>10, <1>11, <2>1, <3>1
  <2>2. CASE Holds(q) /\ saved'[stamp[q]] = q
    BY <1>3, <1>5, <1>6, <2>2
  <2>. QED
    BY <1>1, <1>11, <2>1, <2>2 DEF Works
<1>12. ASSUME DistinctSeconds', pc'[q] = "done", stamp'[q] # 0
       PROVE  /\ saved'[stamp'[q]] = q
              /\ keep'[q] => /\ vm'[stamp'[q]].owner = q
                             /\ vm'[stamp'[q]].ownRule = port'[q]
  <2>1. stamp'[q] = stamp[q] /\ port'[q] = port[q] /\ keep'[q] = keep[q]
    BY <1>1, <1>12 DEF Works
  <2>2. stamp[q] \in Seconds /\ stamp[q] \in Names
    BY <1>12, <2>1 DEF Knows, Choices, Names, Base
  <2>3. CASE pc[q] = "done"
    <3>1. /\ saved[stamp[q]] = q
          /\ keep[q] => /\ vm[stamp[q]].owner = q
                        /\ vm[stamp[q]].ownRule = port[q]
      BY <1>5, <1>9, <1>12, <2>2, <2>3 DEF KeptOK
    <3>2. saved'[stamp[q]] = q
      BY <1>10, <1>12, <2>2, <2>3, <3>1
    <3>3. ASSUME keep[q]
          PROVE  vm'[stamp[q]].owner = q /\ vm'[stamp[q]].ownRule = port[q]
      <4>1. ASSUME NEW r \in Runs,
                   Removed(stamp[q], r) \/ Forwarded(stamp[q], r)
            PROVE  FALSE
        <5>1. stamp[r] = stamp[q] /\ pc[r] # "done"
          BY <4>1 DEF Removed, Forwarded
        <5>. QED
          BY <1>5, <1>9, <1>12, <2>2, <2>3, <5>1 DEF DistinctSeconds
      <4>2. ASSUME NEW r \in Runs, Made(stamp[q], r) PROVE FALSE
        BY <3>1, <3>3, <4>2, NoRunAssumption DEF Made, NoVM
      <4>3. Touched(stamp[q])
        BY <2>2, TouchStep
      <4>. QED
        BY <1>5, <2>2, <3>1, <3>3, <4>1, <4>2, <4>3 DEF Touched, Kept, Opened
    <3>. QED
      BY <2>1, <3>2, <3>3
  <2>4. CASE pc[q] \in Removing /\ raised[q] = ""
    <3>1. saved[stamp[q]] = q /\ pc[q] # "script" /\ ~keep[q]
      BY <1>9, <1>12, <2>4 DEF KeptOK, Removing
    <3>. QED
      BY <1>10, <1>12, <2>1, <2>2, <3>1
  <2>5. CASE keep[q] /\ Holds(q) /\ saved'[stamp[q]] = q
    BY <1>7, <2>1, <2>5
  <2>. QED
    BY <1>1, <1>5, <1>12, <2>2, <2>3, <2>4, <2>5 DEF Works
<1>. QED
  BY <1>2, <1>8, <1>11, <1>12
-----------------------------------------------------------------------------
\* The power of one clone in one step: it stays, or its run starts or removes
\* it, or it is online and goes down.
Powering(n) ==
  \/ vm'[n].power = vm[n].power
  \/ vm[n].power \in Online /\ vm'[n].power # "absent"
  \/ \E r \in Runs : \/ Made(n, r) \/ Removed(n, r)
                    \/ /\ pc[r] = "startClone" /\ stamp[r] = n
                       /\ pc'[r] = "connect" /\ vm'[n].power = "on"

LEMMA PowerStep ==
  ASSUME Knows, MachinesOK, [Next]_vars, NEW m \in Seconds PROVE Powering(m)
<1>1. m \in Names /\ m # Base
  BY BoundsAssumption DEF Seconds, Names, Base
<1>2. ASSUME UNCHANGED machines PROVE Powering(m)
  BY <1>2 DEF machines, Powering
<1>3. ASSUME NEW n \in Names, NEW q \in Powers,
             vm' = [vm EXCEPT ![n].power = q]
      PROVE  IF m = n THEN vm'[m].power = q ELSE vm'[m] = vm[m]
  <2>1. vm[n] \in VMs /\ vm'[n] = [vm[n] EXCEPT !.power = q]
    BY <1>3 DEF MachinesOK
  <2>2. vm'[n].power = q
    BY <2>1 DEF VMs
  <2>. QED
    BY <1>1, <1>3, <2>2 DEF MachinesOK
<1>4. /\ "off" \in Powers /\ "on" \in Powers /\ "halting" \in Powers
      /\ "aborted" \in Powers /\ Base \in Names
  BY DEF Powers, Names
<1>5. ASSUME NEW r \in Runs PROVE stamp[r] \in Names /\ port[r] \in SomePort
  BY DEF Knows, Choices
<1>6. ASSUME NEW r \in Runs, Quiet(r) PROVE Powering(m)
  BY <1>2, <1>6, QuietSteps
\* The base alone.
<1>7. ASSUME NEW r \in Runs,
             \/ CreateVm(r) \/ PrepareBase(r) \/ InstallBase(r) \/ StartBase(r)
             \/ DeleteForward(r) \/ AddForwardStopped(r)
             \/ AddForwardRunning(r)
      PROVE  Powering(m)
  <2>1. vm'[m] = vm[m]
    BY <1>1, <1>4, <1>7
    DEF CreateVm, PrepareBase, InstallBase, StartBase, DeleteForward,
        AddForwardStopped, AddForwardRunning, VBoxManage, machines, MachinesOK
  <2>. QED
    BY <2>1 DEF Powering
<1>8. ASSUME NEW r \in Runs, StartClone(r) PROVE Powering(m)
  <2>1. SUFFICES ASSUME vm' = [vm EXCEPT ![stamp[r]].power = "on"],
                        Continue(r, "connect"), pc[r] = "startClone"
                 PROVE  Powering(m)
    BY <1>2, <1>8 DEF StartClone, VBoxManage
  <2>2. pc'[r] = "connect"
    BY <2>1 DEF Continue, Goto, Knows, Control
  <2>. QED
    BY <1>3, <1>4, <1>5, <2>1, <2>2 DEF Powering
<1>9. ASSUME NEW r \in Runs, PowerOff(r) PROVE Powering(m)
  <2>1. SUFFICES ASSUME vm' = [vm EXCEPT ![stamp[r]].power = "halting"],
                        vm[stamp[r]].power \in Online
                 PROVE  Powering(m)
    BY <1>2, <1>9 DEF PowerOff, VBoxManage
  <2>. QED
    BY <1>3, <1>4, <1>5, <2>1 DEF Powering
<1>10. ASSUME NEW r \in Runs, ShutDownGuest(r) PROVE Powering(m)
  <2>1. SUFFICES ASSUME vm' = [vm EXCEPT ![session[r]].power = "halting"],
                        vm[session[r]].power = "on", session[r] \in Names
                 PROVE  Powering(m)
    BY <1>2, <1>10
    DEF ShutDownGuest, machines, Knows, Place, Has, PlaceAt
  <2>. QED
    BY <1>3, <1>4, <2>1 DEF Powering, Online
<1>11. ASSUME NEW r \in Runs, InstallPackages(r) PROVE Powering(m)
  <2>1. SUFFICES ASSUME vm' = [vm EXCEPT ![session[r]].disk = "ready"]
                 PROVE  Powering(m)
    BY <1>2, <1>11 DEF InstallPackages, machines
  <2>2. vm[m] \in VMs
    BY <1>1 DEF MachinesOK
  <2>3. vm'[m] = vm[m] \/ vm'[m] = [vm[m] EXCEPT !.disk = "ready"]
    BY <1>1, <2>1 DEF MachinesOK
  <2>4. vm'[m].power = vm[m].power
    BY <2>2, <2>3 DEF VMs
  <2>. QED
    BY <2>4 DEF Powering
<1>12. ASSUME NEW r \in Runs, CloneVm(r) \/ ForwardClone(r) \/ Unregister(r)
       PROVE  Powering(m)
  <2>1. Touched(m)
    BY <1>1, TouchStep
  <2>2. CASE CloneVm(r)
    <3>1. SUFFICES ASSUME vm' = [vm EXCEPT ![stamp[r]] =
                            [vm[Base] EXCEPT !.owner = r, !.power = "off"]],
                          vm[stamp[r]] = NoVM, pc[r] = "cloneVm",
                          Continue(r, "forwardClone"), stamp' = stamp
                   PROVE  Powering(m)
      BY <1>2, <1>12, <2>2 DEF CloneVm, VBoxManage, OtherwiseUnchanged
    <3>2. pc'[r] = "forwardClone"
      BY <3>1 DEF Continue, Goto, Knows, Control
    <3>3. CASE m = stamp[r]
      BY <1>5, <3>1, <3>2, <3>3, CloneType DEF Powering, Made
    <3>4. CASE m # stamp[r]
      BY <1>1, <1>5, <3>1, <3>4, CloneType DEF Powering
    <3>. QED
      BY <3>3, <3>4
  <2>3. CASE ForwardClone(r)
    <3>1. SUFFICES ASSUME vm' = [vm EXCEPT ![stamp[r]].ownRule = port[r]]
                   PROVE  Powering(m)
      BY <1>2, <1>12, <2>3 DEF ForwardClone, VBoxManage
    <3>. QED
      BY <1>1, <1>5, <3>1, Ruled DEF Powering
  <2>4. CASE Unregister(r)
    <3>1. SUFFICES ASSUME vm' = [vm EXCEPT ![stamp[r]] = NoVM],
                          pc[r] = "unregister",
                          Continue(r, "done") \/ Continue(r, "failed")
                   PROVE  Powering(m)
      BY <1>2, <1>12, <2>4 DEF Unregister, VBoxManage
    <3>2. pc'[r] \in Ended
      BY <3>1 DEF Continue, Goto, Ended, Knows, Control
    <3>. QED
      BY <1>1, <1>5, <3>1, <3>2 DEF Powering, Removed, MachinesOK
  <2>. QED
    BY <1>12, <2>2, <2>3, <2>4
<1>13. CASE World
  <2>1. ASSUME NEW n \in Names, GuestHalts(n) \/ Abort(n) PROVE Powering(m)
    BY <1>3, <1>4, <2>1 DEF GuestHalts, Abort, Powering, Online
  <2>2. ASSUME InstallationEnds \/ UserStopsBase PROVE Powering(m)
    BY <1>1, <2>2 DEF InstallationEnds, UserStopsBase, Powering, MachinesOK
  <2>. QED
    BY <1>13, <2>1, <2>2 DEF World
<1>14. CASE UNCHANGED vars
  BY <1>2, <1>14 DEF vars
<1>. QED
  BY <1>6, <1>7, <1>8, <1>9, <1>10, <1>11, <1>12, <1>13, <1>14
  DEF Next, Step, Quiet, World

-----------------------------------------------------------------------------
\* While nothing fails by itself: where a run stands tells what its clone is,
\* and what it saw of the clone still holds in what matters.
Offline == {"notRunning", "STOPPED", "OTHER"}
Fits(q) ==
  /\ HasClone(q) => vm[stamp[q]].power # "absent"
  /\ pc[q] \in {"forwardClone", "startClone"} => vm[stamp[q]].power = "off"
  /\ pc[q] \in {"removeClone", "waitClone"} =>
       /\ seen[q] # "NOT_CREATED"
       /\ seen[q] \in Offline => vm[stamp[q]].power \notin Online
  /\ pc[q] = "unregister" => vm[stamp[q]].power \notin Online

\* A run leaves its clone behind when it is killed, keeps it, or cannot stop
\* it.
Leaves(q) ==
  \/ pc[q] = "killed"
  \/ /\ pc[q] \in {"done", "failed"}
     /\ keep[q] \/ raised[q] \in {"powerOff", "waitClone"}

\* What one step in which nothing fails by itself does to a run and its look.
Departs(q) ==
  /\ pc[q] \in Ended =>
       pc'[q] = pc[q] /\ raised'[q] = raised[q] /\ keep'[q] = keep[q]
  /\ HasClone(q) => \/ HasClone(q)' \/ Leaves(q)'
                    \/ pc[q] = "unregister" /\ vm'[stamp[q]] = NoVM
  /\ pc'[q] = "forwardClone" => pc[q] \in {"forwardClone", "cloneVm"}
  /\ pc'[q] = "startClone" => pc[q] \in {"forwardClone", "startClone"}
  /\ pc'[q] \in {"removeClone", "waitClone"} =>
       \/ seen'[q] = "unasked"
       \/ pc'[q] = pc[q] /\ seen'[q] = seen[q]
       \/ /\ pc'[q] = pc[q] /\ vm' = vm
          /\ seen'[q] = "NOT_CREATED" => vm[stamp[q]].power = "absent"
          /\ seen'[q] \in Offline =>
               vm[stamp[q]].power \notin Online \/ seen[q] = "notRunning"
  /\ pc'[q] = "unregister" =>
       \/ pc[q] = "unregister"
       \/ /\ pc[q] \in {"removeClone", "waitClone"}
          /\ seen[q] \in Offline \cup {"NOT_CREATED"}

LEMMA DepartStep ==
  ASSUME Knows, MachinesOK, Rest, [Next]_vars, faults' = faults,
         NEW q \in Runs, Fits(q)
  PROVE  Departs(q)
<1>1. Has(q, pc[q]) /\ command[q] \in {"run", "finalize"} /\ stamp[q] \in Names
  BY DEF Knows, Place, Choices
<1>2. ~Fails
  BY BoundsAssumption DEF Rest, Fails
<1>3. ASSUME pc'[q] = pc[q], command'[q] = command[q], seen'[q] = seen[q],
             raised'[q] = raised[q], keep'[q] = keep[q]
      PROVE  Departs(q)
  BY <1>3 DEF Departs, HasClone
\* A run without a clone, and one that goes on with its clone.
<1>4. ASSUME ~HasClone(q), pc[q] \notin Ended, NEW b \in Points,
             pc' = [pc EXCEPT ![q] = b],
             b \notin {"startClone", "removeClone", "waitClone", "unregister"},
             b = "forwardClone" => pc[q] = "cloneVm"
      PROVE  Departs(q)
  <2>1. pc'[q] = b
    BY <1>4 DEF Knows, Control
  <2>. QED
    BY <1>4, <2>1 DEF Departs
<1>5. ASSUME ~HasClone(q), pc[q] \notin Ended, Raise(q) PROVE Departs(q)
  <2>1. PICK b \in {"removeForward", "failed"} : pc' = [pc EXCEPT ![q] = b]
    BY <1>1, <1>5 DEF Raise, Goto, HasClone, CloneWork
  <2>. QED
    BY <1>4, <1>5, <2>1 DEF Points, QueryPoints, Ended
<1>6. ASSUME HasClone(q), Goto(q, "connect") \/ Goto(q, "script")
                            \/ Goto(q, "removeClone") \/ Goto(q, "powerOff")
                            \/ Goto(q, "waitClone"),
             command' = command
      PROVE  Departs(q)
  <2>1. /\ pc'[q] \in {"connect", "script", "removeClone", "powerOff",
                       "waitClone"}
        /\ seen'[q] = "unasked" /\ pc[q] \notin Ended
        /\ pc'[q] = "connect" => command'[q] = "run"
    BY <1>1, <1>6
    DEF Goto, HasClone, CloneWork, Has, PlaceAt, Knows, Control, Ended
  <2>. QED
    BY <1>6, <2>1 DEF Departs, HasClone, CloneWork
<1>7. ASSUME HasClone(q), Raise(q), keep' = keep, command' = command,
             \/ pc[q] \in {"connect", "script", "powerOff", "waitClone"}
             \/ keep[q]
      PROVE  Departs(q)
  <2>1. pc[q] # "waitBase" /\ command[q] = "run"
    BY <1>1, <1>7 DEF HasClone, CloneWork, Has, PlaceAt
  <2>2. CASE pc[q] \in {"connect", "script"} /\ ~keep[q]
    BY <1>6, <1>7, <2>1, <2>2 DEF Raise
  <2>3. CASE ~(pc[q] \in {"connect", "script"} /\ ~keep[q])
    <3>1. pc'[q] = "failed" /\ raised'[q] = pc[q] /\ pc[q] \notin Ended
      BY <1>7, <2>1, <2>3
      DEF Raise, Goto, Knows, Control, HasClone, CloneWork, Ended
    <3>. QED
      BY <1>7, <2>3, <3>1 DEF Departs, Leaves
  <2>. QED
    BY <2>2, <2>3
<1>8. ASSUME NEW r \in Runs, ChooseByState(r) PROVE Departs(q)
  <2>1. CASE q # r
    BY <1>3, <1>8, <2>1
    DEF ChooseByState, Continue, Raise, Goto, Knows, Control, Choices
  <2>2. q = r => ~HasClone(q) /\ pc[q] \notin Ended
    BY <1>1, <1>8 DEF ChooseByState, HasClone, CloneWork, Ended, Has,
        PlaceAt
  <2>3. CASE q = r /\ Raise(r)
    BY <1>5, <2>2, <2>3
  <2>4. CASE q = r /\ ~Raise(r)
    BY <1>4, <1>8, <2>2, <2>4
    DEF ChooseByState, Continue, Goto, Points, QueryPoints, Ended
  <2>. QED
    BY <2>1, <2>3, <2>4
<1>9. ASSUME NEW r \in Runs, NameClone(r) PROVE Departs(q)
  <2>1. CASE q # r
    BY <1>3, <1>9, <2>1
    DEF NameClone, Continue, Raise, Goto, Knows, Control, Choices
  <2>2. q = r => ~HasClone(q) /\ pc[q] \notin Ended
    BY <1>1, <1>9 DEF NameClone, HasClone, CloneWork, Ended, Has,
        PlaceAt
  <2>3. CASE q = r /\ Raise(r)
    BY <1>5, <2>2, <2>3
  <2>4. CASE q = r /\ ~Raise(r)
    BY <1>4, <1>9, <2>2, <2>4
    DEF NameClone, Continue, Goto, Points, QueryPoints, Ended
  <2>. QED
    BY <2>1, <2>3, <2>4
<1>10. ASSUME NEW r \in Runs, ChooseFinalization(r) PROVE Departs(q)
  <2>1. CASE q # r
    BY <1>3, <1>10, <2>1
    DEF ChooseFinalization, Continue, Raise, Goto, Knows, Control, Choices
  <2>2. q = r => ~HasClone(q) /\ pc[q] \notin Ended
    BY <1>1, <1>10 DEF ChooseFinalization, HasClone, CloneWork, Ended, Has,
        PlaceAt
  <2>3. CASE q = r /\ Raise(r)
    BY <1>5, <2>2, <2>3
  <2>4. CASE q = r /\ ~Raise(r)
    BY <1>4, <1>10, <2>2, <2>4
    DEF ChooseFinalization, Continue, Goto, Points, QueryPoints, Ended
  <2>. QED
    BY <2>1, <2>3, <2>4
<1>11. ASSUME NEW r \in Runs, CreateVm(r) PROVE Departs(q)
  <2>1. CASE q # r
    BY <1>3, <1>11, <2>1
    DEF CreateVm, VBoxManage, OtherwiseUnchanged, Continue, Raise, Goto,
        Knows, Control, Choices
  <2>2. q = r => ~HasClone(q) /\ pc[q] \notin Ended
    BY <1>1, <1>11 DEF CreateVm, HasClone, CloneWork, Ended, Has,
        PlaceAt
  <2>3. CASE q = r /\ Raise(r)
    BY <1>5, <2>2, <2>3
  <2>4. CASE q = r /\ ~Raise(r)
    BY <1>4, <1>11, <2>2, <2>4
    DEF CreateVm, VBoxManage, Continue, Goto, Points, QueryPoints,
        Ended, Preparing
  <2>. QED
    BY <2>1, <2>3, <2>4
<1>12. ASSUME NEW r \in Runs, PrepareBase(r) PROVE Departs(q)
  <2>1. CASE q # r
    BY <1>3, <1>12, <2>1
    DEF PrepareBase, VBoxManage, OtherwiseUnchanged, Continue, Raise, Goto,
        Knows, Control, Choices
  <2>2. q = r => ~HasClone(q) /\ pc[q] \notin Ended
    BY <1>1, <1>12 DEF PrepareBase, Preparing, HasClone, CloneWork, Ended,
        Has, PlaceAt
  <2>3. CASE q = r /\ Raise(r)
    BY <1>5, <2>2, <2>3
  <2>4. CASE q = r /\ ~Raise(r)
    BY <1>4, <1>12, <2>2, <2>4, PreparingSteps
    DEF Continue, Goto, Points, Preparing, QueryPoints, Ended
  <2>. QED
    BY <2>1, <2>3, <2>4
<1>13. ASSUME NEW r \in Runs, InstallBase(r) PROVE Departs(q)
  <2>1. CASE q # r
    BY <1>3, <1>13, <2>1
    DEF InstallBase, VBoxManage, OtherwiseUnchanged, Continue, Raise, Goto,
        Knows, Control, Choices
  <2>2. q = r => ~HasClone(q) /\ pc[q] \notin Ended
    BY <1>1, <1>13 DEF InstallBase, HasClone, CloneWork, Ended, Has,
        PlaceAt
  <2>3. CASE q = r /\ Raise(r)
    BY <1>5, <2>2, <2>3
  <2>4. CASE q = r /\ ~Raise(r)
    BY <1>4, <1>13, <2>2, <2>4
    DEF InstallBase, VBoxManage, Continue, Goto, Points, QueryPoints, Ended
  <2>. QED
    BY <2>1, <2>3, <2>4
<1>14. ASSUME NEW r \in Runs, CloneVm(r) PROVE Departs(q)
  <2>1. CASE q # r
    BY <1>3, <1>14, <2>1
    DEF CloneVm, VBoxManage, OtherwiseUnchanged, Continue, Raise, Goto,
        Knows, Control, Choices
  <2>2. q = r => ~HasClone(q) /\ pc[q] \notin Ended
    BY <1>1, <1>14 DEF CloneVm, HasClone, CloneWork, Ended, Has,
        PlaceAt
  <2>3. CASE q = r /\ Raise(r)
    BY <1>5, <2>2, <2>3
  <2>4. CASE q = r /\ ~Raise(r)
    BY <1>4, <1>14, <2>2, <2>4
    DEF CloneVm, VBoxManage, Continue, Goto, Points, QueryPoints, Ended
  <2>. QED
    BY <2>1, <2>3, <2>4
<1>15. ASSUME NEW r \in Runs, DeleteForward(r) PROVE Departs(q)
  <2>1. CASE q # r
    BY <1>3, <1>15, <2>1
    DEF DeleteForward, AfterDelete, Finish, OtherwiseUnchanged, Continue,
        Raise, Goto, Knows, Control, Choices
  <2>2. q = r => ~HasClone(q) /\ pc[q] \notin Ended
    BY <1>1, <1>15 DEF DeleteForward, HasClone, CloneWork, Ended, Has,
        PlaceAt
  <2>3. CASE q = r /\ Raise(r)
    BY <1>5, <2>2, <2>3
  <2>4. CASE q = r /\ ~Raise(r)
    BY <1>4, <1>15, <2>2, <2>4
    DEF DeleteForward, AfterDelete, Finish, Continue, Goto, Points,
        QueryPoints, Ended
  <2>. QED
    BY <2>1, <2>3, <2>4
<1>16. ASSUME NEW r \in Runs, AddForwardStopped(r) PROVE Departs(q)
  <2>1. CASE q # r
    BY <1>3, <1>16, <2>1
    DEF AddForwardStopped, VBoxManage, OtherwiseUnchanged, Continue, Raise,
        Goto, Knows, Control, Choices
  <2>2. q = r => ~HasClone(q) /\ pc[q] \notin Ended
    BY <1>1, <1>16 DEF AddForwardStopped, HasClone, CloneWork, Ended, Has,
        PlaceAt
  <2>3. CASE q = r /\ Raise(r)
    BY <1>5, <2>2, <2>3
  <2>4. CASE q = r /\ ~Raise(r)
    BY <1>4, <1>16, <2>2, <2>4
    DEF AddForwardStopped, VBoxManage, Continue, Goto, Points, QueryPoints,
        Ended
  <2>. QED
    BY <2>1, <2>3, <2>4
<1>17. ASSUME NEW r \in Runs, AddForwardRunning(r) PROVE Departs(q)
  <2>1. CASE q # r
    BY <1>3, <1>17, <2>1
    DEF AddForwardRunning, VBoxManage, OtherwiseUnchanged, Continue, Raise,
        Goto, Knows, Control, Choices
  <2>2. q = r => ~HasClone(q) /\ pc[q] \notin Ended
    BY <1>1, <1>17 DEF AddForwardRunning, HasClone, CloneWork, Ended, Has,
        PlaceAt
  <2>3. CASE q = r /\ Raise(r)
    BY <1>5, <2>2, <2>3
  <2>4. CASE q = r /\ ~Raise(r)
    BY <1>4, <1>17, <2>2, <2>4
    DEF AddForwardRunning, VBoxManage, Continue, Goto, Points, QueryPoints,
        Ended
  <2>. QED
    BY <2>1, <2>3, <2>4
<1>18. ASSUME NEW r \in Runs, StartBase(r) PROVE Departs(q)
  <2>1. CASE q # r
    BY <1>3, <1>18, <2>1
    DEF StartBase, VBoxManage, OtherwiseUnchanged, Continue, Raise, Goto,
        Knows, Control, Choices
  <2>2. q = r => ~HasClone(q) /\ pc[q] \notin Ended
    BY <1>1, <1>18 DEF StartBase, HasClone, CloneWork, Ended, Has,
        PlaceAt
  <2>3. CASE q = r /\ Raise(r)
    BY <1>5, <2>2, <2>3
  <2>4. CASE q = r /\ ~Raise(r)
    BY <1>4, <1>18, <2>2, <2>4
    DEF StartBase, VBoxManage, Continue, Goto, Points, QueryPoints, Ended
  <2>. QED
    BY <2>1, <2>3, <2>4
<1>19. ASSUME NEW r \in Runs, InstallPackages(r) PROVE Departs(q)
  <2>1. CASE q # r
    BY <1>3, <1>19, <2>1
    DEF InstallPackages, Continue, Raise, Goto, Knows, Control, Choices
  <2>2. q = r => ~HasClone(q) /\ pc[q] \notin Ended
    BY <1>1, <1>19 DEF InstallPackages, HasClone, CloneWork, Ended, Has,
        PlaceAt
  <2>3. CASE q = r /\ Raise(r)
    BY <1>5, <2>2, <2>3
  <2>4. CASE q = r /\ ~Raise(r)
    BY <1>4, <1>19, <2>2, <2>4
    DEF InstallPackages, Continue, Goto, Points, QueryPoints, Ended
  <2>. QED
    BY <2>1, <2>3, <2>4
<1>20. ASSUME NEW r \in Runs, ShutDownGuest(r) PROVE Departs(q)
  <2>1. CASE q # r
    BY <1>3, <1>20, <2>1
    DEF ShutDownGuest, Continue, Raise, Goto, Knows, Control, Choices
  <2>2. q = r => ~HasClone(q) /\ pc[q] \notin Ended
    BY <1>1, <1>20 DEF ShutDownGuest, HasClone, CloneWork, Ended, Has,
        PlaceAt
  <2>3. CASE q = r /\ Raise(r)
    BY <1>5, <2>2, <2>3
  <2>4. CASE q = r /\ ~Raise(r)
    BY <1>4, <1>20, <2>2, <2>4
    DEF ShutDownGuest, Continue, Goto, Points, QueryPoints, Ended
  <2>. QED
    BY <2>1, <2>3, <2>4
<1>21. ASSUME NEW r \in Runs, ListVms(r) PROVE Departs(q)
  <2>1. CASE q # r
    BY <1>3, <1>21, <2>1
    DEF ListVms, Saw, QueryFails, Continue, Raise, Goto, Knows, Control,
        Choices
  <2>2. CASE q = r
    <3>1. /\ pc' = pc /\ raised' = raised /\ keep' = keep /\ vm' = vm
          /\ command' = command /\ pc[q] \in QueryPoints
          /\ seen'[q] = IF vm[Subject(q)].power = "absent" THEN "NOT_CREATED"
                        ELSE IF vm[Subject(q)].power \in Online THEN "RUNNING"
                        ELSE "notRunning"
      BY <1>2, <1>21, <2>2
      DEF ListVms, Saw, QueryFails, machines, Knows, Control
    <3>2. pc[q] \in {"removeClone", "waitClone"} => Subject(q) = stamp[q]
      BY DEF Subject
    <3>3. pc[q] \notin Ended
      BY <3>1 DEF QueryPoints, Ended
    <3>. QED
      BY <3>1, <3>2, <3>3 DEF Departs, HasClone, Offline
  <2>. QED
    BY <2>1, <2>2
<1>22. ASSUME NEW r \in Runs, ShowInfo(r) PROVE Departs(q)
  <2>1. CASE q # r
    BY <1>3, <1>22, <2>1
    DEF ShowInfo, Saw, QueryFails, Continue, Raise, Goto, Knows, Control,
        Choices
  <2>2. CASE q = r
    <3>1. /\ pc' = pc /\ raised' = raised /\ keep' = keep /\ vm' = vm
          /\ command' = command /\ seen[q] = "notRunning"
          /\ seen'[q] \in {"STOPPED", "OTHER"}
      BY <1>2, <1>22, <2>2
      DEF ShowInfo, Saw, QueryFails, machines, Knows, Control
    <3>. QED
      BY <3>1 DEF Departs, HasClone
  <2>. QED
    BY <2>1, <2>2
<1>23. ASSUME NEW r \in Runs, ForwardClone(r) PROVE Departs(q)
  <2>1. CASE q # r
    BY <1>3, <1>23, <2>1
    DEF ForwardClone, VBoxManage, OtherwiseUnchanged, Continue, Raise, Goto,
        Knows, Control, Choices
  <2>2. CASE q = r
    <3>1. /\ vm[stamp[q]].power = "off" /\ pc[q] = "forwardClone"
      BY <1>23, <2>2 DEF ForwardClone, Fits
    <3>2. pc'[q] = "startClone"
      BY <1>2, <1>23, <2>2, <3>1
      DEF ForwardClone, VBoxManage, Continue, Goto, Knows, Control
    <3>. QED
      BY <3>1, <3>2 DEF Departs, HasClone, CloneWork, Ended
  <2>. QED
    BY <2>1, <2>2
<1>24. ASSUME NEW r \in Runs, StartClone(r) PROVE Departs(q)
  <2>1. CASE q # r
    BY <1>3, <1>24, <2>1
    DEF StartClone, VBoxManage, OtherwiseUnchanged, Continue, Raise, Goto,
        Knows, Control, Choices
  <2>2. CASE q = r
    <3>1. vm[stamp[q]].power = "off" /\ HasClone(q) /\ command' = command
      BY <1>24, <2>2
      DEF StartClone, Fits, HasClone, CloneWork, OtherwiseUnchanged
    <3>2. Continue(q, "connect")
      BY <1>2, <1>24, <2>2, <3>1 DEF StartClone, VBoxManage
    <3>. QED
      BY <1>6, <3>1, <3>2 DEF Continue
  <2>. QED
    BY <2>1, <2>2
<1>25. ASSUME NEW r \in Runs, Connect(r) PROVE Departs(q)
  <2>1. CASE q # r
    BY <1>3, <1>25, <2>1
    DEF Connect, Continue, Raise, Goto, Knows, Control, Choices
  <2>2. CASE q = r /\ HasClone(q)
    <3>1. pc[q] = "connect" /\ command[q] = "run"
      BY <1>25, <2>2 DEF Connect, HasClone, CloneWork
    <3>2. /\ command' = command /\ keep' = keep
          /\ Raise(q) \/ Goto(q, "script")
      BY <1>25, <2>2, <3>1 DEF Connect, Continue
    <3>. QED
      BY <1>6, <1>7, <2>2, <3>1, <3>2
  <2>3. CASE q = r /\ ~HasClone(q)
    <3>1. /\ pc[q] = "connect" /\ command[q] = "finalize"
          /\ Raise(q) \/ Goto(q, "install")
      BY <1>1, <1>25, <2>3 DEF Connect, HasClone, Continue
    <3>. QED
      BY <1>4, <1>5, <2>3, <3>1 DEF Goto, Points, Ended
  <2>. QED
    BY <2>1, <2>2, <2>3
<1>26. ASSUME NEW r \in Runs, RunScript(r) PROVE Departs(q)
  <2>1. CASE q # r
    BY <1>3, <1>26, <2>1
    DEF RunScript, Finish, Continue, Raise, Goto, Knows, Control, Choices
  <2>2. CASE q = r
    <3>1. /\ pc[q] = "script" /\ HasClone(q)
          /\ command' = command /\ keep' = keep
      BY <1>26, <2>2 DEF RunScript, HasClone, CloneWork
    <3>2. CASE Raise(q) \/ Continue(q, "removeClone")
      BY <1>6, <1>7, <3>1, <3>2 DEF Continue
    <3>3. CASE keep[q] /\ Finish(q)
      <4>1. pc'[q] \in {"done", "failed"} /\ keep'[q]
        BY <3>1, <3>3 DEF Finish, Continue, Goto, Knows, Control
      <4>. QED
        BY <3>1, <4>1 DEF Departs, Leaves, Ended
    <3>. QED
      BY <1>26, <2>2, <3>2, <3>3 DEF RunScript
  <2>. QED
    BY <2>1, <2>2
<1>27. ASSUME NEW r \in Runs, ChooseRemoval(r) PROVE Departs(q)
  <2>1. CASE q # r
    BY <1>3, <1>27, <2>1
    DEF ChooseRemoval, Finish, Continue, Raise, Goto, Knows, Control, Choices
  <2>2. CASE q = r
    <3>1. /\ pc[q] = "removeClone" /\ seen[q] \in MachineStates
          /\ HasClone(q) /\ command' = command
          /\ seen[q] # "NOT_CREATED"
      BY <1>27, <2>2 DEF ChooseRemoval, HasClone, CloneWork, Fits
    <3>2. CASE Continue(q, "powerOff")
      BY <1>6, <3>1, <3>2 DEF Continue
    <3>3. CASE Continue(q, "unregister") /\ seen[q] # "RUNNING"
      <4>1. pc'[q] = "unregister" /\ seen[q] \in Offline
        BY <3>1, <3>3
        DEF Continue, Goto, Knows, Control, MachineStates, Offline
      <4>. QED
        BY <3>1, <4>1 DEF Departs, HasClone, CloneWork, Ended
    <3>. QED
      BY <1>27, <2>2, <3>1, <3>2, <3>3 DEF ChooseRemoval
  <2>. QED
    BY <2>1, <2>2
<1>28. ASSUME NEW r \in Runs, PowerOff(r) PROVE Departs(q)
  <2>1. CASE q # r
    BY <1>3, <1>28, <2>1
    DEF PowerOff, VBoxManage, OtherwiseUnchanged, Continue, Raise, Goto,
        Knows, Control, Choices
  <2>2. CASE q = r
    <3>1. /\ pc[q] = "powerOff" /\ HasClone(q)
          /\ command' = command /\ keep' = keep
      BY <1>28, <2>2 DEF PowerOff, HasClone, CloneWork, OtherwiseUnchanged
    <3>2. Raise(q) \/ Goto(q, "waitClone")
      BY <1>28, <2>2 DEF PowerOff, VBoxManage, Continue
    <3>. QED
      BY <1>6, <1>7, <3>1, <3>2
  <2>. QED
    BY <2>1, <2>2
<1>29. ASSUME NEW r \in Runs, Unregister(r) PROVE Departs(q)
  <2>1. CASE q # r
    BY <1>3, <1>29, <2>1
    DEF Unregister, VBoxManage, OtherwiseUnchanged, Continue, Raise, Goto,
        Knows, Control, Choices
  <2>2. CASE q = r
    <3>1. pc[q] = "unregister" /\ HasClone(q)
      BY <1>29, <2>2 DEF Unregister, HasClone, CloneWork
    <3>2. vm[stamp[q]].power \in {"off", "aborted"}
      BY <1>1, <3>1 DEF Fits, MachinesOK, VMs, Powers, Online
    <3>3. vm' = [vm EXCEPT ![stamp[q]] = NoVM]
      BY <1>2, <1>29, <2>2, <3>2 DEF Unregister, VBoxManage
    <3>4. vm'[stamp[q]] = NoVM
      BY <1>1, <3>3 DEF MachinesOK
    <3>5. pc'[q] \in {"done", "failed"}
      BY <1>2, <1>29, <2>2, <3>2
      DEF Unregister, VBoxManage, Continue, Goto, Knows, Control
    <3>. QED
      BY <3>1, <3>4, <3>5 DEF Departs, Ended
  <2>. QED
    BY <2>1, <2>2
<1>30. ASSUME NEW r \in Runs, LookAgain(r) PROVE Departs(q)
  <2>1. CASE q # r
    BY <1>3, <1>30, <2>1
    DEF LookAgain, Continue, Raise, Goto, Knows, Control, Choices
  <2>2. CASE q = r /\ pc[q] = "waitBase"
    <3>1. Goto(q, "waitBase") \/ Goto(q, "removeForward")
      BY <1>30, <2>2 DEF LookAgain, Continue
    <3>. QED
      BY <1>4, <2>2, <3>1
      DEF Goto, HasClone, CloneWork, Points, QueryPoints, Ended
  <2>3. CASE q = r /\ pc[q] = "waitClone"
    <3>1. HasClone(q) /\ command' = command /\ seen[q] \in MachineStates
      BY <1>30, <2>3 DEF LookAgain, HasClone, CloneWork
    <3>2. CASE Goto(q, "waitClone")
      BY <1>6, <3>1, <3>2
    <3>3. CASE Goto(q, "unregister") /\ seen[q] # "RUNNING"
      <4>1. pc'[q] = "unregister" /\ seen[q] \in Offline \cup {"NOT_CREATED"}
        BY <3>1, <3>3 DEF Goto, Knows, Control, MachineStates, Offline
      <4>. QED
        BY <2>3, <4>1 DEF Departs, HasClone, CloneWork, Ended
    <3>. QED
      BY <1>30, <2>3, <3>2, <3>3 DEF LookAgain, Continue
  <2>. QED
    BY <1>30, <2>1, <2>2, <2>3 DEF LookAgain
<1>31. ASSUME NEW r \in Runs, TimeOut(r) PROVE Departs(q)
  <2>1. CASE q # r
    BY <1>3, <1>31, <2>1
    DEF TimeOut, Continue, Raise, Goto, Knows, Control, Choices
  <2>2. CASE q = r /\ pc[q] = "waitBase"
    BY <1>5, <1>31, <2>2 DEF TimeOut, HasClone, CloneWork, Ended
  <2>3. CASE q = r /\ pc[q] = "waitClone"
    BY <1>7, <1>31, <2>3 DEF TimeOut, HasClone, CloneWork
  <2>. QED
    BY <1>31, <2>1, <2>2, <2>3 DEF TimeOut
<1>32. ASSUME NEW r \in Runs, Kill(r) PROVE Departs(q)
  <2>1. CASE q # r
    BY <1>3, <1>32, <2>1
    DEF Kill, Continue, Raise, Goto, Knows, Control, Choices
  <2>2. CASE q = r
    <3>1. pc[q] \notin Ended /\ pc'[q] = "killed"
      BY <1>32, <2>2 DEF Kill, Goto, Knows, Control
    <3>. QED
      BY <3>1 DEF Departs, Leaves
  <2>. QED
    BY <2>1, <2>2
<1>33. ASSUME UNCHANGED <<process, saved>> PROVE Departs(q)
  BY <1>3, <1>33 DEF process
<1>. QED
  BY <1>8, <1>9, <1>10, <1>11, <1>12, <1>13, <1>14, <1>15, <1>16, <1>17,
     <1>18, <1>19, <1>20, <1>21, <1>22, <1>23, <1>24, <1>25, <1>26, <1>27,
     <1>28, <1>29, <1>30, <1>31, <1>32, <1>33
  DEF Next, Step, Query, GuestHalts, Abort, InstallationEnds, UserStopsBase,
      vars

RemovedOK ==
  faults = 0 =>
    \A q \in Runs :
      /\ Fits(q)
      /\ \A s \in Seconds :
           vm[s].owner = q => stamp[q] = s /\ (HasClone(q) \/ Leaves(q))

LEMMA RemovedStep ==
  ASSUME Knows, MachinesOK, Rest, Mine, RemovedOK, [Next]_vars
  PROVE  RemovedOK'
<1> SUFFICES ASSUME faults' = 0, NEW q \in Runs
             PROVE  /\ Fits(q)'
                    /\ \A s \in Seconds :
                         vm'[s].owner = q =>
                           stamp'[q] = s /\ (HasClone(q)' \/ Leaves(q)')
  BY DEF RemovedOK
<1>1. faults = 0
  BY RestKeeps, BoundsAssumption
  DEF Rest, RestKept, Succeeds, Fails
<1>2. Fits(q) /\ Departs(q) /\ Advances(q) /\ Has(q, pc[q])
  BY <1>1, DepartStep, RunStep DEF RemovedOK, Knows, Place
<1>3. stamp[q] # 0 => stamp'[q] = stamp[q]
  BY <1>2 DEF Advances, Chooses
<1>4. HasClone(q) => stamp[q] \in Seconds /\ stamp[q] # 0
  BY <1>2, BoundsAssumption DEF HasClone, CloneWork, Has, PlaceAt, Seconds
\* What may become of the power of the clone of this run.
<1>5. ASSUME HasClone(q), HasClone(q)'
      PROVE  \/ vm'[stamp[q]].power = vm[stamp[q]].power
             \/ /\ vm[stamp[q]].power \in Online
                /\ vm'[stamp[q]].power # "absent"
             \/ /\ pc[q] = "startClone" /\ pc'[q] = "connect"
                /\ vm'[stamp[q]].power = "on"
  <2>1. Powering(stamp[q]) /\ vm[stamp[q]].owner = q
    BY <1>4, <1>5, PowerStep DEF Mine
  <2>2. ASSUME NEW r \in Runs, Made(stamp[q], r) PROVE FALSE
    BY <2>1, <2>2, NoRunAssumption DEF Made, NoVM
  <2>3. ASSUME NEW r \in Runs, HasClone(r), stamp[r] = stamp[q] PROVE r = q
    BY <2>1, <2>3 DEF Mine
  <2>4. ASSUME NEW r \in Runs, Removed(stamp[q], r) PROVE FALSE
    BY <1>5, <2>3, <2>4 DEF Removed, HasClone, CloneWork, Ended
  <2>5. ASSUME NEW r \in Runs, pc[r] = "startClone", stamp[r] = stamp[q]
        PROVE  r = q
    BY <2>3, <2>5 DEF HasClone, CloneWork
  <2>. QED
    BY <2>1, <2>2, <2>4, <2>5 DEF Powering
<1>6. Fits(q)'
  <2>1. CASE ~HasClone(q)'
    BY <2>1 DEF Fits, HasClone, CloneWork
  <2>2. CASE HasClone(q)' /\ ~HasClone(q)
    <3>1. Enters(q) /\ stamp'[q] = stamp[q]
      BY <1>2, <2>2 DEF Advances, StaysIn
    <3>2. /\ pc'[q] # "unregister"
          /\ pc'[q] \in {"removeClone", "waitClone"} => seen'[q] = "unasked"
      BY <1>2, <3>1 DEF Enters, Departs
    <3>. QED
      BY <3>1, <3>2 DEF Fits, Enters, Offline, Online
  <2>3. CASE HasClone(q)' /\ HasClone(q)
    <3>1. stamp'[q] = stamp[q]
      BY <1>3, <1>4, <2>3
    <3>2. vm'[stamp[q]].power # "absent"
      BY <1>2, <1>5, <2>3 DEF Fits
    <3>3. pc'[q] \in {"forwardClone", "startClone"} =>
            vm'[stamp[q]].power = "off"
      BY <1>2, <1>5, <2>3 DEF Fits, Departs, HasClone, CloneWork, Online
    <3>4. pc'[q] \in {"removeClone", "waitClone"} =>
            /\ seen'[q] # "NOT_CREATED"
            /\ seen'[q] \in Offline => vm'[stamp[q]].power \notin Online
      <4> SUFFICES ASSUME pc'[q] \in {"removeClone", "waitClone"}
                   PROVE  /\ seen'[q] # "NOT_CREATED"
                          /\ seen'[q] \in Offline =>
                               vm'[stamp[q]].power \notin Online
        OBVIOUS
      <4>1. CASE seen'[q] = "unasked"
        BY <4>1 DEF Offline
      <4>2. CASE pc'[q] = pc[q] /\ seen'[q] = seen[q]
        BY <1>2, <1>5, <2>3, <4>2 DEF Fits
      <4>3. CASE /\ pc'[q] = pc[q] /\ vm' = vm
                 /\ seen'[q] = "NOT_CREATED" => vm[stamp[q]].power = "absent"
                 /\ seen'[q] \in Offline =>
                      \/ vm[stamp[q]].power \notin Online
                      \/ seen[q] = "notRunning"
        BY <1>2, <2>3, <4>3 DEF Fits, Offline
      <4>. QED
        BY <1>2, <4>1, <4>2, <4>3 DEF Departs
    <3>5. pc'[q] = "unregister" => vm'[stamp[q]].power \notin Online
      BY <1>2, <1>5, <2>3 DEF Fits, Departs
    <3>. QED
      BY <3>1, <3>2, <3>3, <3>4, <3>5 DEF Fits
  <2>. QED
    BY <2>1, <2>2, <2>3
<1>7. ASSUME NEW s \in Seconds, vm'[s].owner = q
      PROVE  stamp'[q] = s /\ (HasClone(q)' \/ Leaves(q)')
  <2>1. s \in Names /\ s # Base /\ s # 0
    BY BoundsAssumption DEF Names, Seconds, Base
  <2>2. Touched(s)
    BY <2>1, TouchStep
  <2>3. CASE \E r \in Runs : Made(s, r)
    BY <1>7, <2>3 DEF Made, HasClone, CloneWork
  <2>4. vm'[s] # NoVM
    BY <1>7, NoRunAssumption DEF NoVM
  <2>5. CASE vm[s].owner = q
    <3>1. stamp[q] = s /\ (HasClone(q) \/ Leaves(q))
      BY <1>1, <2>5 DEF RemovedOK
    <3>2. stamp'[q] = s
      BY <1>3, <2>1, <3>1
    <3>3. CASE HasClone(q)
      BY <1>2, <2>4, <3>1, <3>2, <3>3 DEF Departs
    <3>4. CASE Leaves(q)
      BY <1>2, <3>2, <3>4 DEF Leaves, Departs, Ended
    <3>. QED
      BY <3>1, <3>3, <3>4
  <2>. QED
    BY <1>7, <2>1, <2>2, <2>3, <2>4, <2>5
    DEF Touched, Kept, Removed, Forwarded, Opened
<1>. QED
  BY <1>6, <1>7
-----------------------------------------------------------------------------
LEMMA InitTypes ==
  Init => Knows /\ MachinesOK /\ Listening /\ Rest /\ Mine
<1> SUFFICES ASSUME Init PROVE Knows /\ MachinesOK /\ Listening /\ Rest /\ Mine
  OBVIOUS
<1>1. command \in [Runs -> {"run", "finalize"}]
  BY CommandsAssumption DEF Init
<1>2. Base \in Names /\ NoName \notin Names /\ 0 \in Names
  BY BoundsAssumption DEF Names, Seconds, Base, NoName
<1>3. Control
  BY DEF Init, Control, Points, QueryPoints, Seen
<1>4. Choices
  BY <1>1, <1>2 DEF Init, Choices, SomePort, NoPort
<1>5. ASSUME NEW r \in Runs PROVE Has(r, pc[r])
  BY <1>1 DEF Init, Has, PlaceAt, CloneWork
<1>6. MachinesOK
  <2>1. PICK b \in Bases : vm = [n \in Names |-> IF n = Base THEN b ELSE NoVM]
    BY DEF Init
  <2>2. b \in VMs
    BY <2>1, BasesAssumption
  <2>. QED
    BY <2>1, <2>2, NoVMType DEF Init, MachinesOK
<1>7. Listening
  BY <1>2 DEF Init, Listening
<1>8. Rest
  <2>1. keep \in [Runs -> BOOLEAN] /\ command \in Commands
    BY DEF Init
  <2>2. saved \in [Seconds -> Runs \cup {NoRun}]
    BY DEF Init
  <2>3. faults \in 0..MaxFaults
    <3>1. faults = 0
      BY DEF Init
    <3>. QED
      BY <3>1, BoundsAssumption
  <2>. QED
    BY <2>1, <2>2, <2>3 DEF Rest
<1>9. Mine
  BY <1>1 DEF Init, Mine, HasClone, CloneWork
<1>. QED
  BY <1>3, <1>4, <1>5, <1>6, <1>7, <1>8, <1>9 DEF Knows, Place

IInv == Knows /\ MachinesOK /\ Listening /\ Rest /\ Mine

LEMMA IInvStep == IInv /\ [Next]_vars => IInv'
  BY KnowsStep, MachinesStep, RestStep, MineStep DEF IInv, Knows

LEMMA Invariance == Spec => []IInv
<1>1. Init => IInv
  BY InitTypes DEF IInv
<1>. QED
  BY <1>1, IInvStep, PTL DEF Spec

\* Every variable keeps its type, and a host port is listened on only by a
\* machine that is online and has a rule for it (virtual_machine_factory.py:
\* the commands that start, stop and forward).
THEOREM TypeCorrect == Spec => []TypeOK
<1>1. IInv => TypeOK
  <2> SUFFICES ASSUME IInv PROVE TypeOK
    OBVIOUS
  <2>1. Names = 0..MaxSecond
    BY BoundsAssumption DEF Names, Seconds, Base
  <2>2. ASSUME NEW p \in Ports, bound[p] # NoName
        PROVE  vm[bound[p]].power \in Online /\ p \in Rules(bound[p])
    BY <2>2 DEF IInv, MachinesOK, Listening
  <2>3. /\ vm \in [Names -> VMs]
        /\ bound \in [Ports -> Names \cup {NoName}]
    BY DEF IInv, MachinesOK
  <2>4. /\ pc \in [Runs -> Points]
        /\ seen \in [Runs -> Seen]
        /\ raised \in [Runs -> Points \cup {""}]
    BY DEF IInv, Knows, Control
  <2>5. /\ stamp \in [Runs -> 0..MaxSecond]
        /\ port \in [Runs -> SomePort]
        /\ session \in [Runs -> Names \cup {NoName}]
    BY <2>1 DEF IInv, Knows, Choices
  <2>6. /\ command \in Commands
        /\ keep \in [Runs -> BOOLEAN]
        /\ saved \in [Seconds -> Runs \cup {NoRun}]
        /\ faults \in 0..MaxFaults
    BY DEF IInv, Rest
  <2>. QED
    BY <2>2, <2>3, <2>4, <2>5, <2>6 DEF TypeOK
<1>. QED
  BY <1>1, Invariance, PTL

\* A clone disappears only by the removal of the run that cloned it, also when
\* another run of the same second was refused the name (clonevm stays outside
\* the try of _clone_and_start_run_vm).
THEOREM OnlyOwnersRemove == Spec => OnlyOwnerRemoves
<1> DEFINE Removal ==
      \A s \in Seconds :
        vm[s] # NoVM /\ vm'[s] = NoVM =>
          /\ pc[vm[s].owner] = "unregister" /\ stamp[vm[s].owner] = s
          /\ pc'[vm[s].owner] \in Ended
<1>1. IInv /\ [Next]_vars => Removal
  <2> SUFFICES ASSUME IInv, [Next]_vars, NEW s \in Seconds,
                      vm[s] # NoVM, vm'[s] = NoVM
               PROVE  /\ pc[vm[s].owner] = "unregister"
                      /\ stamp[vm[s].owner] = s
                      /\ pc'[vm[s].owner] \in Ended
    OBVIOUS
  <2>1. s \in Names /\ s # Base
    BY DEF Names, Seconds, Base
  <2>2. Touched(s)
    BY <2>1, TouchStep DEF IInv
  <2>3. PICK r \in Runs : Removed(s, r)
    BY <2>1, <2>2 DEF Touched, Kept, Made, Forwarded, Opened
  <2>4. vm[s].owner = r
    BY <2>3 DEF IInv, Mine, HasClone, CloneWork, Removed
  <2>. QED
    BY <2>3, <2>4 DEF Removed
<1>2. Removal => [Removal]_vars
  OBVIOUS
<1>. QED
  BY <1>1, Invariance, PTL DEF Spec, OnlyOwnerRemoves

\* The bases may be machines without forwards: no finalization was killed
\* before, and nobody forwarded a port of the base by hand.
NoRules == \A b \in Bases : b.baseRule = NoPort /\ b.ownRule = NoPort

\* Where the base starts without forwards, the script or agent of a run works
\* in the run's own clone, although clones inherit the base's temporary forward
\* (_wait_for_ssh connects to a port of the host, not to a machine).
THEOREM SessionsAreOwn == NoRules => (Spec => []SessionIsOwn)
<1> SUFFICES ASSUME NoRules PROVE Spec => []SessionIsOwn
  OBVIOUS
<1>1. Init => RuleOK /\ SessionIsOwn
  <2> SUFFICES ASSUME Init PROVE RuleOK /\ SessionIsOwn
    OBVIOUS
  <2>1. PICK b \in Bases : vm = [n \in Names |-> IF n = Base THEN b ELSE NoVM]
    BY DEF Init
  <2>2. \A n \in Names : vm[n].baseRule = NoPort /\ vm[n].ownRule = NoPort
    BY <2>1 DEF NoRules, NoVM
  <2>3. Base \in Names
    BY DEF Names
  <2>4. RuleOK
    BY <2>2, <2>3 DEF RuleOK
  <2>5. SessionIsOwn
    BY DEF Init, SessionIsOwn, Finalizers
  <2>. QED
    BY <2>4, <2>5
<1>2. IInv /\ RuleOK /\ SessionIsOwn /\ [Next]_vars
        => (RuleOK /\ SessionIsOwn)'
  BY RuleStep, SessionStep DEF IInv
<1>. QED
  BY <1>1, <1>2, Invariance, PTL DEF Spec

\* A run of a second of its own that ended well saved its results, and with
\* --keep-vm its clone is still there with its forward (_setup_clone_if_started
\* and the finally that removes the clone).
THEOREM ClonesKept == Spec => []KeptForInspection
<1>1. Init => KeptOK
  BY DEF Init, KeptOK, Removing, Holds
<1>2. IInv /\ KeptOK /\ [Next]_vars => KeptOK'
  BY KeptStep DEF IInv
<1>3. KeptOK => KeptForInspection
  BY DEF KeptOK, KeptForInspection
<1>. QED
  BY <1>1, <1>2, <1>3, Invariance, PTL DEF Spec

\* A run that ended by itself without --keep-vm left no clone while no command
\* and no machine failed by itself, except a clone that it could not power off
\* or that did not stop in time (stop_and_remove_vm_clone in the finally), also
\* when runs share a second.
THEOREM RunsLeaveNoClone == Spec => []ClonesRemoved
<1>1. Init => RemovedOK
  <2> SUFFICES ASSUME Init PROVE RemovedOK
    OBVIOUS
  <2>1. ASSUME NEW q \in Runs PROVE Fits(q)
    BY DEF Init, Fits, HasClone, CloneWork
  <2>2. ASSUME NEW s \in Seconds PROVE vm[s].owner = NoRun
    <3>1. s \in Names /\ s # Base
      BY BoundsAssumption DEF Names, Seconds, Base
    <3>2. vm[s] = NoVM
      BY <3>1 DEF Init
    <3>. QED
      BY <3>2 DEF NoVM
  <2>. QED
    BY <2>1, <2>2, NoRunAssumption DEF RemovedOK
<1>2. IInv /\ RemovedOK /\ [Next]_vars => RemovedOK'
  BY RemovedStep DEF IInv
<1>3. RemovedOK => ClonesRemoved
  BY DEF RemovedOK, ClonesRemoved, Leaves, HasClone, CloneWork
<1>. QED
  BY <1>1, <1>2, <1>3, Invariance, PTL DEF Spec
-----------------------------------------------------------------------------
(***************************************************************************)
(* What finalizations leave of the base, while nothing fails by itself.    *)
(***************************************************************************)

\* A finalization that has added its forward and seen to it that the base is
\* online, and a run that creates the base.
Upgrading == {"connect", "install", "shutdown", "waitBase", "removeForward"}
Creating == {"modifyBase", "createDisk", "addController", "attachDisk",
             "installBase"}

\* What NoForwardLeft excepts: the process was killed, the base was started by
\* another run, or it would not be shut down in time.
Exceptions == {"startBase", "shutdown", "waitBase"}
Excepted(r) == pc[r] = "killed" \/ raised[r] \in Exceptions

\* A look at the base that tells what the base still is.
Fresh(r) ==
  seen[r] # "unasked" => (seen[r] = "RUNNING" <=> vm[Base].power \in Online)

\* This finalization is still going to remove the forward of the base.
Answers(r) ==
  \/ pc[r] \in {"startBase", "connect", "install", "shutdown", "waitBase"}
  \/ pc[r] = "removeForward" /\ Fresh(r)
  \/ Excepted(r)

\* This one waits for the base to stop, and has not seen it stopped yet.
Watches(r) ==
  \/ pc[r] = "waitBase" /\ seen[r] \in {"unasked", "RUNNING"}
  \/ Excepted(r)

\* This one has seen the base stopped.
SeesOff(r) ==
  \/ pc[r] = "waitBase" /\ seen[r] \notin {"unasked", "RUNNING"}
  \/ pc[r] = "removeForward" /\ raised[r] = ""
  \/ pc[r] = "done"

\* The base may be a machine without that forward: no finalization was killed
\* before, or a later one removed what it left.
NoBaseRules == \A b \in Bases : b.baseRule = NoPort

RuleIsAnswered ==
  NoBaseRules /\ vm[Base].baseRule # NoPort => \E r \in Finalizers : Answers(r)
HaltIsWatched ==
  vm[Base].power = "halting" => \E r \in Finalizers : Watches(r)
StaysOff ==
  \A r \in Finalizers :
    Finalizers = {r} /\ SeesOff(r) => vm[Base].power = "off"

\* The base is upgraded before it is halted, and does not abort.
BaseIsWell ==
  /\ vm[Base].power # "aborted"
  /\ vm[Base].power = "halting" => vm[Base].disk = "ready"
  /\ vm[Base].power = "absent" => vm[Base].disk = "none"
OneCreator ==
  \A r, q \in Runs : pc[r] \in Creating /\ pc[q] \in Creating => r = q

\* What a run with command c at point a, that saw s, raised e and has a session
\* with n, has to do with a base of power w and disk d.
Deals(c, a, s, e, n, w, d) ==
  /\ a \in Creating => d \in {"none", "empty"} /\ w \in {"off", "on"}
  /\ d \in {"none", "empty"} => n # Base
  /\ w = "absent" => a \notin Creating
  /\ c = "finalize" =>
       /\ a \notin Creating \cup {"createVm"}
       /\ w = "absent" => /\ a \in {"finalize", "refused", "failed", "killed"}
                          /\ s \in {"unasked", "NOT_CREATED"}
       /\ e \in Exceptions => a \in {"removeForward"} \cup Ended
       /\ a \in Upgrading => d = "ready" \/ w = "on"
       /\ n = Base /\ a = "shutdown" => d = "ready"
       /\ a = "waitBase" /\ s \notin {"unasked", "RUNNING"} => d = "ready"
       /\ a = "removeForward" /\ e = "" => d = "ready"
       /\ a = "done" => d = "ready"

RunIsWell(r) == Deals(command[r], pc[r], seen[r], raised[r], session[r],
                      vm[Base].power, vm[Base].disk)

Finalizing ==
  /\ BaseIsWell /\ OneCreator /\ StaysOff /\ RuleIsAnswered /\ HaltIsWatched
  /\ \A r \in Runs : RunIsWell(r)

\* How the base changes, and what a run that does nothing then keeps.
LEMMA DealsCreated ==
  ASSUME NEW c, NEW a, NEW s, NEW e, NEW n,
         Deals(c, a, s, e, n, "absent", "none")
  PROVE  Deals(c, a, s, e, n, "off", "none")
  BY DEF Deals, Creating, Upgrading

LEMMA DealsPrepared ==
  ASSUME NEW c, NEW a, NEW s, NEW e, NEW n, NEW d \in {"none", "empty"},
         Deals(c, a, s, e, n, "off", d)
  PROVE  Deals(c, a, s, e, n, "off", "empty")
  BY DEF Deals, Creating, Upgrading

LEMMA DealsInstalling ==
  ASSUME NEW c, NEW a, NEW s, NEW e, NEW n, NEW d \in {"none", "empty"},
         Deals(c, a, s, e, n, "off", d), a \notin Creating
  PROVE  Deals(c, a, s, e, n, "on", "installing")
  BY DEF Deals, Creating, Upgrading

LEMMA DealsStarted ==
  ASSUME NEW c, NEW a, NEW s, NEW e, NEW n, NEW d,
         Deals(c, a, s, e, n, "off", d)
  PROVE  Deals(c, a, s, e, n, "on", d)
  BY DEF Deals

LEMMA DealsUpgraded ==
  ASSUME NEW c, NEW a, NEW s, NEW e, NEW n, NEW d,
         Deals(c, a, s, e, n, "on", d), d \notin {"none", "empty"}
  PROVE  Deals(c, a, s, e, n, "on", "ready")
  BY DEF Deals

LEMMA DealsHalting ==
  ASSUME NEW c, NEW a, NEW s, NEW e, NEW n,
         Deals(c, a, s, e, n, "on", "ready")
  PROVE  Deals(c, a, s, e, n, "halting", "ready")
  BY DEF Deals

LEMMA DealsHalted ==
  ASSUME NEW c, NEW a, NEW s, NEW e, NEW n,
         Deals(c, a, s, e, n, "halting", "ready")
  PROVE  Deals(c, a, s, e, n, "off", "ready")
  BY DEF Deals

LEMMA DealsInstalled ==
  ASSUME NEW c, NEW a, NEW s, NEW e, NEW n,
         Deals(c, a, s, e, n, "on", "installing")
  PROVE  Deals(c, a, s, e, n, "on", "installed")
  BY DEF Deals

LEMMA DealsStopped ==
  ASSUME NEW c, NEW a, NEW s, NEW e, NEW n,
         Deals(c, a, s, e, n, "on", "installed"),
         c = "finalize" => a \notin Upgrading
  PROVE  Deals(c, a, s, e, n, "off", "installed")
  BY DEF Deals, Upgrading

\* A step of one run, that leaves what the others know alone.
Others(r) ==
  /\ command' = command
  /\ \A q \in Runs \ {r} :
       /\ pc'[q] = pc[q] /\ seen'[q] = seen[q] /\ raised'[q] = raised[q]
       /\ session'[q] = session[q]

\* The base is as it was, its forward included or not.
Settled ==
  vm'[Base].power = vm[Base].power /\ vm'[Base].disk = vm[Base].disk
BaseStays == Settled /\ vm'[Base].baseRule = vm[Base].baseRule

LEMMA WhoFinalizes ==
  ASSUME command' = command
  PROVE  Finalizers' = Finalizers
  BY DEF Finalizers

\* What a run that does nothing is, while the base is as it was.
LEMMA OthersStay ==
  ASSUME NEW r \in Runs, NEW q \in Runs, q # r, Finalizing, Others(r), Settled
  PROVE  /\ RunIsWell(q)'
         /\ Answers(q)' <=> Answers(q)
         /\ Watches(q)' <=> Watches(q)
         /\ SeesOff(q)' <=> SeesOff(q)
         /\ pc'[q] = pc[q]
<1>1. /\ pc'[q] = pc[q] /\ seen'[q] = seen[q] /\ raised'[q] = raised[q]
      /\ session'[q] = session[q] /\ command'[q] = command[q]
  BY DEF Others
<1>2. RunIsWell(q)
  BY DEF Finalizing
<1>3. RunIsWell(q)'
  BY <1>1, <1>2 DEF RunIsWell, Settled
<1>. QED
  BY <1>1, <1>3 DEF Answers, Watches, SeesOff, Excepted, Fresh, Settled

\* What every step of a run has to show when it leaves the base as it is, but
\* for the forward.
LEMMA StepForwards ==
  ASSUME NEW r \in Runs, Finalizing, Others(r), Settled, RunIsWell(r)',
         pc'[r] \in Creating => pc[r] \in Creating,
         r \in Finalizers =>
           /\ vm[Base].power = "halting" /\ Watches(r) => Watches(r)'
           /\ SeesOff(r)' => SeesOff(r) \/ vm[Base].power = "off",
         RuleIsAnswered'
  PROVE  Finalizing'
<1>1. Finalizers' = Finalizers
  BY WhoFinalizes DEF Others
<1>2. ASSUME NEW q \in Runs, q # r
      PROVE  /\ RunIsWell(q)'
             /\ Watches(q)' <=> Watches(q)
             /\ SeesOff(q)' <=> SeesOff(q)
             /\ pc'[q] = pc[q]
  BY <1>2, OthersStay
<1>3. BaseIsWell'
  BY DEF Finalizing, BaseIsWell, Settled
<1>4. OneCreator'
  BY <1>2 DEF Finalizing, OneCreator
<1>5. StaysOff'
  <2> SUFFICES ASSUME NEW q \in Finalizers, Finalizers = {q}, SeesOff(q)'
               PROVE  vm[Base].power = "off"
    BY <1>1 DEF StaysOff, Settled
  <2>1. q \in Runs
    BY DEF Finalizers
  <2>2. SeesOff(q) \/ vm[Base].power = "off"
    BY <1>2, <2>1
  <2>. QED
    BY <2>2 DEF Finalizing, StaysOff
<1>6. HaltIsWatched'
  <2> SUFFICES ASSUME vm[Base].power = "halting"
               PROVE  \E q \in Finalizers : Watches(q)'
    BY <1>1 DEF HaltIsWatched, Settled
  <2>1. PICK q \in Finalizers : Watches(q)
    BY DEF Finalizing, HaltIsWatched
  <2>. QED
    BY <1>2, <2>1 DEF Finalizers
<1>7. ASSUME NEW q \in Runs PROVE RunIsWell(q)'
  BY <1>2
<1>. QED
  BY <1>3, <1>4, <1>5, <1>6, <1>7 DEF Finalizing

\* And when it leaves the forward alone too.
LEMMA StepAside ==
  ASSUME NEW r \in Runs, Finalizing, Others(r), BaseStays, RunIsWell(r)',
         pc'[r] \in Creating => pc[r] \in Creating,
         r \in Finalizers =>
           /\ Answers(r) => Answers(r)'
           /\ vm[Base].power = "halting" /\ Watches(r) => Watches(r)'
           /\ SeesOff(r)' => SeesOff(r) \/ vm[Base].power = "off"
  PROVE  Finalizing'
<1>1. Finalizers' = Finalizers /\ Settled
  BY WhoFinalizes DEF Others, BaseStays
<1>2. RuleIsAnswered'
  <2> SUFFICES ASSUME NoBaseRules, vm[Base].baseRule # NoPort
               PROVE  \E q \in Finalizers : Answers(q)'
    BY <1>1 DEF RuleIsAnswered, BaseStays
  <2>1. PICK q \in Finalizers : Answers(q)
    BY DEF Finalizing, RuleIsAnswered
  <2>. QED
    BY <1>1, <2>1, OthersStay DEF Finalizers
<1>. QED
  BY <1>1, <1>2, StepForwards

\* A run that does not finalize, and does not create the base.
LEMMA WorkAside ==
  ASSUME NEW r \in Runs, r \notin Finalizers, Finalizing, Others(r), BaseStays,
         pc'[r] \notin Creating,
         \/ session'[r] = session[r]
         \/ session'[r] # Base
         \/ vm[Base].disk \notin {"none", "empty"}
  PROVE  Finalizing'
<1>1. command'[r] = command[r] /\ command[r] # "finalize"
  BY DEF Others, Finalizers
<1>2. RunIsWell(r)
  BY DEF Finalizing
<1>3. RunIsWell(r)'
  BY <1>1, <1>2 DEF RunIsWell, Deals, BaseStays, Settled
<1>. QED
  BY <1>3, StepAside
-----------------------------------------------------------------------------
LEMMA NotFailed == ASSUME Rest, faults' = 0 PROVE ~Fails
  BY BoundsAssumption DEF Rest, Fails

LEMMA RunFacts ==
  ASSUME Knows, NEW r \in Runs
  PROVE  /\ Has(r, pc[r])
         /\ command[r] \in {"run", "finalize"}
         /\ r \in Finalizers <=> command[r] = "finalize"
  BY DEF Knows, Place, Choices, Finalizers

\* Where a run goes, and that it goes alone.
LEMMA Goes ==
  ASSUME Knows, NEW r \in Runs, NEW b, Goto(r, b)
  PROVE  /\ pc'[r] = b /\ seen'[r] = "unasked"
         /\ \A q \in Runs \ {r} : pc'[q] = pc[q] /\ seen'[q] = seen[q]
  BY DEF Knows, Control, Goto

LEMMA GoesAlone ==
  ASSUME Knows, NEW r \in Runs, NEW b, Goto(r, b),
         \/ UNCHANGED raised
         \/ \E e : raised' = [raised EXCEPT ![r] = e],
         \/ UNCHANGED session
         \/ \E n : session' = [session EXCEPT ![r] = n],
         command' = command
  PROVE  Others(r)
<1>1. \A q \in Runs \ {r} : raised'[q] = raised[q]
  BY DEF Knows, Control
<1>2. \A q \in Runs \ {r} : session'[q] = session[q]
  BY DEF Knows, Choices
<1>. QED
  BY <1>1, <1>2, Goes DEF Others

LEMMA Raising ==
  ASSUME Knows, NEW r \in Runs, Raise(r)
  PROVE  /\ raised'[r] = pc[r] /\ seen'[r] = "unasked"
         /\ command[r] # "finalize" => pc'[r] \in {"removeClone", "failed"}
         /\ command[r] = "finalize" =>
              IF pc[r] \in {"connect", "install", "shutdown", "waitBase"}
              THEN pc'[r] = "removeForward" ELSE pc'[r] = "failed"
  BY Goes DEF Raise, Knows, Control

LEMMA RaisesAlone ==
  ASSUME Knows, NEW r \in Runs, Raise(r), command' = command,
         \/ UNCHANGED session
         \/ \E n : session' = [session EXCEPT ![r] = n]
  PROVE  Others(r)
  BY GoesAlone DEF Raise

LEMMA FinishesAlone ==
  ASSUME Knows, NEW r \in Runs, Finish(r), UNCHANGED <<command, session>>
  PROVE  /\ Others(r) /\ raised'[r] = raised[r] /\ seen'[r] = "unasked"
         /\ pc'[r] = IF raised[r] = "" THEN "done" ELSE "failed"
  BY GoesAlone, Goes DEF Finish, Continue

\* A machine that is not the base does not change the base.
LEMMA CloneIsNotBase ==
  ASSUME Knows, MachinesOK, NEW r \in Runs, stamp[r] \in Seconds,
         \/ vm' = vm
         \/ \E m : vm' = [vm EXCEPT ![stamp[r]] = m]
  PROVE  BaseStays
<1>1. stamp[r] # Base /\ Base \in Names
  BY BoundsAssumption DEF Seconds, Base, Names
<1>2. vm'[Base] = vm[Base]
  BY <1>1 DEF MachinesOK
<1>. QED
  BY <1>2 DEF BaseStays, Settled

\* What a run does to make a clone, to use it and to remove it.
Clones(r) ==
  \/ ChooseByState(r) \/ NameClone(r) \/ CloneVm(r) \/ ForwardClone(r)
  \/ StartClone(r) \/ RunScript(r) \/ ChooseRemoval(r) \/ PowerOff(r)
  \/ Unregister(r)

LEMMA ClonesAside ==
  ASSUME Knows, MachinesOK, Finalizing, NEW r \in Runs, Clones(r)
  PROVE  Finalizing'
<1>1. /\ pc[r] \in {"create", "clone", "cloneVm"} \cup CloneWork
      /\ UNCHANGED <<command, session>>
  BY DEF Clones, ChooseByState, NameClone, CloneVm, ForwardClone, StartClone,
         RunScript, ChooseRemoval, PowerOff, Unregister, OtherwiseUnchanged,
         CloneWork
<1>2. command[r] = "run" /\ r \notin Finalizers
  BY <1>1, RunFacts DEF Has, PlaceAt
<1>3. \/ Raise(r) \/ Finish(r)
      \/ \E b \in {"refused", "createVm", "done", "failed", "clone",
                   "cloneVm", "forwardClone", "startClone", "connect",
                   "removeClone", "powerOff", "unregister", "waitClone"} :
           Continue(r, b)
  BY DEF Clones, ChooseByState, NameClone, CloneVm, ForwardClone, StartClone,
         RunScript, ChooseRemoval, PowerOff, Unregister, VBoxManage
<1>4. Others(r) /\ pc'[r] \notin Creating
  <2>1. CASE Raise(r)
    BY <1>1, <1>2, <2>1, Raising, RaisesAlone DEF Creating
  <2>2. CASE Finish(r)
    BY <1>1, <2>2, FinishesAlone DEF Creating
  <2>3. ASSUME NEW b \in {"refused", "createVm", "done", "failed", "clone",
                   "cloneVm", "forwardClone", "startClone", "connect",
                   "removeClone", "powerOff", "unregister", "waitClone"},
               Continue(r, b)
        PROVE  Others(r) /\ pc'[r] \notin Creating
    BY <1>1, <2>3, Goes, GoesAlone DEF Continue, Creating
  <2>. QED
    BY <1>3, <2>1, <2>2, <2>3
<1>5. BaseStays
  <2>1. CASE vm' = vm
    BY <2>1 DEF BaseStays, Settled
  <2>2. CASE vm' # vm
    <3>1. pc[r] \in {"cloneVm"} \cup CloneWork
      BY <2>2 DEF Clones, ChooseByState, NameClone, CloneVm, ForwardClone,
           StartClone, RunScript, ChooseRemoval, PowerOff, Unregister,
           CloneWork, machines
    <3>2. stamp[r] \in Seconds
      BY <3>1, RunFacts DEF Has, PlaceAt
    <3>3. CASE CloneVm(r)
      BY <2>2, <3>2, <3>3, CloneIsNotBase DEF CloneVm, VBoxManage, machines
    <3>4. CASE ForwardClone(r) \/ StartClone(r) \/ PowerOff(r)
      <4>1. \/ vm' = [vm EXCEPT ![stamp[r]].ownRule = port[r]]
            \/ vm' = [vm EXCEPT ![stamp[r]].power = "on"]
            \/ vm' = [vm EXCEPT ![stamp[r]].power = "halting"]
        BY <2>2, <3>4
        DEF ForwardClone, StartClone, PowerOff, VBoxManage, machines
      <4>. QED
        BY <3>2, <4>1, CloneIsNotBase
    <3>5. CASE Unregister(r)
      BY <2>2, <3>2, <3>5, CloneIsNotBase DEF Unregister, VBoxManage, machines
    <3>. QED
      BY <2>2, <3>3, <3>4, <3>5
      DEF Clones, ChooseByState, NameClone, RunScript, ChooseRemoval, machines
  <2>. QED
    BY <2>1, <2>2
<1>. QED
  BY <1>1, <1>2, <1>4, <1>5, WorkAside

\* What a finalization is while it stands at one of its points.
LEMMA FinalizerFacts ==
  ASSUME Knows, Finalizing, NEW r \in Runs
  PROVE  /\ RunIsWell(r)
         /\ raised[r] \in Exceptions /\ r \in Finalizers =>
              pc[r] \in {"removeForward"} \cup Ended
  BY RunFacts DEF Finalizing, RunIsWell, Deals

LEMMA BaseFacts ==
  ASSUME MachinesOK
  PROVE  /\ Base \in Names /\ vm[Base] \in VMs
         /\ vm[Base].power \in Powers /\ vm[Base].disk \in Disks
  BY DEF MachinesOK, Names, VMs

\* A look at the base: it is what it is.
LEMMA QueryAside ==
  ASSUME Knows, MachinesOK, Rest, Finalizing, NEW r \in Runs, faults' = 0,
         Query(r)
  PROVE  Finalizing'
<1>1. UNCHANGED <<command, session, machines>>
  BY DEF Query, ListVms, ShowInfo
<1>2. /\ UNCHANGED <<pc, raised>>
      /\ \A q \in Runs \ {r} : seen'[q] = seen[q]
  BY NotFailed DEF Query, ListVms, ShowInfo, QueryFails, Saw, Knows, Control
<1>3. Others(r) /\ BaseStays
  BY <1>1, <1>2 DEF Others, BaseStays, Settled, machines
<1>4. RunIsWell(r) /\ Has(r, pc[r])
  BY RunFacts, FinalizerFacts
<1>5. CASE r \notin Finalizers
  <2>1. RunIsWell(r)'
    BY <1>1, <1>2, <1>4, <1>5, RunFacts DEF RunIsWell, Deals, machines
  <2>. QED
    BY <1>2, <1>3, <1>5, <2>1, StepAside
<1>6. CASE r \in Finalizers /\ seen[r] = "unasked"
  <2>1. /\ pc[r] \in QueryPoints
        /\ LET power == vm[Subject(r)].power
           IN  Saw(r, IF power = "absent" THEN "NOT_CREATED"
                      ELSE IF power \in Online THEN "RUNNING"
                      ELSE "notRunning")
    BY <1>6, NotFailed DEF Query, ListVms, ShowInfo, QueryFails
  <2>2. Subject(r) = Base
    BY <1>4, <1>6, RunFacts DEF Subject, Has, PlaceAt, CloneWork
  <2>3. seen'[r] = IF vm[Base].power = "absent" THEN "NOT_CREATED"
                   ELSE IF vm[Base].power \in Online THEN "RUNNING"
                   ELSE "notRunning"
    BY <2>1, <2>2 DEF Saw, Knows, Control
  <2>4. RunIsWell(r)'
    BY <1>1, <1>2, <1>4, <1>6, <2>3
    DEF RunIsWell, Deals, machines, Upgrading, Online
  <2>5. Answers(r) => Answers(r)'
    BY <1>1, <1>2, <2>3
    DEF Answers, Fresh, Excepted, machines, Online
  <2>6. vm[Base].power = "halting" /\ Watches(r) => Watches(r)'
    BY <1>2, <2>3 DEF Watches, Excepted, Online
  <2>7. SeesOff(r)' => SeesOff(r) \/ vm[Base].power = "off"
    <3> SUFFICES ASSUME pc[r] = "waitBase", seen'[r] \notin {"RUNNING"}
                 PROVE  vm[Base].power = "off"
      BY <1>2 DEF SeesOff
    <3>1. vm[Base].power # "absent"
      BY <1>4, <1>6, RunFacts DEF RunIsWell, Deals
    <3>2. vm[Base].power # "aborted"
      BY DEF Finalizing, BaseIsWell
    <3>. QED
      BY <2>3, <3>1, <3>2, BaseFacts DEF Powers, Online
  <2>8. pc'[r] \in Creating => pc[r] \in Creating
    BY <1>2
  <2>. QED
    BY <1>3, <2>4, <2>5, <2>6, <2>7, <2>8, StepAside
<1>7. CASE r \in Finalizers /\ seen[r] # "unasked"
  <2>1. seen[r] = "notRunning" /\ seen'[r] \in {"STOPPED", "OTHER"}
    BY <1>7, NotFailed
    DEF Query, ListVms, ShowInfo, QueryFails, Saw, Knows, Control
  <2>2. RunIsWell(r)'
    BY <1>1, <1>2, <1>4, <1>7, <2>1 DEF RunIsWell, Deals, machines
  <2>3. /\ Answers(r) => Answers(r)'
        /\ Watches(r) => Watches(r)'
        /\ SeesOff(r)' => SeesOff(r)
    BY <1>1, <1>2, <2>1
    DEF Answers, Fresh, Watches, SeesOff, Excepted, machines
  <2>4. pc'[r] \in Creating => pc[r] \in Creating
    BY <1>2
  <2>. QED
    BY <1>3, <2>2, <2>3, <2>4, StepAside
<1>. QED
  BY <1>5, <1>6, <1>7

\* The machine that answers is installed, whichever it is.
LEMMA ConnectAside ==
  ASSUME Knows, MachinesOK, Finalizing, NEW r \in Runs, Connect(r)
  PROVE  Finalizing'
<1>1. pc[r] = "connect" /\ UNCHANGED <<command, machines>>
  BY DEF Connect
<1>2. BaseStays
  BY <1>1 DEF BaseStays, Settled, machines
<1>3. PICK n : \/ /\ n # Base \/ vm[Base].disk \notin {"none", "empty"}
                  /\ session' = [session EXCEPT ![r] = n]
                  /\ Continue(r, IF command[r] = "finalize"
                                 THEN "install" ELSE "script")
               \/ UNCHANGED session /\ Raise(r)
  BY DEF Connect
<1>4. Others(r)
  BY <1>1, <1>3, GoesAlone, RaisesAlone DEF Continue
<1>5. \/ session'[r] = session[r]
      \/ session'[r] # Base
      \/ vm[Base].disk \notin {"none", "empty"}
  BY <1>3 DEF Knows, Choices
<1>6. CASE r \notin Finalizers
  <2>1. pc'[r] \in {"script", "removeClone", "failed"}
    BY <1>3, <1>6, Goes, Raising, RunFacts DEF Continue
  <2>. QED
    BY <1>2, <1>4, <1>5, <1>6, <2>1, WorkAside DEF Creating
<1>7. CASE r \in Finalizers
  <2>1. \/ pc'[r] = "install" /\ raised'[r] = raised[r]
        \/ /\ pc'[r] = "removeForward" /\ raised'[r] = "connect"
           /\ session' = session
    BY <1>1, <1>3, <1>7, Goes, Raising, RunFacts DEF Continue
  <2>2. seen'[r] = "unasked"
    BY <1>3, Goes, Raising DEF Continue
  <2>3. /\ RunIsWell(r) /\ ~Excepted(r)
        /\ command'[r] = "finalize" /\ command[r] = "finalize"
    BY <1>1, <1>7, FinalizerFacts, RunFacts DEF Excepted, Ended
  <2>4. RunIsWell(r)'
    BY <1>1, <1>2, <1>5, <2>1, <2>2, <2>3
    DEF RunIsWell, Deals, BaseStays, Settled, Creating, Upgrading, Exceptions,
        Excepted
  <2>5. /\ Answers(r)' /\ ~Watches(r) /\ ~SeesOff(r)'
        /\ pc'[r] \notin Creating
    BY <1>1, <2>1, <2>2, <2>3
    DEF Answers, Fresh, Watches, SeesOff, Creating
  <2>. QED
    BY <1>2, <1>4, <2>4, <2>5, StepAside
<1>. QED
  BY <1>6, <1>7

LEMMA ChooseFinalizationAside ==
  ASSUME Knows, MachinesOK, Finalizing, NEW r \in Runs, ChooseFinalization(r)
  PROVE  Finalizing'
<1>1. /\ pc[r] = "finalize" /\ UNCHANGED <<command, session, machines>>
      /\ seen[r] \in MachineStates
  BY DEF ChooseFinalization
<1>2. PICK b \in {"refused", "clearStopped", "clearRunning"} :
        /\ Continue(r, b)
        /\ b # "refused" => seen[r] \in {"STOPPED", "RUNNING"}
  BY DEF ChooseFinalization
<1>3. Others(r) /\ BaseStays
  BY <1>1, <1>2, GoesAlone DEF BaseStays, Settled, machines, Continue
<1>4. /\ pc'[r] = b /\ seen'[r] = "unasked" /\ raised' = raised
  BY <1>2, Goes DEF Continue
<1>5. RunIsWell(r) /\ command[r] = "finalize" /\ r \in Finalizers
  BY <1>1, FinalizerFacts, RunFacts DEF Has, PlaceAt
<1>6. RunIsWell(r)'
  BY <1>1, <1>2, <1>3, <1>4, <1>5
  DEF RunIsWell, Deals, BaseStays, Settled, Creating, Upgrading, Ended
<1>7. ~Answers(r) /\ ~Watches(r) /\ ~SeesOff(r)' /\ pc'[r] \notin Creating
  <2>1. ~Excepted(r)
    BY <1>1, <1>5, FinalizerFacts DEF Excepted, Ended
  <2>. QED
    BY <1>1, <1>4, <2>1 DEF Answers, Watches, SeesOff, Creating
<1>. QED
  BY <1>3, <1>6, <1>7, StepAside

LEMMA LookAgainAside ==
  ASSUME Knows, MachinesOK, Finalizing, NEW r \in Runs, LookAgain(r)
  PROVE  Finalizing'
<1>1. /\ pc[r] \in {"waitBase", "waitClone"} /\ seen[r] \in MachineStates
      /\ UNCHANGED <<command, session, machines>>
  BY DEF LookAgain
<1>2. PICK b \in {"waitBase", "waitClone", "removeForward", "unregister"} :
        /\ Continue(r, b)
        /\ seen[r] = "RUNNING" => b = pc[r]
        /\ seen[r] # "RUNNING" =>
             b = IF pc[r] = "waitBase" THEN "removeForward" ELSE "unregister"
  BY DEF LookAgain
<1>3. Others(r) /\ BaseStays
  BY <1>1, <1>2, GoesAlone DEF BaseStays, Settled, machines, Continue
<1>4. pc'[r] = b /\ seen'[r] = "unasked" /\ raised' = raised
  BY <1>2, Goes DEF Continue
<1>5. CASE r \notin Finalizers
  BY <1>1, <1>3, <1>4, <1>5, WorkAside DEF Creating
<1>6. CASE r \in Finalizers
  <2>1. /\ pc[r] = "waitBase" /\ RunIsWell(r) /\ ~Excepted(r)
        /\ command[r] = "finalize"
    BY <1>1, <1>6, FinalizerFacts, RunFacts
    DEF Has, PlaceAt, CloneWork, Excepted, Ended
  <2>2. RunIsWell(r)'
    BY <1>1, <1>2, <1>3, <1>4, <2>1
    DEF RunIsWell, Deals, BaseStays, Settled, Creating, Upgrading, Excepted,
        MachineStates
  <2>3. Answers(r)'
    BY <1>2, <1>4, <2>1 DEF Answers, Fresh
  <2>4. Watches(r) => Watches(r)'
    BY <1>1, <1>2, <1>4, <2>1 DEF Watches, MachineStates
  <2>5. SeesOff(r)' => SeesOff(r)
    BY <1>1, <1>2, <1>4, <2>1 DEF SeesOff, MachineStates
  <2>6. pc'[r] \notin Creating
    BY <1>4 DEF Creating
  <2>. QED
    BY <1>3, <2>2, <2>3, <2>4, <2>5, <2>6, StepAside
<1>. QED
  BY <1>5, <1>6

LEMMA TimeOutAside ==
  ASSUME Knows, MachinesOK, Finalizing, NEW r \in Runs, TimeOut(r)
  PROVE  Finalizing'
<1>1. /\ pc[r] \in {"waitBase", "waitClone"} /\ Raise(r)
      /\ UNCHANGED <<command, session, machines>>
  BY DEF TimeOut
<1>2. Others(r) /\ BaseStays
  BY <1>1, RaisesAlone DEF BaseStays, Settled, machines
<1>3. CASE r \notin Finalizers
  BY <1>1, <1>2, <1>3, Raising, RunFacts, WorkAside DEF Creating
<1>4. CASE r \in Finalizers
  <2>1. pc[r] = "waitBase" /\ RunIsWell(r) /\ command[r] = "finalize"
    BY <1>1, <1>4, FinalizerFacts, RunFacts DEF Has, PlaceAt, CloneWork
  <2>2. /\ pc'[r] = "removeForward" /\ raised'[r] = "waitBase"
        /\ seen'[r] = "unasked"
    BY <1>1, <2>1, Raising
  <2>3. RunIsWell(r)'
    BY <1>1, <1>2, <2>1, <2>2
    DEF RunIsWell, Deals, BaseStays, Settled, Creating, Upgrading
  <2>4. /\ Answers(r)' /\ Watches(r)' /\ ~SeesOff(r)'
        /\ pc'[r] \notin Creating
    BY <2>2
    DEF Answers, Watches, SeesOff, Excepted, Exceptions, Creating
  <2>. QED
    BY <1>2, <2>3, <2>4, StepAside
<1>. QED
  BY <1>3, <1>4

LEMMA KillAside ==
  ASSUME Knows, MachinesOK, Finalizing, NEW r \in Runs, Kill(r)
  PROVE  Finalizing'
<1>1. /\ Goto(r, "killed") /\ UNCHANGED raised
      /\ UNCHANGED <<command, session, machines>>
  BY DEF Kill
<1>2. Others(r) /\ BaseStays
  BY <1>1, GoesAlone DEF BaseStays, Settled, machines
<1>3. pc'[r] = "killed" /\ seen'[r] = "unasked"
  BY <1>1, Goes
<1>4. RunIsWell(r)
  BY FinalizerFacts
<1>5. RunIsWell(r)'
  BY <1>1, <1>2, <1>3, <1>4
  DEF RunIsWell, Deals, BaseStays, Settled, Creating, Upgrading, Ended
<1>6. Answers(r)' /\ Watches(r)' /\ ~SeesOff(r)' /\ pc'[r] \notin Creating
  BY <1>3 DEF Answers, Watches, SeesOff, Excepted, Creating
<1>. QED
  BY <1>2, <1>5, <1>6, StepAside
-----------------------------------------------------------------------------
\* A command that is refused, at the points where the base is changed.
Changing == {"createVm", "modifyBase", "createDisk", "addController",
             "attachDisk", "installBase", "addStopped", "addRunning",
             "startBase", "install", "shutdown"}

LEMMA RaiseAside ==
  ASSUME Knows, Finalizing, NEW r \in Runs, Raise(r), pc[r] \in Changing,
         BaseStays, UNCHANGED <<command, session>>
  PROVE  Finalizing'
<1>1. Others(r)
  BY RaisesAlone
<1>2. CASE r \notin Finalizers
  BY <1>1, <1>2, Raising, RunFacts, WorkAside DEF Creating
<1>3. CASE r \in Finalizers
  <2>1. RunIsWell(r) /\ command[r] = "finalize" /\ ~Excepted(r)
    BY <1>3, FinalizerFacts, RunFacts DEF Excepted, Changing, Ended
  <2>2. /\ raised'[r] = pc[r] /\ seen'[r] = "unasked"
        /\ pc'[r] = IF pc[r] \in {"install", "shutdown"}
                    THEN "removeForward" ELSE "failed"
    BY <2>1, Raising DEF Changing
  <2>3. pc[r] \notin Creating \cup {"createVm"}
    BY <2>1 DEF RunIsWell, Deals, Creating
  <2>4. RunIsWell(r)'
    BY <1>1, <2>1, <2>2, <2>3
    DEF RunIsWell, Deals, BaseStays, Settled, Creating, Upgrading, Changing,
        Ended, Exceptions
  <2>5. Answers(r) => Answers(r)'
    BY <2>1, <2>2, <2>3
    DEF Answers, Fresh, Excepted, Changing, Exceptions
  <2>6. ~Watches(r) /\ ~SeesOff(r)' /\ pc'[r] \notin Creating
    BY <2>1, <2>2 DEF Watches, SeesOff, Creating, Changing
  <2>. QED
    BY <1>1, <2>4, <2>5, <2>6, StepAside
<1>. QED
  BY <1>2, <1>3

\* A rule of the base is set: its power and its disk stay.
LEMMA BaseRuled ==
  ASSUME MachinesOK, NEW p, vm' = [vm EXCEPT ![Base].baseRule = p]
  PROVE  Settled /\ vm'[Base].baseRule = p
<1>1. vm'[Base] = [vm[Base] EXCEPT !.baseRule = p]
  BY BaseFacts DEF MachinesOK
<1>. QED
  BY <1>1, BaseFacts DEF Settled, VMs

\* A finalization that adds its forward will remove it.
LEMMA AddForwardAside ==
  ASSUME Knows, MachinesOK, Rest, Finalizing, NEW r \in Runs, faults' = 0,
         AddForwardStopped(r) \/ AddForwardRunning(r)
  PROVE  Finalizing'
<1>1. /\ pc[r] \in {"addStopped", "addRunning"}
      /\ UNCHANGED <<command, session>>
  BY DEF AddForwardStopped, AddForwardRunning, OtherwiseUnchanged
<1>2. \/ Raise(r) /\ UNCHANGED machines
      \/ /\ vm' = [vm EXCEPT ![Base].baseRule = port[r]]
         /\ \/ Continue(r, "startBase")
            \/ Continue(r, "connect") /\ vm[Base].power \in Online
  BY NotFailed DEF AddForwardStopped, AddForwardRunning, VBoxManage
<1>3. CASE Raise(r) /\ UNCHANGED machines
  <2>1. BaseStays
    BY <1>3 DEF BaseStays, Settled, machines
  <2>. QED
    BY <1>1, <1>3, <2>1, RaiseAside DEF Changing
<1>4. ASSUME vm' = [vm EXCEPT ![Base].baseRule = port[r]],
             NEW b, Continue(r, b),
             \/ b = "startBase"
             \/ b = "connect" /\ vm[Base].power \in Online
      PROVE  Finalizing'
  <2>1. Settled
    BY <1>4, BaseRuled
  <2>2. Others(r)
    BY <1>1, <1>4, GoesAlone DEF Continue
  <2>3. pc'[r] = b /\ seen'[r] = "unasked" /\ raised' = raised
    BY <1>4, Goes DEF Continue
  <2>4. /\ RunIsWell(r) /\ command[r] = "finalize" /\ r \in Finalizers
        /\ ~Excepted(r)
    BY <1>1, FinalizerFacts, RunFacts DEF Has, PlaceAt, Excepted, Ended
  <2>5. vm[Base].power = "halting" => vm[Base].disk = "ready"
    BY DEF Finalizing, BaseIsWell
  <2>6. RunIsWell(r)'
    BY <1>1, <1>4, <2>1, <2>2, <2>3, <2>4, <2>5
    DEF RunIsWell, Deals, Settled, Creating, Upgrading, Excepted, Online
  <2>7. /\ Answers(r)' /\ ~Watches(r) /\ ~SeesOff(r)'
        /\ pc'[r] \notin Creating
    BY <1>1, <1>4, <2>3, <2>4 DEF Answers, Watches, SeesOff, Creating
  <2>8. RuleIsAnswered'
    BY <2>2, <2>4, <2>7, WhoFinalizes DEF RuleIsAnswered, Others
  <2>. QED
    BY <2>1, <2>2, <2>6, <2>7, <2>8, StepForwards
<1>. QED
  BY <1>2, <1>3, <1>4

\* A finalization that is over has removed the forward, or another one will.
LEMMA DeleteForwardAside ==
  ASSUME Knows, MachinesOK, Rest, Finalizing, NEW r \in Runs, faults' = 0,
         DeleteForward(r)
  PROVE  Finalizing'
<1>1. /\ pc[r] \in {"clearStopped", "clearRunning", "removeForward"}
      /\ seen[r] \in MachineStates /\ UNCHANGED <<command, session>>
  BY DEF DeleteForward, OtherwiseUnchanged
<1>2. /\ RunIsWell(r) /\ command[r] = "finalize" /\ r \in Finalizers
      /\ raised[r] \in Exceptions => pc[r] = "removeForward"
  BY <1>1, FinalizerFacts, RunFacts DEF Has, PlaceAt, Ended
<1>3. /\ Others(r) /\ seen'[r] = "unasked" /\ raised'[r] = raised[r]
      /\ \/ pc[r] = "clearStopped" /\ pc'[r] = "addStopped"
         \/ pc[r] = "clearRunning" /\ pc'[r] = "addRunning"
         \/ /\ pc[r] = "removeForward"
            /\ pc'[r] = IF raised[r] = "" THEN "done" ELSE "failed"
  <2>1. CASE pc[r] = "removeForward"
    <3>1. Finish(r)
      BY <2>1 DEF DeleteForward, AfterDelete
    <3>. QED
      BY <1>1, <2>1, <3>1, FinishesAlone
  <2>2. CASE pc[r] = "clearStopped"
    <3>1. Continue(r, "addStopped")
      BY <2>2 DEF DeleteForward, AfterDelete
    <3>. QED
      BY <1>1, <2>2, <3>1, Goes, GoesAlone DEF Continue
  <2>3. CASE pc[r] = "clearRunning"
    <3>1. Continue(r, "addRunning")
      BY <2>3 DEF DeleteForward, AfterDelete
    <3>. QED
      BY <1>1, <2>3, <3>1, Goes, GoesAlone DEF Continue
  <2>. QED
    BY <1>1, <2>1, <2>2, <2>3
<1>4. /\ Watches(r) => Watches(r)'
      /\ SeesOff(r)' => SeesOff(r)
      /\ pc'[r] \notin Creating
  BY <1>1, <1>3 DEF Watches, SeesOff, Excepted, Creating
<1>5. ASSUME Settled PROVE RunIsWell(r)'
  BY <1>1, <1>2, <1>3, <1>5
  DEF RunIsWell, Deals, Settled, Creating, Upgrading, Others, Ended
<1>6. CASE vm' = [vm EXCEPT ![Base].baseRule = NoPort]
  <2>1. Settled /\ RuleIsAnswered'
    BY <1>6, BaseRuled DEF RuleIsAnswered
  <2>. QED
    BY <1>3, <1>4, <1>5, <2>1, StepForwards
<1>7. CASE /\ UNCHANGED machines
           /\ ~(IF seen[r] = "RUNNING" THEN vm[Base].power \in Online
                ELSE vm[Base].power \notin Online)
  <2>1. BaseStays /\ Settled
    BY <1>7 DEF BaseStays, Settled, machines
  <2>2. ~Fresh(r)
    BY <1>1, <1>7 DEF Fresh, MachineStates
  <2>3. Answers(r) => Answers(r)'
    BY <1>1, <1>3, <2>2 DEF Answers, Excepted
  <2>. QED
    BY <1>3, <1>4, <1>5, <2>1, <2>3, StepAside
<1>. QED
  BY <1>6, <1>7, NotFailed DEF DeleteForward
-----------------------------------------------------------------------------
\* The base is turned on or off, or written to.
LEMMA BasePowered ==
  ASSUME MachinesOK, NEW w, vm' = [vm EXCEPT ![Base].power = w]
  PROVE  /\ vm'[Base].power = w /\ vm'[Base].disk = vm[Base].disk
         /\ vm'[Base].baseRule = vm[Base].baseRule
<1>1. vm'[Base] = [vm[Base] EXCEPT !.power = w]
  BY BaseFacts DEF MachinesOK
<1>. QED
  BY <1>1, BaseFacts DEF VMs

LEMMA BaseWritten ==
  ASSUME MachinesOK, NEW d, vm' = [vm EXCEPT ![Base].disk = d]
  PROVE  /\ vm'[Base].power = vm[Base].power /\ vm'[Base].disk = d
         /\ vm'[Base].baseRule = vm[Base].baseRule
<1>1. vm'[Base] = [vm[Base] EXCEPT !.disk = d]
  BY BaseFacts DEF MachinesOK
<1>. QED
  BY <1>1, BaseFacts DEF VMs

LEMMA OthersDeal ==
  ASSUME NEW r \in Runs, Others(r), NEW q \in Runs, q # r,
         Deals(command[q], pc[q], seen[q], raised[q], session[q],
               vm'[Base].power, vm'[Base].disk)
  PROVE  RunIsWell(q)'
<1>1. /\ pc'[q] = pc[q] /\ seen'[q] = seen[q] /\ raised'[q] = raised[q]
      /\ session'[q] = session[q] /\ command'[q] = command[q]
  BY DEF Others
<1>. QED
  BY <1>1 DEF RunIsWell

\* The rule of the base is still answered when nobody misses that the base
\* went on or off.
LEMMA StillAnswered ==
  ASSUME NEW r \in Runs, Finalizing, Others(r),
         vm'[Base].baseRule = vm[Base].baseRule,
         r \in Finalizers /\ Answers(r) => Answers(r)',
         \/ vm[Base].power \in Online <=> vm'[Base].power \in Online
         \/ \A q \in Finalizers : pc[q] # "removeForward"
         \/ r \in Finalizers /\ Answers(r)'
  PROVE  RuleIsAnswered'
<1>1. Finalizers' = Finalizers
  BY WhoFinalizes DEF Others
<1>2. CASE r \in Finalizers /\ Answers(r)'
  BY <1>1, <1>2 DEF RuleIsAnswered
<1>3. CASE \/ vm[Base].power \in Online <=> vm'[Base].power \in Online
           \/ \A q \in Finalizers : pc[q] # "removeForward"
  <2> SUFFICES ASSUME NoBaseRules, vm[Base].baseRule # NoPort
               PROVE  \E q \in Finalizers : Answers(q)'
    BY <1>1 DEF RuleIsAnswered
  <2>1. PICK q \in Finalizers : Answers(q)
    BY DEF Finalizing, RuleIsAnswered
  <2>2. CASE q = r
    BY <2>1, <2>2
  <2>3. CASE q # r
    <3>1. pc'[q] = pc[q] /\ seen'[q] = seen[q] /\ raised'[q] = raised[q]
      BY <2>3 DEF Others, Finalizers
    <3>. QED
      BY <1>3, <2>1, <3>1 DEF Answers, Excepted, Fresh
  <2>. QED
    BY <2>2, <2>3
<1>. QED
  BY <1>2, <1>3

\* A run creates the base when there is none.
LEMMA CreateVmKeeps ==
  ASSUME Knows, MachinesOK, Rest, Finalizing, NEW r \in Runs, faults' = 0,
         CreateVm(r)
  PROVE  Finalizing'
<1>1. pc[r] = "createVm" /\ UNCHANGED <<command, session>>
  BY DEF CreateVm, OtherwiseUnchanged
<1>2. \/ Raise(r) /\ UNCHANGED machines
      \/ /\ vm[Base].power = "absent" /\ Continue(r, "modifyBase")
         /\ vm' = [vm EXCEPT ![Base].power = "off"]
  BY NotFailed DEF CreateVm, VBoxManage
<1>3. CASE Raise(r) /\ UNCHANGED machines
  <2>1. BaseStays
    BY <1>3 DEF BaseStays, Settled, machines
  <2>. QED
    BY <1>1, <1>3, <2>1, RaiseAside DEF Changing
<1>4. CASE /\ vm[Base].power = "absent" /\ Continue(r, "modifyBase")
           /\ vm' = [vm EXCEPT ![Base].power = "off"]
  <2>1. /\ vm[Base].disk = "none" /\ vm'[Base].disk = "none"
        /\ vm'[Base].power = "off" /\ vm'[Base].baseRule = vm[Base].baseRule
    BY <1>4, BasePowered DEF Finalizing, BaseIsWell
  <2>2. Others(r)
    BY <1>1, <1>4, GoesAlone DEF Continue
  <2>3. pc'[r] = "modifyBase" /\ seen'[r] = "unasked" /\ raised' = raised
    BY <1>4, Goes DEF Continue
  <2>4. ASSUME NEW q \in Runs
        PROVE  /\ Deals(command[q], pc[q], seen[q], raised[q], session[q],
                        "absent", "none")
               /\ pc[q] \notin Creating
               /\ command[q] = "finalize" =>
                    pc[q] \in {"finalize", "refused", "failed", "killed"}
    <3>1. RunIsWell(q)
      BY DEF Finalizing
    <3>2. Deals(command[q], pc[q], seen[q], raised[q], session[q],
                "absent", "none")
      BY <1>4, <2>1, <3>1 DEF RunIsWell
    <3>. QED
      BY <3>2 DEF Deals
  <2>5. r \notin Finalizers
    BY <1>1, <2>4 DEF Finalizers
  <2>6. RunIsWell(r)'
    BY <1>1, <2>1, <2>3, <2>4, <2>5 DEF RunIsWell, Deals, Finalizers
  <2>7. ASSUME NEW q \in Runs PROVE RunIsWell(q)'
    BY <2>1, <2>2, <2>4, <2>6, DealsCreated, OthersDeal
  <2>8. OneCreator'
    BY <2>2, <2>4 DEF OneCreator, Others
  <2>9. StaysOff' /\ HaltIsWatched' /\ BaseIsWell'
    BY <2>1 DEF StaysOff, HaltIsWatched, BaseIsWell
  <2>10. \A q \in Finalizers : pc[q] # "removeForward"
    BY <2>4 DEF Finalizers
  <2>11. RuleIsAnswered'
    BY <2>1, <2>2, <2>5, <2>10, StillAnswered
  <2>. QED
    BY <2>7, <2>8, <2>9, <2>11 DEF Finalizing
<1>. QED
  BY <1>2, <1>3, <1>4

\* While a run creates the base, no finalization gets into it.
LEMMA NobodyUpgrades ==
  ASSUME Finalizing, NEW r \in Runs, pc[r] \in Creating,
         vm[Base].power \notin Online
  PROVE  /\ vm[Base].power = "off" /\ vm[Base].disk \in {"none", "empty"}
         /\ \A q \in Finalizers : /\ pc[q] \notin Upgrading \cup {"done"}
                                  /\ q # r
<1>1. RunIsWell(r) /\ \A q \in Finalizers : q \in Runs /\ RunIsWell(q)
  BY DEF Finalizing, Finalizers
<1>2. vm[Base].power = "off" /\ vm[Base].disk \in {"none", "empty"}
  BY <1>1 DEF RunIsWell, Deals, Online
<1>. QED
  BY <1>1, <1>2 DEF RunIsWell, Deals, Finalizers

LEMMA PrepareBaseKeeps ==
  ASSUME Knows, MachinesOK, Rest, Finalizing, NEW r \in Runs, faults' = 0,
         PrepareBase(r)
  PROVE  Finalizing'
<1>1. /\ pc[r] \in Creating /\ pc[r] \in Changing
      /\ UNCHANGED <<command, session>>
  BY DEF PrepareBase, OtherwiseUnchanged, Preparing, Creating, Changing
<1>2. r \notin Finalizers
  BY <1>1 DEF Finalizing, RunIsWell, Deals, Finalizers
<1>3. CASE Raise(r) /\ UNCHANGED machines
  <2>1. BaseStays
    BY <1>3 DEF BaseStays, Settled, machines
  <2>. QED
    BY <1>1, <1>3, <2>1, RaiseAside
<1>4. ASSUME NEW b \in (Preparing \ {"modifyBase"}) \cup {"installBase"},
             Continue(r, b)
      PROVE  /\ Others(r) /\ b \in Creating
             /\ pc'[r] = b /\ seen'[r] = "unasked" /\ raised' = raised
  BY <1>1, <1>4, Goes, GoesAlone DEF Continue, Preparing, Creating
<1>5. ASSUME NEW b \in (Preparing \ {"modifyBase"}) \cup {"installBase"},
             Continue(r, b), vm' = vm
      PROVE  Finalizing'
  <2>1. BaseStays
    BY <1>5 DEF BaseStays, Settled
  <2>2. RunIsWell(r)
    BY DEF Finalizing
  <2>3. RunIsWell(r)'
    BY <1>1, <1>2, <1>4, <1>5, <2>2
    DEF RunIsWell, Deals, Finalizers
  <2>. QED
    BY <1>1, <1>2, <1>4, <1>5, <2>1, <2>3, StepAside
<1>6. ASSUME NEW b \in (Preparing \ {"modifyBase"}) \cup {"installBase"},
             Continue(r, b), vm[Base].power \notin Online,
             vm' = [vm EXCEPT ![Base].disk = "empty"]
      PROVE  Finalizing'
  <2>1. /\ vm[Base].power = "off" /\ vm[Base].disk \in {"none", "empty"}
        /\ \A q \in Finalizers : /\ pc[q] \notin Upgrading \cup {"done"}
                                 /\ q # r
    BY <1>1, <1>6, NobodyUpgrades
  <2>2. /\ vm'[Base].disk = "empty" /\ vm'[Base].power = "off"
        /\ vm'[Base].baseRule = vm[Base].baseRule
    BY <1>6, <2>1, BaseWritten
  <2>3. /\ Others(r) /\ b \in Creating
        /\ pc'[r] = b /\ seen'[r] = "unasked" /\ raised' = raised
    BY <1>4, <1>6
  <2>4. ASSUME NEW q \in Runs
        PROVE  Deals(command[q], pc[q], seen[q], raised[q], session[q],
                     "off", "empty")
    BY <2>1, DealsPrepared DEF Finalizing, RunIsWell
  <2>5. RunIsWell(r)'
    BY <1>1, <1>2, <2>2, <2>3, <2>4 DEF RunIsWell, Deals, Finalizers
  <2>6. ASSUME NEW q \in Runs PROVE RunIsWell(q)'
    BY <2>2, <2>3, <2>4, <2>5, OthersDeal
  <2>7. OneCreator'
    BY <1>1, <2>3 DEF Finalizing, OneCreator, Others
  <2>8. StaysOff' /\ HaltIsWatched' /\ BaseIsWell'
    BY <2>2 DEF StaysOff, HaltIsWatched, BaseIsWell
  <2>9. RuleIsAnswered'
    BY <2>1, <2>2, <2>3, StillAnswered
  <2>. QED
    BY <2>6, <2>7, <2>8, <2>9 DEF Finalizing
<1>. QED
  BY <1>3, <1>5, <1>6, PreparingSteps

LEMMA InstallBaseKeeps ==
  ASSUME Knows, MachinesOK, Rest, Finalizing, NEW r \in Runs, faults' = 0,
         InstallBase(r)
  PROVE  Finalizing'
<1>1. pc[r] = "installBase" /\ UNCHANGED <<command, session>>
  BY DEF InstallBase, OtherwiseUnchanged
<1>2. \/ Raise(r) /\ UNCHANGED machines
      \/ /\ vm[Base].power \notin Online /\ Continue(r, "done")
         /\ vm' = [vm EXCEPT ![Base].power = "on", ![Base].disk = "installing"]
  BY NotFailed DEF InstallBase, VBoxManage
<1>3. CASE Raise(r) /\ UNCHANGED machines
  <2>1. BaseStays
    BY <1>3 DEF BaseStays, Settled, machines
  <2>. QED
    BY <1>1, <1>3, <2>1, RaiseAside DEF Changing
<1>4. CASE /\ vm[Base].power \notin Online /\ Continue(r, "done")
           /\ vm' = [vm EXCEPT ![Base].power = "on",
                               ![Base].disk = "installing"]
  <2>1. /\ vm[Base].power = "off" /\ vm[Base].disk \in {"none", "empty"}
        /\ \A q \in Finalizers : /\ pc[q] \notin Upgrading \cup {"done"}
                                 /\ q # r
    BY <1>1, <1>4, NobodyUpgrades DEF Creating
  <2>2. /\ vm'[Base].disk = "installing" /\ vm'[Base].power = "on"
        /\ vm'[Base].baseRule = vm[Base].baseRule
    <3>1. vm'[Base] = [vm[Base] EXCEPT !.power = "on", !.disk = "installing"]
      BY <1>4, BaseFacts DEF MachinesOK
    <3>. QED
      BY <3>1, BaseFacts DEF VMs
  <2>3. Others(r)
    BY <1>1, <1>4, GoesAlone DEF Continue
  <2>4. pc'[r] = "done" /\ seen'[r] = "unasked" /\ raised' = raised
    BY <1>4, Goes DEF Continue
  <2>5. ASSUME NEW q \in Runs, q # r
        PROVE  /\ Deals(command[q], pc[q], seen[q], raised[q], session[q],
                        "on", "installing")
               /\ pc[q] \notin Creating
    <3>1. pc[q] \notin Creating
      BY <1>1, <2>5 DEF Finalizing, OneCreator, Creating
    <3>. QED
      BY <2>1, <3>1, DealsInstalling DEF Finalizing, RunIsWell
  <2>6. RunIsWell(r)'
    <3>1. RunIsWell(r)
      BY DEF Finalizing
    <3>. QED
      BY <1>1, <2>1, <2>2, <2>4, <3>1
      DEF RunIsWell, Deals, Finalizers, Creating
  <2>7. ASSUME NEW q \in Runs PROVE RunIsWell(q)'
    BY <2>2, <2>3, <2>5, <2>6, OthersDeal
  <2>8. OneCreator'
    BY <2>3, <2>4, <2>5 DEF OneCreator, Others, Creating
  <2>9. HaltIsWatched' /\ BaseIsWell'
    BY <2>2 DEF HaltIsWatched, BaseIsWell
  <2>10. StaysOff'
    <3>1. Finalizers' = Finalizers
      BY <2>3, WhoFinalizes DEF Others
    <3>2. \A q \in Finalizers : pc'[q] = pc[q] /\ q \in Runs
      BY <2>1, <2>3 DEF Others, Finalizers
    <3>. QED
      BY <2>1, <3>1, <3>2 DEF StaysOff, SeesOff, Upgrading
  <2>11. RuleIsAnswered'
    <3>1. \A q \in Finalizers : pc[q] # "removeForward"
      BY <2>1 DEF Upgrading
    <3>. QED
      BY <2>1, <2>2, <2>3, <3>1, StillAnswered
  <2>. QED
    BY <2>7, <2>8, <2>9, <2>10, <2>11 DEF Finalizing
<1>. QED
  BY <1>2, <1>3, <1>4
-----------------------------------------------------------------------------
\* A finalization starts the base, to which it has added its forward.
LEMMA StartBaseKeeps ==
  ASSUME Knows, MachinesOK, Rest, Finalizing, NEW r \in Runs, faults' = 0,
         StartBase(r)
  PROVE  Finalizing'
<1>1. pc[r] = "startBase" /\ UNCHANGED <<command, session>>
  BY DEF StartBase, OtherwiseUnchanged
<1>2. \/ Raise(r) /\ UNCHANGED machines
      \/ /\ vm[Base].power \notin Online /\ Continue(r, "connect")
         /\ vm' = [vm EXCEPT ![Base].power = "on"]
  BY NotFailed DEF StartBase, VBoxManage
<1>3. CASE Raise(r) /\ UNCHANGED machines
  <2>1. BaseStays
    BY <1>3 DEF BaseStays, Settled, machines
  <2>. QED
    BY <1>1, <1>3, <2>1, RaiseAside DEF Changing
<1>4. CASE /\ vm[Base].power \notin Online /\ Continue(r, "connect")
           /\ vm' = [vm EXCEPT ![Base].power = "on"]
  <2>1. /\ RunIsWell(r) /\ r \in Finalizers /\ command[r] = "finalize"
        /\ ~Excepted(r)
    BY <1>1, FinalizerFacts, RunFacts DEF Has, PlaceAt, Excepted, Ended
  <2>2. vm[Base].power = "off"
    <3>1. vm[Base].power # "absent"
      BY <1>1, <2>1 DEF RunIsWell, Deals
    <3>. QED
      BY <1>4, <3>1, BaseFacts DEF Finalizing, BaseIsWell, Powers, Online
  <2>3. /\ vm'[Base].power = "on" /\ vm'[Base].disk = vm[Base].disk
        /\ vm'[Base].baseRule = vm[Base].baseRule
    BY <1>4, BasePowered
  <2>4. Others(r)
    BY <1>1, <1>4, GoesAlone DEF Continue
  <2>5. pc'[r] = "connect" /\ seen'[r] = "unasked" /\ raised' = raised
    BY <1>4, Goes DEF Continue
  <2>6. ASSUME NEW q \in Runs
        PROVE  Deals(command[q], pc[q], seen[q], raised[q], session[q],
                     "on", vm[Base].disk)
    BY <2>2, DealsStarted DEF Finalizing, RunIsWell
  <2>7. RunIsWell(r)'
    BY <1>1, <2>1, <2>3, <2>5, <2>6
    DEF RunIsWell, Deals, Excepted, Creating, Upgrading
  <2>8. ASSUME NEW q \in Runs PROVE RunIsWell(q)'
    BY <2>3, <2>4, <2>6, <2>7, OthersDeal
  <2>9. OneCreator'
    BY <2>4, <2>5 DEF Finalizing, OneCreator, Others, Creating
  <2>10. HaltIsWatched' /\ BaseIsWell'
    BY <2>3 DEF HaltIsWatched, BaseIsWell
  <2>11. StaysOff'
    <3>1. Finalizers' = Finalizers
      BY <2>4, WhoFinalizes DEF Others
    <3>2. ~SeesOff(r)'
      BY <2>5 DEF SeesOff
    <3>. QED
      BY <2>1, <3>1, <3>2 DEF StaysOff
  <2>12. RuleIsAnswered'
    BY <2>1, <2>3, <2>4, <2>5, StillAnswered DEF Answers
  <2>. QED
    BY <2>8, <2>9, <2>10, <2>11, <2>12 DEF Finalizing
<1>. QED
  BY <1>2, <1>3, <1>4

\* What a step that leaves everything of the base alone does, while it writes
\* to a machine that is not the base.
LEMMA NotTheBase ==
  ASSUME MachinesOK, NEW n, n # Base,
         \/ vm' = [vm EXCEPT ![n].disk = "ready"]
         \/ vm' = [vm EXCEPT ![n].power = "halting"]
         \/ vm' = [vm EXCEPT ![n].power = "off"]
  PROVE  BaseStays
  BY BaseFacts DEF MachinesOK, BaseStays, Settled

\* A guest is upgraded, which the base is online for.
LEMMA InstallPackagesKeeps ==
  ASSUME Knows, MachinesOK, Finalizing, NEW r \in Runs, InstallPackages(r)
  PROVE  Finalizing'
<1>1. pc[r] = "install" /\ UNCHANGED <<command, session>>
  BY DEF InstallPackages
<1>2. \/ Raise(r) /\ UNCHANGED vm
      \/ /\ vm[session[r]].power = "on" /\ Continue(r, "shutdown")
         /\ vm' = [vm EXCEPT ![session[r]].disk = "ready"]
  BY DEF InstallPackages
<1>3. CASE Raise(r) /\ UNCHANGED vm
  <2>1. BaseStays
    BY <1>3 DEF BaseStays, Settled
  <2>. QED
    BY <1>1, <1>3, <2>1, RaiseAside DEF Changing
<1>4. CASE /\ vm[session[r]].power = "on" /\ Continue(r, "shutdown")
           /\ vm' = [vm EXCEPT ![session[r]].disk = "ready"]
  <2>1. /\ RunIsWell(r) /\ r \in Finalizers /\ command[r] = "finalize"
        /\ ~Excepted(r)
    BY <1>1, FinalizerFacts, RunFacts DEF Has, PlaceAt, Excepted, Ended
  <2>2. Others(r)
    BY <1>1, <1>4, GoesAlone DEF Continue
  <2>3. pc'[r] = "shutdown" /\ seen'[r] = "unasked" /\ raised' = raised
    BY <1>4, Goes DEF Continue
  <2>4. /\ Answers(r)' /\ ~Watches(r) /\ ~SeesOff(r)'
        /\ pc'[r] \notin Creating
    BY <1>1, <2>1, <2>3 DEF Answers, Watches, SeesOff, Creating
  <2>5. CASE session[r] # Base
    <3>1. BaseStays
      BY <1>4, <2>5, NotTheBase
    <3>2. RunIsWell(r)'
      BY <1>1, <2>1, <2>2, <2>3, <2>5, <3>1
      DEF RunIsWell, Deals, BaseStays, Settled, Excepted, Creating, Upgrading
    <3>. QED
      BY <2>1, <2>2, <2>4, <3>1, <3>2, StepAside
  <2>6. CASE session[r] = Base
    <3>1. vm[Base].power = "on" /\ vm[Base].disk \notin {"none", "empty"}
      BY <1>4, <2>1, <2>6 DEF RunIsWell, Deals
    <3>2. /\ vm'[Base].power = "on" /\ vm'[Base].disk = "ready"
          /\ vm'[Base].baseRule = vm[Base].baseRule
      BY <1>4, <2>6, <3>1, BaseWritten
    <3>3. ASSUME NEW q \in Runs
          PROVE  Deals(command[q], pc[q], seen[q], raised[q], session[q],
                       "on", "ready")
      BY <3>1, DealsUpgraded DEF Finalizing, RunIsWell
    <3>4. RunIsWell(r)'
      BY <1>1, <2>1, <2>3, <3>2, <3>3
      DEF RunIsWell, Deals, Excepted, Creating, Upgrading
    <3>5. ASSUME NEW q \in Runs PROVE RunIsWell(q)'
      BY <2>2, <3>2, <3>3, <3>4, OthersDeal
    <3>6. OneCreator'
      BY <2>2, <2>4 DEF Finalizing, OneCreator, Others
    <3>7. HaltIsWatched' /\ BaseIsWell'
      BY <3>2 DEF HaltIsWatched, BaseIsWell
    <3>8. StaysOff'
      <4>1. Finalizers' = Finalizers
        BY <2>2, WhoFinalizes DEF Others
      <4>. QED
        BY <2>1, <2>4, <4>1 DEF StaysOff
    <3>9. RuleIsAnswered'
      BY <2>1, <2>2, <2>4, <3>2, StillAnswered
    <3>. QED
      BY <3>5, <3>6, <3>7, <3>8, <3>9 DEF Finalizing
  <2>. QED
    BY <2>5, <2>6
<1>. QED
  BY <1>2, <1>3, <1>4

\* A guest is shut down, which for the base somebody waits for.
LEMMA ShutDownGuestKeeps ==
  ASSUME Knows, MachinesOK, Finalizing, NEW r \in Runs, ShutDownGuest(r)
  PROVE  Finalizing'
<1>1. pc[r] = "shutdown" /\ UNCHANGED <<command, session>>
  BY DEF ShutDownGuest
<1>2. \/ Raise(r) /\ UNCHANGED vm
      \/ /\ vm[session[r]].power = "on"
         /\ Continue(r, "waitBase") \/ Raise(r)
         /\ vm' = [vm EXCEPT ![session[r]].power = "halting"]
  BY DEF ShutDownGuest
<1>3. CASE Raise(r) /\ UNCHANGED vm
  <2>1. BaseStays
    BY <1>3 DEF BaseStays, Settled
  <2>. QED
    BY <1>1, <1>3, <2>1, RaiseAside DEF Changing
<1>4. CASE /\ vm[session[r]].power = "on"
           /\ Continue(r, "waitBase") \/ Raise(r)
           /\ vm' = [vm EXCEPT ![session[r]].power = "halting"]
  <2>1. /\ RunIsWell(r) /\ r \in Finalizers /\ command[r] = "finalize"
        /\ ~Excepted(r)
    BY <1>1, FinalizerFacts, RunFacts DEF Has, PlaceAt, Excepted, Ended
  <2>2. Others(r)
    BY <1>1, <1>4, GoesAlone, RaisesAlone DEF Continue
  <2>3. /\ seen'[r] = "unasked"
        /\ \/ pc'[r] = "waitBase" /\ raised'[r] = raised[r]
           \/ pc'[r] = "removeForward" /\ raised'[r] = "shutdown"
    BY <1>1, <1>4, <2>1, Goes, Raising DEF Continue
  <2>4. Answers(r)' /\ Watches(r)' /\ ~SeesOff(r)' /\ pc'[r] \notin Creating
    BY <2>3 DEF Answers, Watches, SeesOff, Excepted, Exceptions, Creating
  <2>5. CASE session[r] # Base
    <3>1. BaseStays
      BY <1>4, <2>5, NotTheBase
    <3>2. RunIsWell(r)'
      BY <1>1, <2>1, <2>2, <2>3, <2>5, <3>1
      DEF RunIsWell, Deals, BaseStays, Settled, Excepted, Creating, Upgrading,
          Exceptions, Ended
    <3>. QED
      BY <2>1, <2>2, <2>4, <3>1, <3>2, StepAside
  <2>6. CASE session[r] = Base
    <3>1. vm[Base].power = "on" /\ vm[Base].disk = "ready"
      BY <1>1, <1>4, <2>1, <2>6 DEF RunIsWell, Deals
    <3>2. /\ vm'[Base].power = "halting" /\ vm'[Base].disk = "ready"
          /\ vm'[Base].baseRule = vm[Base].baseRule
      BY <1>4, <2>6, <3>1, BasePowered
    <3>3. ASSUME NEW q \in Runs
          PROVE  Deals(command[q], pc[q], seen[q], raised[q], session[q],
                       "halting", "ready")
      BY <3>1, DealsHalting DEF Finalizing, RunIsWell
    <3>4. RunIsWell(r)'
      BY <1>1, <2>1, <2>3, <3>2, <3>3
      DEF RunIsWell, Deals, Excepted, Creating, Upgrading, Exceptions
    <3>5. ASSUME NEW q \in Runs PROVE RunIsWell(q)'
      BY <2>2, <3>2, <3>3, <3>4, OthersDeal
    <3>6. OneCreator'
      BY <2>2, <2>4 DEF Finalizing, OneCreator, Others
    <3>7. Finalizers' = Finalizers
      BY <2>2, WhoFinalizes DEF Others
    <3>8. HaltIsWatched' /\ BaseIsWell'
      BY <2>1, <2>4, <3>2, <3>7 DEF HaltIsWatched, BaseIsWell
    <3>9. StaysOff'
      BY <2>1, <2>4, <3>7 DEF StaysOff
    <3>10. RuleIsAnswered'
      BY <2>1, <2>2, <2>4, <3>2, StillAnswered
    <3>. QED
      BY <3>5, <3>6, <3>8, <3>9, <3>10 DEF Finalizing
  <2>. QED
    BY <2>5, <2>6
<1>. QED
  BY <1>2, <1>3, <1>4
-----------------------------------------------------------------------------
\* What happens to the machines by itself, or at the hands of the user.
LEMMA OutsideKeeps ==
  ASSUME Finalizing, UNCHANGED process, BaseIsWell', RuleIsAnswered',
         \A q \in Runs :
           Deals(command[q], pc[q], seen[q], raised[q], session[q],
                 vm'[Base].power, vm'[Base].disk),
         vm[Base].power = "off" => vm'[Base].power = "off",
         vm'[Base].power = "halting" => vm[Base].power = "halting"
  PROVE  Finalizing'
<1>1. /\ Finalizers' = Finalizers
      /\ UNCHANGED <<command, pc, seen, raised, session>>
  BY DEF process, Finalizers
<1>2. \A q \in Runs : RunIsWell(q)'
  BY <1>1 DEF RunIsWell
<1>3. OneCreator' /\ StaysOff' /\ HaltIsWatched'
  BY <1>1
  DEF Finalizing, OneCreator, StaysOff, HaltIsWatched, SeesOff, Watches,
      Excepted
<1>. QED
  BY <1>2, <1>3 DEF Finalizing

\* The rule is answered by whom it was, unless the base went off unnoticed.
LEMMA AnsweredOutside ==
  ASSUME Finalizing, UNCHANGED process,
         vm'[Base].baseRule = vm[Base].baseRule,
         \/ vm[Base].power \in Online <=> vm'[Base].power \in Online
         \/ \A q \in Finalizers : pc[q] # "removeForward"
         \/ \E q \in Finalizers : Watches(q)
  PROVE  RuleIsAnswered'
<1> SUFFICES ASSUME NoBaseRules, vm[Base].baseRule # NoPort
             PROVE  \E q \in Finalizers : Answers(q)'
  BY DEF RuleIsAnswered, process, Finalizers
<1>1. PICK q \in Finalizers : Answers(q)
  BY DEF Finalizing, RuleIsAnswered
<1>2. UNCHANGED <<pc, seen, raised>>
  BY DEF process
<1>3. CASE \E k \in Finalizers : Watches(k)
  BY <1>2, <1>3 DEF Watches, Answers, Excepted
<1>. QED
  BY <1>1, <1>2, <1>3 DEF Answers, Excepted, Fresh

LEMMA GuestHaltsKeeps ==
  ASSUME MachinesOK, Finalizing, NEW n \in Names, GuestHalts(n)
  PROVE  Finalizing'
<1>1. /\ vm[n].power = "halting" /\ vm' = [vm EXCEPT ![n].power = "off"]
      /\ UNCHANGED process
  BY DEF GuestHalts
<1>2. CASE n # Base
  <2>1. BaseStays
    BY <1>1, <1>2, NotTheBase
  <2>. QED
    BY <1>1, <2>1, OutsideKeeps, AnsweredOutside
    DEF BaseStays, Settled, Finalizing, RunIsWell, BaseIsWell
<1>3. CASE n = Base
  <2>1. /\ vm'[Base].power = "off" /\ vm'[Base].disk = vm[Base].disk
        /\ vm'[Base].baseRule = vm[Base].baseRule
    BY <1>1, <1>3, BasePowered
  <2>2. vm[Base].power = "halting" /\ vm[Base].disk = "ready"
    BY <1>1, <1>3 DEF Finalizing, BaseIsWell
  <2>3. \E k \in Finalizers : Watches(k)
    BY <2>2 DEF Finalizing, HaltIsWatched
  <2>4. \A q \in Runs :
          Deals(command[q], pc[q], seen[q], raised[q], session[q],
                "off", "ready")
    BY <2>2, DealsHalted DEF Finalizing, RunIsWell
  <2>5. BaseIsWell'
    BY <2>1 DEF BaseIsWell
  <2>. QED
    BY <1>1, <2>1, <2>2, <2>3, <2>4, <2>5, OutsideKeeps, AnsweredOutside
<1>. QED
  BY <1>2, <1>3

LEMMA InstallationEndsKeeps ==
  ASSUME MachinesOK, Finalizing, InstallationEnds
  PROVE  Finalizing'
<1>1. /\ vm[Base].power = "on" /\ vm[Base].disk = "installing"
      /\ vm' = [vm EXCEPT ![Base].disk = "installed"] /\ UNCHANGED process
  BY DEF InstallationEnds
<1>2. /\ vm'[Base].power = "on" /\ vm'[Base].disk = "installed"
      /\ vm'[Base].baseRule = vm[Base].baseRule
  BY <1>1, BaseWritten
<1>3. \A q \in Runs :
        Deals(command[q], pc[q], seen[q], raised[q], session[q],
              "on", "installed")
  BY <1>1, DealsInstalled DEF Finalizing, RunIsWell
<1>4. BaseIsWell'
  BY <1>2 DEF BaseIsWell
<1>. QED
  BY <1>1, <1>2, <1>3, <1>4, OutsideKeeps, AnsweredOutside

\* The user does not shut the base down under a finalization.
LEMMA UserStopsBaseKeeps ==
  ASSUME Knows, MachinesOK, Finalizing, UserStopsBase
  PROVE  Finalizing'
<1>1. /\ vm[Base].power = "on" /\ vm[Base].disk = "installed"
      /\ vm' = [vm EXCEPT ![Base].power = "off"] /\ UNCHANGED process
      /\ \A q \in Finalizers : pc[q] \in Ended \cup {"finalize"}
  BY DEF UserStopsBase
<1>2. /\ vm'[Base].power = "off" /\ vm'[Base].disk = "installed"
      /\ vm'[Base].baseRule = vm[Base].baseRule
  BY <1>1, BasePowered
<1>3. \A q \in Runs :
        Deals(command[q], pc[q], seen[q], raised[q], session[q],
              "off", "installed")
  <2> SUFFICES ASSUME NEW q \in Runs
               PROVE  Deals(command[q], pc[q], seen[q], raised[q],
                            session[q], "off", "installed")
    OBVIOUS
  <2>1. command[q] = "finalize" => pc[q] \notin Upgrading
    BY <1>1 DEF Finalizers, Ended, Upgrading
  <2>. QED
    BY <1>1, <2>1, DealsStopped DEF Finalizing, RunIsWell
<1>4. BaseIsWell'
  BY <1>2 DEF BaseIsWell
<1>5. \A q \in Finalizers : pc[q] # "removeForward"
  BY <1>1 DEF Ended
<1>. QED
  BY <1>1, <1>2, <1>3, <1>4, <1>5, OutsideKeeps, AnsweredOutside
-----------------------------------------------------------------------------
LEMMA StepKeeps ==
  ASSUME Knows, MachinesOK, Rest, Finalizing, NEW r \in Runs, faults' = 0,
         Step(r) \/ TimeOut(r) \/ Kill(r)
  PROVE  Finalizing'
<1>1. CASE Query(r) \/ Connect(r) \/ LookAgain(r) \/ TimeOut(r) \/ Kill(r)
  BY <1>1, QueryAside, ConnectAside, LookAgainAside, TimeOutAside, KillAside
<1>2. CASE Clones(r)
  BY <1>2, ClonesAside
<1>3. CASE CreateVm(r) \/ PrepareBase(r) \/ InstallBase(r)
  BY <1>3, CreateVmKeeps, PrepareBaseKeeps, InstallBaseKeeps
<1>4. CASE \/ ChooseFinalization(r) \/ DeleteForward(r)
           \/ AddForwardStopped(r) \/ AddForwardRunning(r)
  BY <1>4, ChooseFinalizationAside, DeleteForwardAside, AddForwardAside
<1>5. CASE StartBase(r) \/ InstallPackages(r) \/ ShutDownGuest(r)
  BY <1>5, StartBaseKeeps, InstallPackagesKeeps, ShutDownGuestKeeps
<1>. QED
  BY <1>1, <1>2, <1>3, <1>4, <1>5 DEF Step, Clones

\* Nothing has failed before a step after which nothing has.
FinalizingOK == faults = 0 => Finalizing

LEMMA FinalizingStep ==
  ASSUME Knows, MachinesOK, Rest, FinalizingOK, [Next]_vars
  PROVE  FinalizingOK'
<1> SUFFICES ASSUME faults' = 0
             PROVE  Finalizing'
  BY DEF FinalizingOK
<1>1. faults = 0 /\ Finalizing
  BY RestKeeps, BoundsAssumption
  DEF FinalizingOK, Rest, RestKept, Succeeds, Fails
<1>2. ASSUME NEW r \in Runs, Step(r) \/ TimeOut(r) \/ Kill(r)
      PROVE  Finalizing'
  BY <1>1, <1>2, StepKeeps
<1>3. ASSUME NEW n \in Names, GuestHalts(n) \/ Abort(n)
      PROVE  Finalizing'
  BY <1>1, <1>3, NotFailed, GuestHaltsKeeps DEF Abort
<1>4. CASE InstallationEnds \/ UserStopsBase
  BY <1>1, <1>4, InstallationEndsKeeps, UserStopsBaseKeeps
<1>5. CASE UNCHANGED vars
  BY <1>1, <1>5, OutsideKeeps, AnsweredOutside
  DEF vars, machines, Finalizing, RunIsWell, BaseIsWell
<1>. QED
  BY <1>2, <1>3, <1>4, <1>5 DEF Next

LEMMA InitFinalizing == Init => FinalizingOK
<1> SUFFICES ASSUME Init PROVE Finalizing
  BY DEF FinalizingOK
<1>1. PICK b \in Bases : vm = [n \in Names |-> IF n = Base THEN b ELSE NoVM]
  BY DEF Init
<1>2. /\ vm[Base].power \in {"absent", "off"}
      /\ vm[Base].power = "absent" => vm[Base].disk = "none"
      /\ NoBaseRules => vm[Base].baseRule = NoPort
  BY <1>1, BasesAssumption DEF Names, NoVM, NoBaseRules
<1>3. ASSUME NEW r \in Runs
      PROVE  /\ pc[r] \in {"create", "finalize"} /\ seen[r] = "unasked"
             /\ command[r] = "finalize" => pc[r] = "finalize"
             /\ raised[r] = "" /\ session[r] # Base
  <2>1. /\ pc[r] = IF command[r] = "finalize" THEN "finalize" ELSE "create"
        /\ seen[r] = "unasked" /\ raised[r] = "" /\ session[r] = NoName
    BY DEF Init
  <2>2. NoName # Base
    BY DEF NoName, Base
  <2>. QED
    BY <2>1, <2>2
<1>4. ASSUME NEW r \in Runs PROVE RunIsWell(r)
  BY <1>3 DEF RunIsWell, Deals, Creating, Upgrading, Exceptions
<1>5. BaseIsWell /\ HaltIsWatched
  BY <1>2 DEF BaseIsWell, HaltIsWatched
<1>6. RuleIsAnswered
  BY <1>2 DEF RuleIsAnswered
<1>7. OneCreator /\ StaysOff
  BY <1>3 DEF OneCreator, StaysOff, Creating, Finalizers, SeesOff
<1>. QED
  BY <1>4, <1>5, <1>6, <1>7 DEF Finalizing

LEMMA Finalizations == Spec => [](IInv /\ FinalizingOK)
<1>1. IInv /\ FinalizingOK /\ [Next]_vars => FinalizingOK'
  BY FinalizingStep DEF IInv
<1>. QED
  BY <1>1, InitFinalizing, Invariance, PTL DEF Spec

\* Where the base starts without the temporary forward, it has none when the
\* finalizations have ended and nothing failed by itself, however they
\* interleaved, removed each other's forward, or failed to reach the guest or
\* to install in it (_remove_base_vm_nat_forward ignores its errors); but for
\* the exceptions that NoForwardLeft names.
THEOREM ForwardsRemoved == NoBaseRules => (Spec => []NoForwardLeft)
<1> SUFFICES ASSUME NoBaseRules PROVE Spec => []NoForwardLeft
  OBVIOUS
<1>1. FinalizingOK => NoForwardLeft
  <2> SUFFICES ASSUME FinalizingOK, faults = 0,
                      \A r \in Finalizers : pc[r] \in Ended \ {"killed"},
                      \A r \in Finalizers :
                        raised[r] \notin {"startBase", "shutdown", "waitBase"}
               PROVE  vm[Base].baseRule = NoPort
    BY DEF NoForwardLeft
  <2>1. \A r \in Finalizers : ~Answers(r)
    BY DEF Answers, Excepted, Exceptions, Ended
  <2>. QED
    BY <2>1 DEF FinalizingOK, Finalizing, RuleIsAnswered
<1>. QED
  BY <1>1, Finalizations, PTL

\* A finalization that reports FINALIZED left a base that has the packages,
\* and that is off when no other finalization is about: also when runs shared
\* its port, and a clone or another machine answered in its stead
\* (finalize_base_vm waits until the base is seen not to be running).
THEOREM FinalizedBasesAreReady == Spec => []FinalizedIsReady
<1>1. IInv /\ FinalizingOK => FinalizedIsReady
  <2> SUFFICES ASSUME FinalizingOK, faults = 0, IInv,
                      NEW r \in Finalizers, pc[r] = "done"
               PROVE  /\ vm[Base].disk = "ready"
                      /\ Finalizers = {r} => vm[Base].power = "off"
    BY DEF FinalizedIsReady
  <2>1. RunIsWell(r) /\ StaysOff /\ command[r] = "finalize"
    BY DEF FinalizingOK, Finalizing, Finalizers
  <2>. QED
    BY <2>1 DEF RunIsWell, Deals, StaysOff, SeesOff
<1>. QED
  BY <1>1, Finalizations, PTL
-----------------------------------------------------------------------------
(***************************************************************************)
(* The clones are as DisposableClones promises.                            *)
(***************************************************************************)

\* A run looks at a machine only at the points that ask for it.
Asks == \A q \in Runs : seen[q] # "unasked" => pc[q] \in QueryPoints

\* A step of a run ends its look, unless it is the look.
LEMMA StepGoes ==
  ASSUME NEW r \in Runs, Step(r) \/ TimeOut(r) \/ Kill(r)
  PROVE  \/ Query(r) /\ UNCHANGED pc /\ \E s : seen' = [seen EXCEPT ![r] = s]
         \/ \E b : Goto(r, b)
<1> USE DEF Continue, Finish
<1>1. ASSUME Raise(r) PROVE \E b : Goto(r, b)
  BY <1>1 DEF Raise
<1>2. CASE Query(r)
  BY <1>1, <1>2 DEF Query, ListVms, ShowInfo, Saw, QueryFails
<1>3. CASE \/ ChooseByState(r) \/ NameClone(r) \/ Connect(r) \/ RunScript(r)
           \/ ChooseRemoval(r) \/ ChooseFinalization(r) \/ LookAgain(r)
           \/ TimeOut(r) \/ Kill(r)
  BY <1>1, <1>3
  DEF ChooseByState, NameClone, Connect, RunScript, ChooseRemoval,
      ChooseFinalization, LookAgain, TimeOut, Kill
<1>4. CASE DeleteForward(r)
  BY <1>4 DEF DeleteForward, AfterDelete
<1>5. CASE \/ CreateVm(r) \/ PrepareBase(r) \/ InstallBase(r)
           \/ CloneVm(r) \/ ForwardClone(r) \/ StartClone(r)
           \/ PowerOff(r) \/ Unregister(r)
           \/ AddForwardStopped(r) \/ AddForwardRunning(r) \/ StartBase(r)
  BY <1>1, <1>5
  DEF CreateVm, PrepareBase, InstallBase, CloneVm, ForwardClone, StartClone,
      PowerOff, Unregister, AddForwardStopped, AddForwardRunning, StartBase,
      VBoxManage
<1>6. CASE InstallPackages(r) \/ ShutDownGuest(r)
  BY <1>1, <1>6 DEF InstallPackages, ShutDownGuest
<1>. QED
  BY <1>2, <1>3, <1>4, <1>5, <1>6 DEF Step

\* A step is a step of one run, or leaves all of them where they are.
Alone(r) == \A q \in Runs \ {r} : pc'[q] = pc[q] /\ seen'[q] = seen[q]

LEMMA OneSteps ==
  ASSUME Knows, [Next]_vars
  PROVE  \/ UNCHANGED <<pc, seen, saved>>
         \/ \E r \in Runs : (Step(r) \/ TimeOut(r) \/ Kill(r)) /\ Alone(r)
<1>1. ASSUME NEW r \in Runs, Step(r) \/ TimeOut(r) \/ Kill(r)
      PROVE  Alone(r)
  BY <1>1, StepGoes, Goes DEF Alone, Knows, Control
<1>2. ASSUME World PROVE UNCHANGED <<pc, seen, saved>>
  BY <1>2
  DEF World, GuestHalts, Abort, InstallationEnds, UserStopsBase, process
<1>. QED
  BY <1>1, <1>2 DEF Next, World, vars, process

LEMMA AsksStep ==
  ASSUME Knows, Asks, [Next]_vars
  PROVE  Asks'
<1>1. CASE UNCHANGED <<pc, seen>>
  BY <1>1 DEF Asks
<1>2. ASSUME NEW r \in Runs, Step(r) \/ TimeOut(r) \/ Kill(r), Alone(r)
      PROVE  Asks'
  <2>1. CASE \E b : Goto(r, b)
    BY <1>2, <2>1, Goes DEF Asks, Alone
  <2>2. CASE Query(r) /\ UNCHANGED pc
    <3>1. pc[r] \in QueryPoints
      BY <2>2 DEF Query, ListVms, ShowInfo, Asks
    <3>. QED
      BY <1>2, <2>2, <3>1 DEF Asks, Alone
  <2>. QED
    BY <1>2, <2>1, <2>2, StepGoes
<1>. QED
  BY <1>1, <1>2, OneSteps

\* How a run comes to its clone and to its end.
Proceeds(r) ==
  \/ Stage(r)' = Stage(r)
  \/ Stage(r) # "after" /\ Stage(r)' = "after"
  \/ /\ pc[r] = "cloneVm" /\ vm[stamp[r]] = NoVM
     /\ Stage(r) = "before" /\ Stage(r)' = "using"

LEMMA StageIs ==
  ASSUME NEW r \in Runs
  PROVE  /\ Stage(r) = "after" <=> pc[r] \in Ended
         /\ Stage(r) = "using" <=> HasClone(r)
         /\ Stage(r) \in {"before", "using", "after"}
  BY DEF Stage, HasClone, CloneWork, Ended

LEMMA GoesOn ==
  ASSUME Knows, NEW r \in Runs, NEW b, Goto(r, b), command' = command,
         pc[r] \notin Ended,
         \/ b \in Ended
         \/ b \in CloneWork \/ (b = "connect" /\ command[r] = "run")
              <=> HasClone(r)
  PROVE  Proceeds(r)
<1>1. pc'[r] = b /\ command'[r] = command[r]
  BY Goes
<1>. QED
  BY <1>1 DEF Proceeds, Stage, HasClone, CloneWork, Ended

LEMMA RaisesOn ==
  ASSUME Knows, NEW r \in Runs, Raise(r), command' = command,
         pc[r] \notin Ended
  PROVE  Proceeds(r)
<1>1. PICK b \in {"removeForward", "removeClone", "failed"} :
        /\ Goto(r, b)
        /\ b = "removeForward" =>
             /\ command[r] = "finalize"
             /\ pc[r] \in {"connect", "install", "shutdown", "waitBase"}
        /\ b = "removeClone" =>
             command[r] # "finalize" /\ pc[r] \in {"connect", "script"}
  BY DEF Raise
<1>2. command[r] \in {"run", "finalize"}
  BY RunFacts
<1>. QED
  BY <1>1, <1>2, GoesOn DEF HasClone, CloneWork, Ended

LEMMA CommandStays == ASSUME [Next]_vars PROVE command' = command
  BY RestKeeps DEF RestKept

LEMMA StageStep ==
  ASSUME Knows, Asks, [Next]_vars, NEW r \in Runs,
         Step(r) \/ TimeOut(r) \/ Kill(r)
  PROVE  Proceeds(r)
<1> USE DEF Continue
<1>1. command' = command
  BY CommandStays
<1>2. Has(r, pc[r]) /\ command[r] \in {"run", "finalize"}
  BY RunFacts
<1>3. ASSUME Finish(r), pc[r] \notin Ended PROVE Proceeds(r)
  BY <1>1, <1>3, GoesOn DEF Finish, Ended
<1>4. CASE Query(r)
  <2>1. pc[r] \in QueryPoints /\ pc[r] \notin Ended
    BY <1>4 DEF Query, ListVms, ShowInfo, Asks, QueryPoints, Ended
  <2>2. UNCHANGED pc \/ Raise(r)
    BY <1>4 DEF Query, ListVms, ShowInfo, Saw, QueryFails
  <2>. QED
    BY <1>1, <2>1, <2>2, RaisesOn DEF Proceeds, Stage
<1>5. CASE ChooseByState(r) \/ NameClone(r) \/ ChooseFinalization(r)
  BY <1>1, <1>2, <1>5, GoesOn
  DEF ChooseByState, NameClone, ChooseFinalization, HasClone, CloneWork, Ended
<1>6. CASE Kill(r)
  BY <1>1, <1>6, GoesOn DEF Kill, Ended
<1>7. CASE Connect(r)
  BY <1>1, <1>2, <1>7, GoesOn, RaisesOn DEF Connect, HasClone, CloneWork, Ended
<1>8. CASE RunScript(r) \/ ChooseRemoval(r)
  BY <1>1, <1>3, <1>8, GoesOn, RaisesOn
  DEF RunScript, ChooseRemoval, HasClone, CloneWork, Ended
<1>9. CASE LookAgain(r) \/ TimeOut(r)
  BY <1>1, <1>2, <1>9, GoesOn, RaisesOn
  DEF LookAgain, TimeOut, Has, PlaceAt, HasClone, CloneWork, Ended
<1>10. CASE CreateVm(r) \/ InstallBase(r)
  BY <1>1, <1>10, GoesOn, RaisesOn
  DEF CreateVm, InstallBase, VBoxManage, HasClone, CloneWork, Ended
<1>17. CASE PrepareBase(r)
  BY <1>1, <1>17, GoesOn, RaisesOn, PreparingSteps
  DEF Continue, Preparing, HasClone, CloneWork, Ended
<1>11. CASE CloneVm(r)
  <2>1. pc[r] = "cloneVm"
    BY <1>11 DEF CloneVm
  <2>2. \/ Raise(r)
        \/ vm[stamp[r]] = NoVM /\ Goto(r, "forwardClone")
    BY <1>11 DEF CloneVm, VBoxManage
  <2>3. CASE vm[stamp[r]] = NoVM /\ Goto(r, "forwardClone")
    BY <2>1, <2>3, Goes DEF Proceeds, Stage, Ended
  <2>. QED
    BY <1>1, <2>1, <2>2, <2>3, RaisesOn DEF Ended
<1>12. CASE ForwardClone(r) \/ StartClone(r)
  BY <1>1, <1>2, <1>12, GoesOn, RaisesOn
  DEF ForwardClone, StartClone, VBoxManage, Has, PlaceAt, HasClone, CloneWork,
      Ended
<1>13. CASE PowerOff(r) \/ Unregister(r)
  BY <1>1, <1>13, GoesOn, RaisesOn
  DEF PowerOff, Unregister, VBoxManage, HasClone, CloneWork, Ended
<1>14. CASE DeleteForward(r)
  BY <1>1, <1>3, <1>14, GoesOn
  DEF DeleteForward, AfterDelete, HasClone, CloneWork, Ended
<1>15. CASE AddForwardStopped(r) \/ AddForwardRunning(r) \/ StartBase(r)
  BY <1>1, <1>2, <1>15, GoesOn, RaisesOn
  DEF AddForwardStopped, AddForwardRunning, StartBase, VBoxManage, Has,
      PlaceAt, HasClone, CloneWork, Ended
<1>16. CASE InstallPackages(r) \/ ShutDownGuest(r)
  BY <1>1, <1>16, GoesOn, RaisesOn
  DEF InstallPackages, ShutDownGuest, HasClone, CloneWork, Ended
<1>. QED
  BY <1>4, <1>5, <1>6, <1>7, <1>8, <1>9, <1>10, <1>11, <1>12, <1>13, <1>14,
     <1>15, <1>16, <1>17
  DEF Step

\* A run that saves results has a clone, and does nothing to the machines.
LEMMA SavingStep ==
  ASSUME NEW r \in Runs, Step(r) \/ TimeOut(r) \/ Kill(r)
  PROVE  \/ saved' = saved
         \/ HasClone(r) /\ saved' = [saved EXCEPT ![stamp[r]] = r] /\ vm' = vm
<1>1. CASE RunScript(r)
  BY <1>1 DEF RunScript, HasClone, CloneWork, machines
<1>2. CASE ~RunScript(r)
  BY <1>2
  DEF Step, OtherwiseUnchanged, Query, ListVms, ShowInfo, ChooseByState,
      CreateVm, PrepareBase, InstallBase, NameClone, CloneVm, ForwardClone,
      StartClone, Connect, ChooseRemoval, PowerOff, Unregister,
      ChooseFinalization, DeleteForward, AddForwardStopped, AddForwardRunning,
      StartBase, InstallPackages, ShutDownGuest, LookAgain, TimeOut, Kill
<1>. QED
  BY <1>1, <1>2

\* The name of a clone changes hands by a step of the run that is given it or
\* gives it up.
LEMMA HandsStep ==
  ASSUME IInv, [Next]_vars, NEW s \in Seconds
  PROVE  \/ vm'[s].owner = vm[s].owner
         \/ \E r \in Runs : Made(s, r)
         \/ \E r \in Runs : Removed(s, r)
<1>1. s \in Names /\ s # Base
  BY DEF Names, Seconds, Base
<1>2. Touched(s)
  BY <1>1, TouchStep DEF IInv
<1>. QED
  BY <1>1, <1>2 DEF Touched, Kept, Forwarded, Opened

\* A run makes one clone at most, only the run that has it saves results and
\* removes it, and what a run leaves stays, also when runs share a second and
\* whatever fails (clonevm outside the try, stop_and_remove_vm_clone in its
\* finally).
THEOREM ImplementsDisposal == Spec => ClonesSpec
<1> DEFINE stages == [r \in Runs |-> Stage(r)]
           owners == [s \in Seconds |-> vm[s].owner]
<1>1. Init => Asks /\ Disposal!Init
  <2> SUFFICES ASSUME Init PROVE Asks /\ Disposal!Init
    OBVIOUS
  <2>1. ASSUME NEW r \in Runs PROVE Stage(r) = "before"
    BY DEF Init, Stage, Ended
  <2>2. ASSUME NEW s \in Seconds PROVE vm[s].owner = NoRun
    <3>1. s \in Names /\ s # Base
      BY BoundsAssumption DEF Names, Seconds, Base
    <3>2. vm[s] = NoVM
      BY <3>1 DEF Init
    <3>. QED
      BY <3>2 DEF NoVM
  <2>3. Asks
    BY DEF Init, Asks
  <2>. QED
    BY <2>1, <2>2, <2>3 DEF Init, Disposal!Init
<1>2. IInv /\ Asks /\ [Next]_vars => Asks'
  BY AsksStep DEF IInv
<1>3. IInv /\ IInv' /\ Asks /\ [Next]_vars
        => [Disposal!Next]_<<stages, owners, saved>>
  <2> SUFFICES ASSUME IInv, IInv', Asks, [Next]_vars
               PROVE  [Disposal!Next]_<<stages, owners, saved>>
    OBVIOUS
  <2>1. command' = command
    BY CommandStays
  <2>2. ASSUME NEW r \in Runs, pc'[r] = pc[r] PROVE Stage(r)' = Stage(r)
    BY <2>1, <2>2 DEF Stage
  <2>3. CASE UNCHANGED <<pc, seen, saved>>
    <3>1. ASSUME NEW s \in Seconds PROVE vm'[s].owner = vm[s].owner
      BY <2>3, HandsStep DEF Made, Removed, Ended
    <3>. QED
      BY <2>2, <2>3, <3>1
  <2>4. ASSUME NEW r \in Runs, Step(r) \/ TimeOut(r) \/ Kill(r), Alone(r)
        PROVE  [Disposal!Next]_<<stages, owners, saved>>
    <3>1. Proceeds(r)
      BY <2>4, StageStep DEF IInv
    <3>2. stages' = [stages EXCEPT ![r] = Stage(r)']
      BY <2>2, <2>4 DEF Alone
    <3>3. HasClone(r) => vm[stamp[r]].owner = r /\ stamp[r] \in Seconds
      <4>1. HasClone(r) => stamp[r] \in Seconds
        BY RunFacts DEF IInv, Has, PlaceAt, HasClone
      <4>. QED
        BY <4>1 DEF IInv, Mine
    <3>4. ASSUME NEW s \in Seconds
          PROVE  \/ vm'[s].owner = vm[s].owner
                 \/ Made(s, r)
                 \/ Removed(s, r)
      BY <2>4, HandsStep DEF Alone, Made, Removed, Ended
    <3>5. CASE \E s \in Seconds : Made(s, r)
      <4>1. PICK s \in Seconds : Made(s, r)
        BY <3>5
      <4>2. Stage(r) = "before" /\ Stage(r)' = "using"
        BY <4>1 DEF Made, Stage, Ended
      <4>3. owners[s] = NoRun /\ owners' = [owners EXCEPT ![s] = r]
        <5>1. vm[s].owner = NoRun /\ vm'[s].owner = r
          BY <4>1 DEF Made, NoVM
        <5>2. \A q \in Seconds \ {s} : vm'[q].owner = vm[q].owner
          BY <3>4, <4>1 DEF Made, Removed
        <5>. QED
          BY <5>1, <5>2
      <4>4. saved' = saved
        BY <2>4, <4>1, SavingStep DEF Made, HasClone, CloneWork
      <4>5. Disposal!Clone(r, s)
        BY <3>2, <4>2, <4>3, <4>4 DEF Disposal!Clone
      <4>. QED
        BY <4>5 DEF Disposal!Next
    <3>6. CASE \E s \in Seconds : Removed(s, r)
      <4>1. PICK s \in Seconds : Removed(s, r)
        BY <3>6
      <4>2. Stage(r) = "using" /\ Stage(r)' = "after"
        BY <4>1 DEF Removed, Stage, Ended
      <4>3. owners[s] = r /\ owners' = [owners EXCEPT ![s] = NoRun]
        <5>1. vm[s].owner = r /\ vm'[s].owner = NoRun
          BY <3>3, <4>1 DEF Removed, NoVM, HasClone, CloneWork
        <5>2. \A q \in Seconds \ {s} : vm'[q].owner = vm[q].owner
          BY <3>4, <4>1 DEF Made, Removed
        <5>. QED
          BY <5>1, <5>2
      <4>4. saved' = saved
        <5>1. vm' # vm
          BY <4>1, <4>3, NoRunAssumption DEF Removed, NoVM
        <5>. QED
          BY <2>4, <5>1, SavingStep
      <4>5. Disposal!Remove(r, s)
        BY <3>2, <4>2, <4>3, <4>4 DEF Disposal!Remove
      <4>. QED
        BY <4>5 DEF Disposal!Next
    <3>7. CASE \A s \in Seconds : ~Made(s, r) /\ ~Removed(s, r)
      <4>1. owners' = owners
        BY <3>4, <3>7
      <4>2. \/ Stage(r)' = Stage(r)
            \/ Stage(r) # "after" /\ Stage(r)' = "after"
        <5> SUFFICES ASSUME pc[r] = "cloneVm", vm[stamp[r]] = NoVM,
                            Stage(r)' = "using"
                     PROVE  FALSE
          BY <3>1 DEF Proceeds
        <5>1. HasClone(r)'
          BY DEF Stage, HasClone, CloneWork
        <5>2. stamp[r] \in Seconds
          BY RunFacts DEF IInv, Has, PlaceAt
        <5>3. vm'[stamp[r]].owner = r
          BY <5>1, RunStep DEF IInv, Mine, Advances, StaysIn
        <5>4. vm'[stamp[r]].owner = NoRun
          BY <3>4, <3>7, <5>2 DEF NoVM
        <5>. QED
          BY <5>3, <5>4, NoRunAssumption
      <4>3. CASE saved' = saved
        <5>1. CASE Stage(r)' = Stage(r)
          BY <3>2, <4>1, <4>3, <5>1
        <5>2. CASE Stage(r) # "after" /\ Stage(r)' = "after"
          BY <3>2, <4>1, <4>3, <5>2 DEF Disposal!Next, Disposal!Leave
        <5>. QED
          BY <4>2, <5>1, <5>2
      <4>4. CASE saved' # saved
        <5>1. HasClone(r) /\ saved' = [saved EXCEPT ![stamp[r]] = r]
          BY <2>4, <4>4, SavingStep
        <5>2. /\ Stage(r) = "using" /\ stamp[r] \in Seconds
              /\ owners[stamp[r]] = r
          BY <3>3, <5>1, StageIs
        <5>3. stages' = stages \/ stages' = [stages EXCEPT ![r] = "after"]
          BY <3>2, <4>2
        <5>4. Disposal!Save(r, stamp[r])
          BY <4>1, <5>1, <5>2, <5>3 DEF Disposal!Save
        <5>. QED
          BY <5>2, <5>4 DEF Disposal!Next
      <4>. QED
        BY <4>3, <4>4
    <3>. QED
      BY <3>5, <3>6, <3>7
  <2>. QED
    BY <2>3, <2>4, OneSteps DEF IInv
<1>. QED
  BY <1>1, <1>2, <1>3, Invariance, PTL
  DEF Spec, ClonesSpec, Disposal!Spec, Disposal!vars
=============================================================================
