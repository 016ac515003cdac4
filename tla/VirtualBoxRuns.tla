--------------------------- MODULE VirtualBoxRuns ---------------------------
(***************************************************************************)
(* Runs of the VirtualBox harness that share one base machine and one base *)
(* directory: virtualbox_sandbox.cli.main, virtual_machine_factory and     *)
(* virtual_machine_setup.                                                  *)
(*                                                                         *)
(* A run is told to finalize the base, or else it looks at the base and    *)
(* creates it, does nothing, or clones it and works in the clone.  Every   *)
(* look at a machine is up to three VBoxManage commands, every change is   *)
(* one, and another run or the guest may act between any two of them.  A   *)
(* VBoxManage command that fails raises RuntimeError; two try statements   *)
(* have a finally: the one around the work in a clone, which removes it,   *)
(* and the one around the installation in the base, which removes the NAT  *)
(* forward the base was given for it.                                      *)
(***************************************************************************)
EXTENDS Integers

CONSTANTS
  Runs,      \* the invocations of the command
  NoRun,     \* stands for the owner of what no run cloned
  Bases,     \* the machines the base may be at the start (a subset of VMs)
  Commands,  \* what the runs may be told to do (a set of functions on Runs)
  Ports,     \* host ports the system hands out
  MaxSecond, \* bound: seconds in which runs name their clones
  MaxFaults  \* bound: commands that fail, and machines that abort, by themselves

ASSUME NoRunAssumption == NoRun \notin Runs
ASSUME CommandsAssumption == Commands \subseteq [Runs -> {"run", "finalize"}]
ASSUME PortsAssumption == Ports \subseteq Nat \ {0}
ASSUME BoundsAssumption == MaxSecond \in Nat /\ MaxFaults \in Nat

VARIABLES
  pc,       \* where each run stands
  command,  \* whether it has --finalize-base
  keep,     \* its --keep-vm flag
  seen,     \* how far its look at a machine has come, and what it saw
  raised,   \* where the latest exception was raised, "" when none was
  stamp,    \* the second its clone is named after, 0 before it has one
  port,     \* the host port it picked, 0 before it has one
  session,  \* the machine its SSH session reached
  vm,       \* the machines: the base, and a clone per second
  bound,    \* per host port: the machine whose NAT engine listens on it
  saved,    \* per second: the run that saved results in runs/run-<second>
  faults    \* commands and machines that failed by themselves so far

process == <<pc, command, keep, seen, raised, stamp, port, session>>
machines == <<vm, bound>>
vars == <<process, machines, saved, faults>>

----------------------------------------------------------------------------
\* Types.

Seconds == 1..MaxSecond
Base == 0
Names == {Base} \cup Seconds
NoName == -1
NoPort == 0
SomePort == Ports \cup {NoPort}

Ended == {"done", "refused", "failed", "killed"}
QueryPoints == {"create", "finalize", "clearStopped", "clearRunning",
                "waitBase", "removeForward", "removeClone", "waitClone"}
Preparing == {"modifyBase", "createDisk", "addController", "attachDisk"}
Points == QueryPoints \cup Ended \cup Preparing \cup
          {"createVm", "installBase", "clone", "cloneVm", "forwardClone",
           "startClone", "connect", "script", "powerOff", "unregister",
           "addStopped", "addRunning", "startBase", "install", "shutdown"}

MachineStates == {"NOT_CREATED", "RUNNING", "STOPPED", "OTHER"}
Seen == MachineStates \cup {"unasked", "notRunning"}

\* A machine that is halting is still among the running ones.
Powers == {"absent", "off", "on", "halting", "aborted"}
Online == {"on", "halting"}
Disks == {"none", "empty", "installing", "installed", "ready"}

\* baseRule is the forward "sandbox-base-ssh", ownRule is "sandbox-ssh".
VMs == [power: Powers, disk: Disks, baseRule: SomePort, ownRule: SomePort,
        owner: Runs \cup {NoRun}]
NoVM == [power |-> "absent", disk |-> "none", baseRule |-> NoPort,
         ownRule |-> NoPort, owner |-> NoRun]

ASSUME BasesAssumption ==
  \A b \in Bases : /\ b \in VMs /\ b.power \in {"absent", "off"}
                   /\ b.power = "absent" => b = NoVM

----------------------------------------------------------------------------
\* Helpers.

Finalizers == {r \in Runs : command[r] = "finalize"}

\* The machine a look is about.
Subject(r) == IF pc[r] \in {"removeClone", "waitClone"} THEN stamp[r] ELSE Base

Rules(n) == {vm[n].baseRule, vm[n].ownRule} \ {NoPort}

\* The NAT engine of a machine that goes online takes the ports of its rules
\* that are free, and gives up its ports when it goes offline.
Listen(n, ports) == [p \in Ports |-> IF p \in ports /\ bound[p] = NoName
                                       THEN n ELSE bound[p]]
Silence(n) == [p \in Ports |-> IF bound[p] = n THEN NoName ELSE bound[p]]

\* The system hands out a port on which nothing listens.  Ports that no run has
\* had are alike, so the lowest of them stands for all.
FreePorts ==
  {p \in Ports : /\ bound[p] = NoName
                 /\ \A q \in Ports : q < p => \E r \in Runs : port[r] = q}

\* The clock shows the second the latest clone was named in, or a later one;
\* all that matters of a second is whether runs share it.
Now == {s \in Seconds : /\ \A r \in Runs : stamp[r] <= s
                        /\ \E r \in Runs : s <= stamp[r] + 1}

Succeeds == faults' = faults
Fails == faults < MaxFaults /\ faults' = faults + 1

\* The next step of the program; a look that it starts with is still to come.
Goto(r, point) == /\ pc' = [pc EXCEPT ![r] = point]
                  /\ seen' = [seen EXCEPT ![r] = "unasked"]
Continue(r, point) == Goto(r, point) /\ UNCHANGED raised
Finish(r) == Continue(r, IF raised[r] = "" THEN "done" ELSE "failed")

\* (Defect: no finally.)
RaiseUnhandled(r) ==
  /\ raised' = [raised EXCEPT ![r] = pc[r]]
  /\ Goto(r, "failed")

\* An exception: the finally of the try it is raised in, or the end.
Raise(r) ==
  /\ raised' = [raised EXCEPT ![r] = pc[r]]
  /\ Goto(r, IF command[r] = "finalize"
             THEN IF pc[r] \in {"connect", "install", "shutdown", "waitBase"}
                    THEN "removeForward" ELSE "failed"
             ELSE IF pc[r] \in {"connect", "script"} /\ ~keep[r]
                    THEN "removeClone" ELSE "failed")

\* _run_vboxmanage: a command that can be carried out, one that VirtualBox
\* refuses, and one that fails by itself.
VBoxManage(r, possible, effect, point) ==
  \/ possible /\ Succeeds /\ effect /\ Continue(r, point)
  \/ ~possible /\ Succeeds /\ UNCHANGED machines /\ Raise(r)
  \/ Fails /\ UNCHANGED machines /\ Raise(r)

OtherwiseUnchanged ==
  UNCHANGED <<command, keep, stamp, port, session, saved>>

----------------------------------------------------------------------------
Init ==
  /\ command \in Commands
  /\ pc = [r \in Runs |-> IF command[r] = "finalize" THEN "finalize" ELSE "create"]
  /\ keep \in {k \in [Runs -> BOOLEAN] : \A r \in Finalizers : ~k[r]}
  /\ seen = [r \in Runs |-> "unasked"]
  /\ raised = [r \in Runs |-> ""]
  /\ stamp = [r \in Runs |-> 0]
  /\ port = [r \in Runs |-> NoPort]
  /\ session = [r \in Runs |-> NoName]
  /\ \E b \in Bases : vm = [n \in Names |-> IF n = Base THEN b ELSE NoVM]
  /\ bound = [p \in Ports |-> NoName]
  /\ saved = [s \in Seconds |-> NoRun]
  /\ faults = 0

----------------------------------------------------------------------------
\* _get_virtual_machine_state: list vms, list runningvms, showvminfo.

Saw(r, s) == /\ seen' = [seen EXCEPT ![r] = s]
             /\ Succeeds
             /\ UNCHANGED <<pc, raised>>
QueryFails(r) == Fails /\ Raise(r)

\* The lists of machines; what is registered stays so between the two.
ListVms(r) ==
  LET power == vm[Subject(r)].power
  IN /\ pc[r] \in QueryPoints /\ seen[r] = "unasked"
     /\ \/ Saw(r, IF power = "absent" THEN "NOT_CREATED"
                  ELSE IF power \in Online THEN "RUNNING" ELSE "notRunning")
        \/ QueryFails(r)
     /\ UNCHANGED <<command, keep, stamp, port, session, machines, saved>>

ShowInfo(r) ==
  /\ seen[r] = "notRunning"
  /\ \/ Saw(r, IF vm[Subject(r)].power = "off" THEN "STOPPED" ELSE "OTHER")
     \/ QueryFails(r)
  /\ UNCHANGED <<command, keep, stamp, port, session, machines, saved>>

Query(r) == ListVms(r) \/ ShowInfo(r)

----------------------------------------------------------------------------
\* create_vm_clone.

\* A base that is missing is created when there is an installer, a running one
\* is left alone, a stopped one is cloned.
ChooseByState(r) ==
  /\ pc[r] = "create" /\ seen[r] \in MachineStates
  /\ \/ seen[r] = "NOT_CREATED" /\ Continue(r, "refused")
     \/ seen[r] = "NOT_CREATED" /\ Continue(r, "createVm")
     \/ seen[r] = "RUNNING" /\ Continue(r, "done")
     \/ seen[r] = "STOPPED" /\ Continue(r, "clone")
     \/ seen[r] = "OTHER" /\ Continue(r, "refused")
  /\ UNCHANGED <<command, keep, stamp, port, session, machines, saved,
                 faults>>

\* createvm --register: refused when the name is taken.
CreateVm(r) ==
  /\ pc[r] = "createVm"
  /\ VBoxManage(r, vm[Base].power = "absent",
                vm' = [vm EXCEPT ![Base].power = "off"] /\ UNCHANGED bound,
                "modifyBase")
  /\ OtherwiseUnchanged

\* modifyvm, createmedium, storagectl and storageattach, one after the other.
\* All but createmedium are refused when the base is online: from createvm on
\* another run may clone it, or start it to finalize it.
AfterPreparing == [modifyBase |-> "createDisk", createDisk |-> "addController",
                   addController |-> "attachDisk", attachDisk |-> "installBase"]

PrepareBase(r) ==
  /\ pc[r] \in Preparing
  /\ VBoxManage(r, pc[r] = "createDisk" \/ vm[Base].power \notin Online,
                /\ IF pc[r] = "attachDisk"
                     THEN vm' = [vm EXCEPT ![Base].disk = "empty"]
                     ELSE UNCHANGED vm
                /\ UNCHANGED bound,
                AfterPreparing[pc[r]])
  /\ OtherwiseUnchanged

\* unattended install --start-vm: main returns 0 while the guest installs.
InstallBase(r) ==
  /\ pc[r] = "installBase"
  /\ VBoxManage(r, vm[Base].power \notin Online,
                /\ vm' = [vm EXCEPT ![Base].power = "on", ![Base].disk = "installing"]
                /\ bound' = Listen(Base, Rules(Base)),
                "done")
  /\ OtherwiseUnchanged

\* _clone_and_start_run_vm: the clone takes its name from the clock, a free
\* port is asked for and given back, and the run directory is made, or shared.
NameClone(r) ==
  /\ pc[r] = "clone"
  /\ \E s \in Now : stamp' = [stamp EXCEPT ![r] = s]
  /\ \E p \in FreePorts : port' = [port EXCEPT ![r] = p]
  /\ Continue(r, "cloneVm")
  /\ UNCHANGED <<command, keep, session, machines, saved, faults>>

\* (Defect: the command is inside the try whose finally removes the clone.)
CloneVmInTry(r) ==
  /\ pc[r] = "cloneVm"
  /\ Succeeds
  /\ IF vm[Base].power = "off" /\ vm[stamp[r]] = NoVM
       THEN /\ vm' = [vm EXCEPT ![stamp[r]] = [vm[Base] EXCEPT !.owner = r]]
            /\ Continue(r, "forwardClone")
       ELSE UNCHANGED vm /\ Continue(r, "removeClone")
  /\ UNCHANGED bound
  /\ OtherwiseUnchanged

\* clonevm: a copy of the base as it is now, its rules included; refused when
\* the name is taken or the base is online.
CloneVm(r) ==
  /\ pc[r] = "cloneVm"
  /\ VBoxManage(r, vm[Base].power \notin Online /\ vm[stamp[r]] = NoVM,
                /\ vm' = [vm EXCEPT ![stamp[r]] =
                            [vm[Base] EXCEPT !.owner = r, !.power = "off"]]
                /\ UNCHANGED bound,
                "forwardClone")
  /\ OtherwiseUnchanged

ForwardClone(r) ==
  /\ pc[r] = "forwardClone"
  /\ VBoxManage(r, vm[stamp[r]].power = "off",
                vm' = [vm EXCEPT ![stamp[r]].ownRule = port[r]] /\ UNCHANGED bound,
                "startClone")
  /\ OtherwiseUnchanged

StartClone(r) ==
  /\ pc[r] = "startClone"
  /\ VBoxManage(r, vm[stamp[r]].power = "off",
                /\ vm' = [vm EXCEPT ![stamp[r]].power = "on"]
                /\ bound' = Listen(stamp[r], Rules(stamp[r])),
                "connect")
  /\ OtherwiseUnchanged

----------------------------------------------------------------------------
\* _setup_clone_if_started, and stop_and_remove_vm_clone in its finally.

\* (Defect: the port of whichever machine listens, not of the own one.)
ConnectAnywhere(r) ==
  /\ pc[r] = "connect"
  /\ \/ \E p \in Ports :
          /\ bound[p] # NoName
          /\ vm[bound[p]].power = "on" /\ vm[bound[p]].disk \in {"installed", "ready"}
          /\ session' = [session EXCEPT ![r] = bound[p]]
          /\ Continue(r, IF command[r] = "finalize" THEN "install" ELSE "script")
     \/ UNCHANGED session /\ Raise(r)
  /\ UNCHANGED <<command, keep, stamp, port, machines, saved, faults>>

\* _wait_for_ssh: the guest that listens on the port answers once its system
\* is installed, or it does not in time.
Connect(r) ==
  LET n == bound[port[r]]
  IN /\ pc[r] = "connect"
     /\ \/ /\ n # NoName
           /\ vm[n].power = "on" /\ vm[n].disk \in {"installed", "ready"}
           /\ session' = [session EXCEPT ![r] = n]
           /\ Continue(r, IF command[r] = "finalize" THEN "install" ELSE "script")
        \/ UNCHANGED session /\ Raise(r)
     /\ UNCHANGED <<command, keep, stamp, port, machines, saved, faults>>

\* (Defect: --keep-vm is not looked at.)
RunScriptAndRemove(r) ==
  /\ pc[r] = "script"
  /\ \/ /\ vm[session[r]].power = "on"
        /\ saved' = [saved EXCEPT ![stamp[r]] = r]
        /\ Continue(r, "removeClone")
     \/ UNCHANGED saved /\ Raise(r)
  /\ UNCHANGED <<command, keep, stamp, port, session, machines, faults>>

\* The script or agent runs, its artifacts are downloaded and saved, and the
\* finally is entered; or something of it fails.
RunScript(r) ==
  /\ pc[r] = "script"
  /\ \/ /\ vm[session[r]].power = "on"
        /\ saved' = [saved EXCEPT ![stamp[r]] = r]
        /\ IF keep[r] THEN Finish(r) ELSE Continue(r, "removeClone")
     \/ UNCHANGED saved /\ Raise(r)
  /\ UNCHANGED <<command, keep, stamp, port, session, machines, faults>>

ChooseRemoval(r) ==
  /\ pc[r] = "removeClone" /\ seen[r] \in MachineStates
  /\ IF seen[r] = "NOT_CREATED" THEN Finish(r)
     ELSE Continue(r, IF seen[r] = "RUNNING" THEN "powerOff" ELSE "unregister")
  /\ UNCHANGED <<command, keep, stamp, port, session, machines, saved,
                 faults>>

\* controlvm poweroff: refused when the machine is not online any more.
PowerOff(r) ==
  /\ pc[r] = "powerOff"
  /\ VBoxManage(r, vm[stamp[r]].power \in Online,
                vm' = [vm EXCEPT ![stamp[r]].power = "halting"] /\ UNCHANGED bound,
                "waitClone")
  /\ OtherwiseUnchanged

\* unregistervm --delete: refused when the machine is online.
Unregister(r) ==
  /\ pc[r] = "unregister"
  /\ VBoxManage(r, vm[stamp[r]].power \in {"off", "aborted"},
                vm' = [vm EXCEPT ![stamp[r]] = NoVM] /\ UNCHANGED bound,
                IF raised[r] = "" THEN "done" ELSE "failed")
  /\ OtherwiseUnchanged

----------------------------------------------------------------------------
\* finalize_base_vm.

ChooseFinalization(r) ==
  /\ pc[r] = "finalize" /\ seen[r] \in MachineStates
  /\ \/ /\ seen[r] \in {"NOT_CREATED", "OTHER"}
        /\ Continue(r, "refused")
        /\ UNCHANGED port
     \/ /\ seen[r] \in {"STOPPED", "RUNNING"}
        /\ \E p \in FreePorts : port' = [port EXCEPT ![r] = p]
        /\ Continue(r, IF seen[r] = "STOPPED" THEN "clearStopped" ELSE "clearRunning")
  /\ UNCHANGED <<command, keep, stamp, session, machines, saved, faults>>

AfterDelete(r) ==
  CASE pc[r] = "clearStopped" -> Continue(r, "addStopped")
    [] pc[r] = "clearRunning" -> Continue(r, "addRunning")
    [] pc[r] = "removeForward" -> Finish(r)

\* (Defect: the rule is deleted from the settings of a running machine, whose
\* NAT engine goes on listening.)
DeleteForwardInSettings(r) ==
  /\ pc[r] \in {"clearStopped", "clearRunning", "removeForward"}
  /\ seen[r] \in MachineStates
  /\ Succeeds
  /\ vm' = [vm EXCEPT ![Base].baseRule = NoPort]
  /\ UNCHANGED bound
  /\ AfterDelete(r)
  /\ OtherwiseUnchanged

\* _remove_base_vm_nat_forward: by controlvm on a base it saw running, else by
\* modifyvm; what keeps the command from working is ignored.
DeleteForward(r) ==
  LET online == vm[Base].power \in Online
      works == IF seen[r] = "RUNNING" THEN online ELSE ~online
  IN /\ pc[r] \in {"clearStopped", "clearRunning", "removeForward"}
     /\ seen[r] \in MachineStates
     /\ \/ /\ Succeeds /\ works
           /\ vm' = [vm EXCEPT ![Base].baseRule = NoPort]
           /\ bound' = [p \in Ports |->
                          IF p = vm[Base].baseRule /\ bound[p] = Base
                            THEN NoName ELSE bound[p]]
        \/ Succeeds /\ ~works /\ UNCHANGED machines
        \/ Fails /\ UNCHANGED machines
     /\ AfterDelete(r)
     /\ OtherwiseUnchanged

\* modifyvm --nat-pf1: refused when the base is online or has the rule.
AddForwardStopped(r) ==
  /\ pc[r] = "addStopped"
  /\ VBoxManage(r, vm[Base].power \notin Online /\ vm[Base].baseRule = NoPort,
                vm' = [vm EXCEPT ![Base].baseRule = port[r]] /\ UNCHANGED bound,
                "startBase")
  /\ OtherwiseUnchanged

\* controlvm natpf1: refused when the base is not online or has the rule.
AddForwardRunning(r) ==
  /\ pc[r] = "addRunning"
  /\ VBoxManage(r, vm[Base].power \in Online /\ vm[Base].baseRule = NoPort,
                /\ vm' = [vm EXCEPT ![Base].baseRule = port[r]]
                /\ bound' = Listen(Base, {port[r]}),
                "connect")
  /\ OtherwiseUnchanged

\* startvm, before the try whose finally removes the forward.
StartBase(r) ==
  /\ pc[r] = "startBase"
  /\ VBoxManage(r, vm[Base].power \notin Online,
                /\ vm' = [vm EXCEPT ![Base].power = "on"]
                /\ bound' = Listen(Base, Rules(Base)),
                "connect")
  /\ OtherwiseUnchanged

\* apt-get update and install in the guest that was reached.
InstallPackages(r) ==
  /\ pc[r] = "install"
  /\ \/ /\ vm[session[r]].power = "on"
        /\ vm' = [vm EXCEPT ![session[r]].disk = "ready"]
        /\ Continue(r, "shutdown")
     \/ UNCHANGED vm /\ Raise(r)
  /\ UNCHANGED <<command, keep, stamp, port, session, bound, saved, faults>>

\* shutdown now: its exit status arrives, or the guest goes down with it.
ShutDownGuest(r) ==
  /\ pc[r] = "shutdown"
  /\ \/ /\ vm[session[r]].power = "on"
        /\ vm' = [vm EXCEPT ![session[r]].power = "halting"]
        /\ Continue(r, "waitBase") \/ Raise(r)
     \/ UNCHANGED vm /\ Raise(r)
  /\ UNCHANGED <<command, keep, stamp, port, session, bound, saved, faults>>

\* (Defect: the base is looked at once.)
LookOnce(r) ==
  /\ pc[r] \in {"waitBase", "waitClone"} /\ seen[r] \in MachineStates
  /\ Continue(r, IF pc[r] = "waitBase" THEN "removeForward" ELSE "unregister")
  /\ UNCHANGED <<command, keep, stamp, port, session, machines, saved,
                 faults>>

\* (Defect: the wait for the base ends the program.)
LookAgainOrReturn(r) ==
  /\ pc[r] \in {"waitBase", "waitClone"} /\ seen[r] \in MachineStates
  /\ IF seen[r] = "RUNNING" THEN Continue(r, pc[r])
     ELSE IF pc[r] = "waitBase" THEN Finish(r) ELSE Continue(r, "unregister")
  /\ UNCHANGED <<command, keep, stamp, port, session, machines, saved,
                 faults>>

\* _wait_for_virtual_machine_to_stop, one turn: a machine that is not running
\* has stopped; before the deadline a running one is looked at again.
LookAgain(r) ==
  /\ pc[r] \in {"waitBase", "waitClone"} /\ seen[r] \in MachineStates
  /\ IF seen[r] = "RUNNING" THEN Continue(r, pc[r])
     ELSE Continue(r, IF pc[r] = "waitBase" THEN "removeForward" ELSE "unregister")
  /\ UNCHANGED <<command, keep, stamp, port, session, machines, saved,
                 faults>>

\* (Defect: every turn has a deadline of its own.)
TimeOutRestarting(r) ==
  /\ pc[r] \in {"waitBase", "waitClone"} /\ seen[r] = "RUNNING"
  /\ Continue(r, pc[r])
  /\ UNCHANGED <<command, keep, stamp, port, session, machines, saved,
                 faults>>

\* ... and after the deadline RuntimeError is raised.
TimeOut(r) ==
  /\ pc[r] \in {"waitBase", "waitClone"} /\ seen[r] = "RUNNING"
  /\ Raise(r)
  /\ UNCHANGED <<command, keep, stamp, port, session, machines, saved,
                 faults>>

----------------------------------------------------------------------------
\* The end of a process from outside, an interrupt included.
Kill(r) ==
  /\ pc[r] \notin Ended
  /\ Goto(r, "killed")
  /\ UNCHANGED <<command, keep, raised, stamp, port, session, machines,
                 saved, faults>>

\* A guest that was told to halt is off; a machine aborts by itself; the
\* installation ends; and the user then shuts the base down, as told.
GuestHalts(n) ==
  /\ vm[n].power = "halting"
  /\ vm' = [vm EXCEPT ![n].power = "off"]
  /\ bound' = Silence(n)
  /\ UNCHANGED <<process, saved, faults>>

Abort(n) ==
  /\ vm[n].power \in Online
  /\ Fails
  /\ vm' = [vm EXCEPT ![n].power = "aborted"]
  /\ bound' = Silence(n)
  /\ UNCHANGED <<process, saved>>

InstallationEnds ==
  /\ vm[Base].power = "on" /\ vm[Base].disk = "installing"
  /\ vm' = [vm EXCEPT ![Base].disk = "installed"]
  /\ UNCHANGED <<process, bound, saved, faults>>

UserStopsBase ==
  /\ vm[Base].power = "on" /\ vm[Base].disk = "installed"
  /\ \A r \in Finalizers : pc[r] \in Ended \cup {"finalize"}
  /\ vm' = [vm EXCEPT ![Base].power = "off"]
  /\ bound' = Silence(Base)
  /\ UNCHANGED <<process, saved, faults>>

Step(r) ==
  \/ Query(r)
  \/ ChooseByState(r) \/ CreateVm(r) \/ PrepareBase(r) \/ InstallBase(r)
  \/ NameClone(r) \/ CloneVm(r) \/ ForwardClone(r) \/ StartClone(r)
  \/ Connect(r) \/ RunScript(r)
  \/ ChooseRemoval(r) \/ PowerOff(r) \/ Unregister(r)
  \/ ChooseFinalization(r) \/ DeleteForward(r) \/ AddForwardStopped(r)
  \/ AddForwardRunning(r) \/ StartBase(r) \/ InstallPackages(r) \/ ShutDownGuest(r)
  \/ LookAgain(r)

Next == \/ \E r \in Runs : Step(r) \/ TimeOut(r) \/ Kill(r)
        \/ \E n \in Names : GuestHalts(n) \/ Abort(n)
        \/ InstallationEnds \/ UserStopsBase

Spec == Init /\ [][Next]_vars

\* What a run waits for without a deadline: recv_exit_status and the loop that
\* streams the output of the agent.  The guest may never answer, but its
\* connection breaks when it goes offline.
Conversing(r) ==
  /\ pc[r] \in {"script", "install", "shutdown"}
  /\ vm[session[r]].power \in Online

\* Each process keeps being scheduled and VBoxManage returns; of a guest
\* nothing is assumed, neither that it answers nor that it halts.  The turns of
\* a wait are many but its deadline is one: a wait that comes round for ever
\* times out, which is strong fairness.
FairSpec == /\ Spec
            /\ \A r \in Runs : /\ WF_vars(Step(r) /\ ~Conversing(r))
                              /\ SF_vars(TimeOut(r))
----------------------------------------------------------------------------
\* Properties.

\* Every variable keeps its type, and a port is listened on only by a machine
\* that is online and has a rule for it.
TypeOK ==
  /\ pc \in [Runs -> Points]
  /\ command \in Commands
  /\ keep \in [Runs -> BOOLEAN]
  /\ seen \in [Runs -> Seen]
  /\ raised \in [Runs -> Points \cup {""}]
  /\ stamp \in [Runs -> 0..MaxSecond]
  /\ port \in [Runs -> SomePort]
  /\ session \in [Runs -> Names \cup {NoName}]
  /\ vm \in [Names -> VMs]
  /\ bound \in [Ports -> Names \cup {NoName}]
  /\ saved \in [Seconds -> Runs \cup {NoRun}]
  /\ faults \in 0..MaxFaults
  /\ \A p \in Ports : bound[p] # NoName =>
       vm[bound[p]].power \in Online /\ p \in Rules(bound[p])

\* The system handed a port to one run only, before the machine of the first
\* listened on it.
DistinctPorts ==
  \A r, q \in Runs : r # q /\ port[r] # NoPort => port[r] # port[q]
DistinctSeconds ==
  \A r, q \in Runs : r # q /\ stamp[r] # 0 => stamp[r] # stamp[q]

\* The script or agent of a run works in the run's own clone, although clones
\* inherit the base's temporary forward and runs delete each other's
\* (_wait_for_ssh connects to a port of the host, not to a machine).
SessionIsOwn ==
  DistinctPorts =>
    \A r \in Runs \ Finalizers : session[r] \in {NoName, stamp[r]}

\* A clone disappears only by the removal of the run that cloned it, also when
\* another run of the same second tried to make the same clone
\* (_clone_and_start_run_vm stays outside the try).
OnlyOwnerRemoves ==
  [][\A s \in Seconds :
       vm[s] # NoVM /\ vm'[s] = NoVM =>
         /\ pc[vm[s].owner] = "unregister" /\ stamp[vm[s].owner] = s
         /\ pc'[vm[s].owner] \in Ended]_vars

\* Without --keep-vm a run that ended by itself left no clone, wherever its
\* work failed (stop_and_remove_vm_clone in the finally).  Not covered: a
\* VBoxManage command that fails, a clone that stops by itself just before it
\* is powered off, and one that does not stop within the deadline.
ClonesRemoved ==
  faults = 0 =>
    \A r \in Runs :
      /\ pc[r] \in {"done", "failed"} /\ ~keep[r]
      /\ raised[r] \notin {"powerOff", "waitClone"}
      => \A s \in Seconds : vm[s].owner # r

\* When the finalizations have ended the base has no temporary forward, however
\* they interleaved, removed each other's forward, or failed to reach the guest
\* or to install in it (_remove_base_vm_nat_forward ignores its errors).  Not
\* covered: a VBoxManage command that fails, a base that another run started
\* first, and a base that goes down while its forward is being removed, because
\* the shutdown was reported as failed or took longer than the deadline.
NoForwardLeft ==
  /\ faults = 0
  /\ \A r \in Finalizers : pc[r] \in Ended \ {"killed"}
  /\ \A r \in Finalizers : raised[r] \notin {"startBase", "shutdown", "waitBase"}
  => vm[Base].baseRule = NoPort

\* A run that returned 0 after it cloned saved its results, and with --keep-vm
\* its clone is still there with the port it can be reached on.
KeptForInspection ==
  DistinctSeconds =>
    \A r \in Runs :
      pc[r] = "done" /\ stamp[r] # 0 =>
        /\ saved[stamp[r]] = r
        /\ keep[r] => vm[stamp[r]].owner = r /\ vm[stamp[r]].ownRule = port[r]

\* A finalization that reports FINALIZED left a base that has the packages and,
\* when no other finalization is about, can be cloned at once; also when a clone
\* that inherited the forward, or a machine on the same port, stood in the way
\* (the wait for the base to stop).
FinalizedIsReady ==
  faults = 0 =>
    \A r \in Finalizers :
      pc[r] = "done" => /\ vm[Base].disk = "ready"
                        /\ Finalizers = {r} => vm[Base].power = "off"

\* Whether a run is to have a clone, has one, or is over.
Stage(r) ==
  IF pc[r] \in Ended THEN "after"
  ELSE IF \/ pc[r] \in {"forwardClone", "startClone", "script", "removeClone",
                       "powerOff", "waitClone", "unregister"}
          \/ pc[r] = "connect" /\ command[r] = "run"
         THEN "using"
  ELSE "before"

Disposal == INSTANCE DisposableClones WITH
  stage <- [r \in Runs |-> Stage(r)],
  owner <- [s \in Seconds |-> vm[s].owner],
  results <- saved

\* A run makes one clone at most, nobody else saves results or removes the
\* clone under its name, and what a run leaves stays, also when runs share a
\* second (clonevm outside the try, stop_and_remove_vm_clone in its finally).
ClonesSpec == Disposal!Spec

\* Every run comes to an end, or waits for ever for the answer of a guest that
\* stays online: nothing else that other runs, machines or failing commands do
\* holds it up.
RunsEnd == \A r \in Runs : <>[](pc[r] \in Ended \/ Conversing(r))

\* What README.md says of finalization: it "removes the temporary port forward".
TemporaryForwardRemoved ==
  (\A r \in Finalizers : pc[r] \in Ended \ {"killed"}) => vm[Base].baseRule = NoPort

\* What README.md says of a disposable run: it "stops and removes the clone".
CloneRemovedByDefault ==
  \A r \in Runs :
    pc[r] \in Ended \ {"killed"} /\ ~keep[r] => \A s \in Seconds : vm[s].owner # r

\* What README.md says of finalization: it "starts the base VM, connects over a
\* temporary SSH NAT forward", and installs the packages there.
FinalizationReachesBase ==
  DistinctPorts => \A r \in Finalizers : session[r] \in {NoName, Base}
============================================================================
