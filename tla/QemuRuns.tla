------------------------------ MODULE QemuRuns ------------------------------
(***************************************************************************)
(* Runs of the QEMU harness that share one base directory and one host:    *)
(* qemu_sandbox.cli.main, qemu_machine_factory and the SSH session and     *)
(* shutdown of virtual_machine_setup.                                      *)
(*                                                                         *)
(* A run names its directory after the second in which it starts, copies   *)
(* the base image into it, looks for a free port by binding and closing,   *)
(* and starts QEMU with a forward of that port.  From then on it knows its *)
(* guest by the port alone.  A try/finally surrounds the session; what     *)
(* comes before it, and the last wait of the finally, may raise past it.   *)
(***************************************************************************)
EXTENDS Integers

CONSTANTS
  Runs,      \* the invocations of the command
  NoRun,     \* stands for the owner of what does not exist
  Ports,     \* the ports of the host that may be free
  NoPort,    \* a run that has not chosen a port
  MaxSecond, \* bound: the wall clock stops at this second
  MaxFaults  \* bound: what goes wrong by itself

ASSUME NoRunAssumption == NoRun \notin Runs
ASSUME NoPortAssumption == NoPort \notin Ports
ASSUME BoundsAssumption == MaxSecond \in Nat \ {0} /\ MaxFaults \in Nat

VARIABLES
  pc,      \* where each run stands
  keep,    \* its --keep-vm flag
  raised,  \* the step that raised the exception it ends with, or "none"
  stamp,   \* the second it is named after, 0 before it has one
  port,    \* the port it forwards
  session, \* the run in whose guest its SSH session is, or was last
  second,  \* the wall clock
  disk,    \* per second: the run whose copy the run disk is
  vm,      \* the QEMU process of each run
  faults   \* what went wrong by itself so far

vars == <<pc, keep, raised, stamp, port, session, second, disk, vm, faults>>

Seconds == 1..MaxSecond
Owners == Runs \cup {NoRun}

Steps == {"create", "copy", "port", "launch", "check", "setup", "agent",
          "save", "finally", "shutdown", "stop", "kill", "remove"}
Ended == {"refused", "done", "failed", "dead"}

\* "refused": it exited before the check, for want of its port.  "starting":
\* it is slow and does not know yet.  "booting": it forwards its port, but
\* the guest has no SSH yet.  "up": it has.  "halting": the guest shuts down.
Running == {"starting", "booting", "up", "halting"}
Machines == {"none", "refused", "quit", "off", "stopped"} \cup Running

TypeOK ==
  /\ pc \in [Runs -> Steps \cup Ended]
  /\ keep \in [Runs -> BOOLEAN]
  /\ raised \in [Runs -> Steps \cup {"none"}]
  /\ stamp \in [Runs -> 0..MaxSecond]
  /\ port \in [Runs -> Ports \cup {NoPort}]
  /\ session \in [Runs -> Owners]
  /\ second \in Seconds
  /\ disk \in [Seconds -> Owners]
  /\ vm \in [Runs -> Machines]
  /\ faults \in 0..MaxFaults
-----------------------------------------------------------------------------
Goto(r, step) == pc' = [pc EXCEPT ![r] = step]
Machine(r, state) == vm' = [vm EXCEPT ![r] = state]

\* An exception at the step where r stands.
Raise(r, next) ==
  /\ raised' = [raised EXCEPT ![r] = pc[r]]
  /\ Goto(r, next)

Return(r) == Goto(r, IF raised[r] = "none" THEN "done" ELSE "failed")

Fault == faults < MaxFaults /\ faults' = faults + 1

\* Whose QEMU holds the port.
Listeners(p) ==
  {r \in Runs : port[r] = p /\ vm[r] \in {"booting", "up", "halting"}}

Init ==
  /\ pc = [r \in Runs |-> "create"]
  /\ keep \in [Runs -> BOOLEAN]
  /\ raised = [r \in Runs |-> "none"]
  /\ stamp = [r \in Runs |-> 0]
  /\ port = [r \in Runs |-> NoPort]
  /\ session = [r \in Runs |-> NoRun]
  /\ second = 1
  /\ disk = [s \in Seconds |-> NoRun]
  /\ vm = [r \in Runs |-> "none"]
  /\ faults = 0

\* (Defect: the time stamp is rounded up to the next second.)
CreateRounding(r) ==
  /\ pc[r] = "create"
  /\ \/ Goto(r, "refused") /\ UNCHANGED stamp
     \/ Goto(r, "copy") /\ stamp' = [stamp EXCEPT ![r] = second + 1]
  /\ UNCHANGED <<keep, raised, port, session, second, disk, vm, faults>>

\* QEMU or the base image is missing; otherwise the run gets its directory,
\* which may exist already.
Create(r) ==
  /\ pc[r] = "create"
  /\ \/ Goto(r, "refused") /\ UNCHANGED stamp
     \/ Goto(r, "copy") /\ stamp' = [stamp EXCEPT ![r] = second]
  /\ UNCHANGED <<keep, raised, port, session, second, disk, vm, faults>>

\* A copy that fails leaves what it has written.
CopyDisk(r) ==
  /\ pc[r] = "copy"
  /\ disk' = [disk EXCEPT ![stamp[r]] = r]
  /\ \/ Goto(r, "port") /\ UNCHANGED <<raised, faults>>
     \/ Fault /\ Raise(r, "failed")
  /\ UNCHANGED <<keep, stamp, port, session, second, vm>>

\* A port that is free now, or an OSError when the host has none to bind.
FindPort(r) ==
  /\ pc[r] = "port"
  /\ \/ /\ \E p \in Ports :
             /\ Listeners(p) = {}
             /\ port' = [port EXCEPT ![r] = p]
        /\ Goto(r, "launch")
        /\ UNCHANGED <<raised, faults>>
     \/ Raise(r, "failed") /\ Fault /\ UNCHANGED port
  /\ UNCHANGED <<keep, stamp, session, second, disk, vm>>

\* QEMU takes its port, or exits when another one has taken it meanwhile,
\* mostly within the second the harness waits; or no process is started, for
\* the program cannot be run or an option of its machine is missing.
Launch(r) ==
  /\ pc[r] = "launch"
  /\ \/ /\ Goto(r, "check")
        /\ \/ Listeners(port[r]) = {} /\ Machine(r, "booting") /\ UNCHANGED faults
           \/ Listeners(port[r]) # {} /\ Machine(r, "refused") /\ UNCHANGED faults
           \/ Listeners(port[r]) # {} /\ Machine(r, "starting") /\ Fault
        /\ UNCHANGED raised
     \/ Raise(r, "failed") /\ Fault /\ UNCHANGED vm
  /\ UNCHANGED <<keep, stamp, port, session, second, disk>>

\* (Defect: nobody asks whether the process is still there.)
CheckNothing(r) ==
  /\ pc[r] = "check"
  /\ Goto(r, "setup")
  /\ UNCHANGED <<keep, raised, stamp, port, session, second, disk, vm, faults>>

\* process.poll() after a second, outside the try.
CheckAlive(r) ==
  /\ pc[r] = "check"
  /\ IF vm[r] \in Running THEN Goto(r, "setup") /\ UNCHANGED raised
                          ELSE Raise(r, "failed")
  /\ UNCHANGED <<keep, stamp, port, session, second, disk, vm, faults>>

\* The wait for SSH ends in the guest behind the port, or with an exception:
\* nobody answers until the deadline, or the answer is not a usable one.
WaitForSsh(r, connected, next) ==
  \/ \E q \in Listeners(port[r]) :
       /\ vm[q] = "up"
       /\ session' = [session EXCEPT ![r] = q]
       /\ connected
       /\ UNCHANGED raised
  \/ /\ Raise(r, next)
     /\ \/ Listeners(port[r]) = {} /\ UNCHANGED faults
        \/ (\E q \in Listeners(port[r]) : vm[q] = "halting") /\ UNCHANGED faults
        \/ Fault
     /\ UNCHANGED <<session, vm>>

Setup(r) ==
  /\ pc[r] = "setup"
  /\ WaitForSsh(r, Goto(r, "agent") /\ UNCHANGED <<vm, faults>>, "finally")
  /\ UNCHANGED <<keep, stamp, port, second, disk>>

\* The agent runs and its artifacts are downloaded; the connection may break,
\* and does when the guest goes away.
RunAgent(r) ==
  /\ pc[r] = "agent"
  /\ \/ /\ vm[session[r]] = "up" /\ Goto(r, "save")
        /\ UNCHANGED <<raised, faults>>
     \/ /\ Raise(r, "finally")
        /\ IF vm[session[r]] = "up" THEN Fault ELSE UNCHANGED faults
  /\ UNCHANGED <<keep, stamp, port, session, second, disk, vm>>

SaveResults(r) ==
  /\ pc[r] = "save"
  /\ \/ Goto(r, "finally") /\ UNCHANGED <<raised, faults>>
     \/ Raise(r, "finally") /\ Fault
  /\ UNCHANGED <<keep, stamp, port, session, second, disk, vm>>

Finally(r) ==
  /\ pc[r] = "finally"
  /\ IF keep[r] THEN Return(r) ELSE Goto(r, "shutdown")
  /\ UNCHANGED <<keep, raised, stamp, port, session, second, disk, vm, faults>>

\* (Defect: no second finally, so a shutdown that raises ends the run.)
ShutdownOrFail(r) ==
  /\ pc[r] = "shutdown"
  /\ WaitForSsh(r,
       /\ Goto(r, "stop")
       /\ \/ Machine(session'[r], "halting") /\ UNCHANGED faults
          \/ UNCHANGED vm /\ Fault,
       "failed")
  /\ UNCHANGED <<keep, stamp, port, second, disk>>

\* setup.shutdown() waits for SSH once more, and asks the guest that answers
\* to shut down; that sudo may refuse goes unnoticed.
Shutdown(r) ==
  /\ pc[r] = "shutdown"
  /\ WaitForSsh(r,
       /\ Goto(r, "stop")
       /\ \/ Machine(session'[r], "halting") /\ UNCHANGED faults
          \/ UNCHANGED vm /\ Fault,
       "stop")
  /\ UNCHANGED <<keep, stamp, port, second, disk>>

\* terminate(), and up to thirty seconds for the process to go.
Stop(r) ==
  /\ pc[r] = "stop"
  /\ \/ /\ vm[r] \notin Running /\ Goto(r, "remove")
        /\ UNCHANGED <<vm, faults>>
     \/ /\ vm[r] \in Running /\ Goto(r, "remove") /\ Machine(r, "stopped")
        /\ UNCHANGED faults
     \/ /\ vm[r] \in Running /\ Goto(r, "kill") /\ Fault
        /\ UNCHANGED vm
  /\ UNCHANGED <<keep, raised, stamp, port, session, second, disk>>

\* (Defect: the second time-out is swallowed.)
KillAndGoOn(r) ==
  /\ pc[r] = "kill"
  /\ Goto(r, "remove")
  /\ \/ Machine(r, IF vm[r] \in Running THEN "stopped" ELSE vm[r])
        /\ UNCHANGED faults
     \/ vm[r] \in Running /\ Fault /\ UNCHANGED vm
  /\ UNCHANGED <<keep, raised, stamp, port, session, second, disk>>

\* (Defect: it kills until the process is gone.)
KillForever(r) ==
  /\ pc[r] = "kill"
  /\ \/ /\ vm[r] \notin Running /\ Goto(r, "remove")
        /\ UNCHANGED <<vm, faults>>
     \/ vm[r] \in Running /\ UNCHANGED <<pc, vm, faults>>
  /\ UNCHANGED <<keep, raised, stamp, port, session, second, disk>>

\* kill(), and thirty seconds more; the TimeoutExpired of this wait is not
\* caught.
Kill(r) ==
  /\ pc[r] = "kill"
  /\ \/ /\ Goto(r, "remove")
        /\ Machine(r, IF vm[r] \in Running THEN "stopped" ELSE vm[r])
        /\ UNCHANGED <<raised, faults>>
     \/ /\ vm[r] \in Running /\ Fault
        /\ Raise(r, "failed") /\ UNCHANGED vm
  /\ UNCHANGED <<keep, stamp, port, session, second, disk>>

\* The disk is removed by its path; an open file may refuse to be unlinked.
RemoveDisk(r) ==
  /\ pc[r] = "remove"
  /\ \/ /\ disk' = [disk EXCEPT ![stamp[r]] = NoRun]
        /\ Return(r) /\ UNCHANGED <<raised, faults>>
     \/ Raise(r, "failed") /\ Fault /\ UNCHANGED disk
  /\ UNCHANGED <<keep, stamp, port, session, second, vm>>

Step(r) ==
  \/ Create(r) \/ CopyDisk(r) \/ FindPort(r) \/ Launch(r) \/ CheckAlive(r)
  \/ Setup(r) \/ RunAgent(r) \/ SaveResults(r)
  \/ Finally(r) \/ Shutdown(r) \/ Stop(r) \/ Kill(r) \/ RemoveDisk(r)
-----------------------------------------------------------------------------
\* The guest boots, and halts when it was asked to.
Boot(r) ==
  /\ vm[r] \in {"booting", "halting"}
  /\ Machine(r, IF vm[r] = "booting" THEN "up" ELSE "off")
  /\ UNCHANGED <<pc, keep, raised, stamp, port, session, second, disk, faults>>

\* A QEMU that is slow to see that its port is taken exits.
GiveUp(r) ==
  /\ vm[r] = "starting" /\ Machine(r, "quit")
  /\ UNCHANGED <<pc, keep, raised, stamp, port, session, second, disk, faults>>

\* QEMU exits by itself.
Quit(r) ==
  /\ vm[r] \in Running /\ Fault /\ Machine(r, "quit")
  /\ UNCHANGED <<pc, keep, raised, stamp, port, session, second, disk>>

\* The harness is killed; its QEMU goes on.
Die(r) ==
  /\ pc[r] \in Steps \ {"create"} /\ Fault /\ Goto(r, "dead")
  /\ UNCHANGED <<keep, raised, stamp, port, session, second, disk, vm>>

Tick ==
  /\ second < MaxSecond /\ second' = second + 1
  /\ UNCHANGED <<pc, keep, raised, stamp, port, session, disk, vm, faults>>

Next ==
  \/ \E r \in Runs : Step(r) \/ Boot(r) \/ GiveUp(r) \/ Quit(r) \/ Die(r)
  \/ Tick

Spec == Init /\ [][Next]_vars

\* What a run waits for without a deadline: recv_exit_status, in a guest that
\* its connection has reached, or may still reach to shut it down.  A guest may
\* never answer, but its connection breaks when it goes off.
Online == {"up", "halting"}
Conversing(r) ==
  \/ pc[r] = "agent" /\ vm[session[r]] \in Online
  \/ pc[r] = "shutdown" /\ \E q \in Listeners(port[r]) : vm[q] \in Online

\* A run goes on, for all its other waits have a deadline, and so does its
\* guest.
Fairness ==
  \A r \in Runs : WF_vars(Step(r) /\ ~Conversing(r)) /\ WF_vars(Boot(r))

FairSpec == Spec /\ Fairness
-----------------------------------------------------------------------------
\* A QEMU runs on the disk its own run copied: no step of its run removes or
\* replaces that disk while it runs, and no run of another second ever does.
DiskIsOwn ==
  \A r \in Runs : vm[r] \in Running =>
    \/ disk[stamp[r]] = r
    \/ \E q \in Runs \ {r} : stamp[q] = stamp[r]

\* Where an exception leaves the disk: before the try statement, and in what
\* stops QEMU and removes the disk.
UncleanSteps == {"copy", "port", "launch", "check", "kill", "remove"}

\* A run that is over and was not to keep its machine has stopped QEMU, but
\* for one that two signals did not stop, and has removed its disk, but for
\* exceptions between the copy and the try statement and in the removal
\* itself, of which README.md:253 ("only retained with --keep-vm") does not
\* speak.  A session, a wait for SSH or a shutdown that raises leaves neither.
EndsClean ==
  \A r \in Runs : pc[r] \in {"done", "failed"} /\ ~keep[r] =>
    /\ vm[r] \in Running => raised[r] = "kill"
    /\ disk[stamp[r]] = r => raised[r] \in UncleanSteps

\* A run that did not get its port never has a session in the guest of the
\* run that got it, unless its QEMU took too long to notice.
GuestIsOwn ==
  \A r \in Runs :
    session[r] \in Runs \ {r} => vm[r] \notin {"none", "refused"}

\* Every run ends, or waits for ever for the answer of a guest that stays
\* online; though SSH may stay silent, the shutdown raise and QEMU survive both
\* signals.
RunsEnd == \A r \in Runs : <>[](pc[r] \in Ended \/ Conversing(r))

\* The names: a run makes its disk as soon as it has its name, and removes it
\* last.
Phase(r) ==
  IF pc[r] \in Ended THEN "over"
  ELSE IF pc[r] = "create" THEN "before"
  ELSE IF pc[r] = "copy" THEN "making"
  ELSE IF pc[r] = "remove" THEN "removing"
  ELSE "working"

Things == {"disk"}
Made == [x \in Things |-> disk]

NamesOf ==
  INSTANCE NamedRuns WITH
    LastName <- MaxSecond,
    phase <- [r \in Runs |-> Phase(r)], name <- stamp, owner <- Made

\* Runs touch only the disk that has their name (NamedRuns), whatever fails,
\* is killed or shares the second.
NamesSpec == NamesOf!Spec
=============================================================================
