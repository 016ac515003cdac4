------------------------- MODULE QemuRunsTheorems --------------------------
(***************************************************************************)
(* What QemuRuns promises of disks, guests and clean-up, for every set of  *)
(* runs and ports, any number of seconds and any number of faults.         *)
(***************************************************************************)
EXTENDS QemuRuns, TLAPS

Shared(r) == \E q \in Runs \ {r} : stamp[q] = stamp[r]

\* A run has its second from the start, and keeps it.
StampOK ==
  \A r \in Runs :
    IF pc[r] \in {"create", "refused"} THEN stamp[r] = 0
                                      ELSE stamp[r] \in Seconds

\* There is no process before it is launched.
NotYet ==
  \A r \in Runs :
    pc[r] \in {"create", "refused", "copy", "port", "launch"} => vm[r] = "none"

\* After the check there was one that did not see at once that its port is
\* taken.
Checked ==
  \A r \in Runs :
    pc[r] \in {"setup", "agent", "save", "finally", "shutdown", "stop",
               "kill", "remove"} => vm[r] \notin {"none", "refused"}

\* The disk is removed only when the process is gone.
Removing == \A r \in Runs : pc[r] = "remove" => vm[r] \notin Running

\* From the copy on a run has its disk, as long as its QEMU may want it.
DiskOK ==
  \A r \in Runs : vm[r] \in Running \/ pc[r] \in {"port", "launch"} =>
    disk[stamp[r]] = r \/ Shared(r)

IInv ==
  /\ TypeOK
  /\ StampOK
  /\ NotYet
  /\ Checked
  /\ Removing
  /\ DiskOK
  /\ EndsClean
  /\ GuestIsOwn
-----------------------------------------------------------------------------
\* Every step keeps the types.
LEMMA TypeStep == TypeOK /\ [Next]_vars => TypeOK'
<1> SUFFICES ASSUME TypeOK, [Next]_vars PROVE TypeOK'
  OBVIOUS
<1> USE NoRunAssumption, NoPortAssumption, BoundsAssumption
<1>1. ASSUME NEW r \in Runs, Create(r) PROVE TypeOK'
  <2>1. pc' \in [Runs -> Steps \cup Ended]
    BY <1>1 DEF Create, Goto, TypeOK, Steps, Ended
  <2>2. stamp' \in [Runs -> 0..MaxSecond]
    <3>1. second \in 0..MaxSecond
      BY DEF TypeOK, Seconds
    <3>2. stamp' = stamp \/ stamp' = [stamp EXCEPT ![r] = second]
      BY <1>1 DEF Create
    <3>. QED
      BY <3>1, <3>2 DEF TypeOK
  <2>. QED
    BY <1>1, <2>1, <2>2
    DEF Create, TypeOK
<1>2. ASSUME NEW r \in Runs, CopyDisk(r) PROVE TypeOK'
  <2>1. pc' \in [Runs -> Steps \cup Ended]
    BY <1>2 DEF CopyDisk, Goto, Raise, Fault, TypeOK, Steps, Ended
  <2>2. raised' \in [Runs -> Steps \cup {"none"}]
    BY <1>2 DEF CopyDisk, Goto, Raise, Fault, TypeOK, Steps, Ended
  <2>3. disk' \in [Seconds -> Owners]
    BY <1>2 DEF CopyDisk, Goto, Raise, Fault, TypeOK, Seconds, Owners, Steps
  <2>4. faults' \in 0..MaxFaults
    BY <1>2 DEF CopyDisk, Goto, Raise, Fault, TypeOK
  <2>. QED
    BY <1>2, <2>1, <2>2, <2>3, <2>4
    DEF CopyDisk, TypeOK
<1>3. ASSUME NEW r \in Runs, FindPort(r) PROVE TypeOK'
  <2>1. pc' \in [Runs -> Steps \cup Ended]
    BY <1>3 DEF FindPort, Goto, Raise, TypeOK, Steps, Ended
  <2>2. raised' \in [Runs -> Steps \cup {"none"}]
    BY <1>3 DEF FindPort, Goto, Raise, TypeOK, Steps, Ended
  <2>3. port' \in [Runs -> Ports \cup {NoPort}]
    BY <1>3 DEF FindPort, TypeOK
  <2>4. faults' \in 0..MaxFaults
    BY <1>3 DEF FindPort, Fault, TypeOK
  <2>. QED
    BY <1>3, <2>1, <2>2, <2>3, <2>4
    DEF FindPort, TypeOK
<1>4. ASSUME NEW r \in Runs, Launch(r) PROVE TypeOK'
  <2>1. pc' \in [Runs -> Steps \cup Ended]
    BY <1>4 DEF Launch, Goto, Raise, Machine, Fault, Listeners, TypeOK, Steps,
                Ended
  <2>2. vm' \in [Runs -> Machines]
    BY <1>4 DEF Launch, Goto, Raise, Machine, Fault, Listeners, TypeOK,
                Machines, Running
  <2>3. faults' \in 0..MaxFaults
    BY <1>4 DEF Launch, Goto, Raise, Machine, Fault, Listeners, TypeOK
  <2>4. raised' \in [Runs -> Steps \cup {"none"}]
    BY <1>4 DEF Launch, Goto, Raise, TypeOK, Steps, Ended
  <2>. QED
    BY <1>4, <2>1, <2>2, <2>3, <2>4
    DEF Launch, TypeOK
<1>5. ASSUME NEW r \in Runs, CheckAlive(r) PROVE TypeOK'
  BY <1>5 DEF CheckAlive, Goto, Raise, Running, TypeOK, Seconds, Owners,
              Steps, Ended, Machines
<1>6. ASSUME NEW r \in Runs, Setup(r) PROVE TypeOK'
  <2>1. pc' \in [Runs -> Steps \cup Ended]
    BY <1>6 DEF Setup, Goto, WaitForSsh, Raise, Listeners, Fault, TypeOK,
                Steps, Ended
  <2>2. raised' \in [Runs -> Steps \cup {"none"}]
    BY <1>6 DEF Setup, Goto, WaitForSsh, Raise, Listeners, Fault, TypeOK,
                Steps, Ended
  <2>3. session' \in [Runs -> Owners]
    BY <1>6 DEF Setup, Goto, WaitForSsh, Raise, Listeners, Fault, TypeOK,
                Owners
  <2>4. faults' \in 0..MaxFaults
    BY <1>6 DEF Setup, Goto, WaitForSsh, Raise, Listeners, Fault, TypeOK
  <2>. QED
    BY <1>6, <2>1, <2>2, <2>3, <2>4
    DEF Setup, WaitForSsh, TypeOK
<1>7. ASSUME NEW r \in Runs, RunAgent(r) PROVE TypeOK'
  <2>1. pc' \in [Runs -> Steps \cup Ended]
    BY <1>7 DEF RunAgent, Goto, Raise, Fault, TypeOK, Steps, Ended
  <2>2. raised' \in [Runs -> Steps \cup {"none"}]
    BY <1>7 DEF RunAgent, Goto, Raise, Fault, TypeOK, Steps, Ended
  <2>3. faults' \in 0..MaxFaults
    BY <1>7 DEF RunAgent, Goto, Raise, Fault, TypeOK
  <2>. QED
    BY <1>7, <2>1, <2>2, <2>3
    DEF RunAgent, TypeOK
<1>8. ASSUME NEW r \in Runs, SaveResults(r) PROVE TypeOK'
  <2>1. pc' \in [Runs -> Steps \cup Ended]
    BY <1>8 DEF SaveResults, Goto, Raise, Fault, TypeOK, Steps, Ended
  <2>2. raised' \in [Runs -> Steps \cup {"none"}]
    BY <1>8 DEF SaveResults, Goto, Raise, Fault, TypeOK, Steps, Ended
  <2>3. faults' \in 0..MaxFaults
    BY <1>8 DEF SaveResults, Goto, Raise, Fault, TypeOK
  <2>. QED
    BY <1>8, <2>1, <2>2, <2>3
    DEF SaveResults, TypeOK
<1>9. ASSUME NEW r \in Runs, Finally(r) PROVE TypeOK'
  BY <1>9 DEF Finally, Goto, Return, TypeOK, Seconds, Owners, Steps, Ended,
              Machines, Running
<1>10. ASSUME NEW r \in Runs, Shutdown(r) PROVE TypeOK'
  <2>1. pc' \in [Runs -> Steps \cup Ended]
    BY <1>10 DEF Shutdown, Goto, WaitForSsh, Raise, Machine, Listeners,
                 Fault, TypeOK, Steps, Ended
  <2>2. raised' \in [Runs -> Steps \cup {"none"}]
    BY <1>10 DEF Shutdown, Goto, WaitForSsh, Raise, Machine, Listeners,
                 Fault, TypeOK, Steps, Ended
  <2>3. session' \in [Runs -> Owners]
    BY <1>10 DEF Shutdown, Goto, WaitForSsh, Raise, Machine, Listeners,
                 Fault, TypeOK, Owners
  <2>4. vm' \in [Runs -> Machines]
    BY <1>10 DEF Shutdown, Goto, WaitForSsh, Raise, Machine, Listeners,
                 Fault, TypeOK, Machines, Running
  <2>5. faults' \in 0..MaxFaults
    BY <1>10 DEF Shutdown, Goto, WaitForSsh, Raise, Machine, Listeners,
                 Fault, TypeOK
  <2>. QED
    BY <1>10, <2>1, <2>2, <2>3, <2>4, <2>5
    DEF Shutdown, WaitForSsh,
                                                   TypeOK
<1>11. ASSUME NEW r \in Runs, Stop(r) PROVE TypeOK'
  <2>1. pc' \in [Runs -> Steps \cup Ended]
    BY <1>11 DEF Stop, Goto, Machine, Running, Fault, TypeOK, Steps, Ended
  <2>2. vm' \in [Runs -> Machines]
    BY <1>11 DEF Stop, Goto, Machine, Running, Fault, TypeOK, Machines
  <2>3. faults' \in 0..MaxFaults
    BY <1>11 DEF Stop, Goto, Machine, Running, Fault, TypeOK
  <2>. QED
    BY <1>11, <2>1, <2>2, <2>3
    DEF Stop, TypeOK
<1>12. ASSUME NEW r \in Runs, Kill(r) PROVE TypeOK'
  <2>1. pc' \in [Runs -> Steps \cup Ended]
    BY <1>12 DEF Kill, Goto, Raise, Machine, Running, Fault, TypeOK, Steps,
                 Ended
  <2>2. raised' \in [Runs -> Steps \cup {"none"}]
    BY <1>12 DEF Kill, Goto, Raise, Machine, Running, Fault, TypeOK, Steps,
                 Ended
  <2>3. vm' \in [Runs -> Machines]
    BY <1>12 DEF Kill, Goto, Raise, Machine, Running, Fault, TypeOK, Machines
  <2>4. faults' \in 0..MaxFaults
    BY <1>12 DEF Kill, Goto, Raise, Machine, Running, Fault, TypeOK
  <2>. QED
    BY <1>12, <2>1, <2>2, <2>3, <2>4
    DEF Kill, TypeOK
<1>13. ASSUME NEW r \in Runs, RemoveDisk(r) PROVE TypeOK'
  <2>1. pc' \in [Runs -> Steps \cup Ended]
    BY <1>13 DEF RemoveDisk, Goto, Return, Raise, Fault, TypeOK, Steps, Ended
  <2>2. raised' \in [Runs -> Steps \cup {"none"}]
    BY <1>13 DEF RemoveDisk, Goto, Return, Raise, Fault, TypeOK, Steps, Ended
  <2>3. disk' \in [Seconds -> Owners]
    BY <1>13 DEF RemoveDisk, Goto, Return, Raise, Fault, TypeOK, Seconds,
                 Owners, Steps
  <2>4. faults' \in 0..MaxFaults
    BY <1>13 DEF RemoveDisk, Goto, Return, Raise, Fault, TypeOK
  <2>. QED
    BY <1>13, <2>1, <2>2, <2>3, <2>4
    DEF RemoveDisk, TypeOK
<1>14. ASSUME NEW r \in Runs, Boot(r) PROVE TypeOK'
  BY <1>14 DEF Boot, Machine, TypeOK, Seconds, Owners, Steps, Ended,
               Machines, Running
<1>15. ASSUME NEW r \in Runs, GiveUp(r) PROVE TypeOK'
  BY <1>15 DEF GiveUp, Machine, TypeOK, Seconds, Owners, Steps, Ended,
               Machines, Running
<1>16. ASSUME NEW r \in Runs, Quit(r) PROVE TypeOK'
  BY <1>16 DEF Quit, Machine, Running, Fault, TypeOK, Seconds, Owners, Steps,
               Ended, Machines
<1>17. ASSUME NEW r \in Runs, Die(r) PROVE TypeOK'
  BY <1>17 DEF Die, Goto, Fault, TypeOK, Seconds, Owners, Steps, Ended,
               Machines, Running
<1>18. CASE Tick
  BY <1>18 DEF Tick, TypeOK, Seconds, Owners, Steps, Ended, Machines, Running
<1>19. CASE UNCHANGED vars
  BY <1>19 DEF vars, TypeOK, Seconds, Owners, Steps, Ended, Machines, Running
<1>. QED
  BY <1>1, <1>2, <1>3, <1>4, <1>5, <1>6, <1>7, <1>8, <1>9,
     <1>10, <1>11, <1>12, <1>13, <1>14, <1>15, <1>16, <1>17, <1>18, <1>19
  DEF Next, Step

\* The clock is never 0, so a run has a second from its first step on.
LEMMA StampStep ==
  TypeOK /\ StampOK /\ [Next]_vars
    => StampOK'
<1> SUFFICES ASSUME TypeOK /\ StampOK,
                    [Next]_vars
             PROVE  StampOK'
  OBVIOUS
<1> USE NoRunAssumption, NoPortAssumption, BoundsAssumption
<1>1. ASSUME NEW r \in Runs, Create(r) PROVE StampOK'
  BY <1>1 DEF Create, Goto, TypeOK, Seconds, Owners, Steps, Ended, Machines,
              Running, StampOK
<1>2. ASSUME NEW r \in Runs, CopyDisk(r) PROVE StampOK'
  BY <1>2 DEF CopyDisk, Goto, Raise, Fault, TypeOK, Seconds, Owners, Steps,
              Ended, Machines, Running, StampOK
<1>3. ASSUME NEW r \in Runs, FindPort(r) PROVE StampOK'
  BY <1>3 DEF FindPort, Goto, Raise, Fault, Listeners, TypeOK, Seconds, Owners,
              Steps, Ended, Machines, Running, StampOK
<1>4. ASSUME NEW r \in Runs, Launch(r) PROVE StampOK'
  BY <1>4 DEF Launch, Goto, Raise, Machine, Fault, Listeners, TypeOK, Seconds,
              Owners, Steps, Ended, Machines, Running, StampOK
<1>5. ASSUME NEW r \in Runs, CheckAlive(r) PROVE StampOK'
  BY <1>5 DEF CheckAlive, Goto, Raise, Running, TypeOK, Seconds, Owners,
              Steps, Ended, Machines, StampOK
<1>6. ASSUME NEW r \in Runs, Setup(r) PROVE StampOK'
  BY <1>6 DEF Setup, Goto, WaitForSsh, Raise, Listeners, Fault, TypeOK,
              Seconds, Owners, Steps, Ended, Machines, Running, StampOK
<1>7. ASSUME NEW r \in Runs, RunAgent(r) PROVE StampOK'
  BY <1>7 DEF RunAgent, Goto, Raise, Fault, TypeOK, Seconds, Owners, Steps,
              Ended, Machines, Running, StampOK
<1>8. ASSUME NEW r \in Runs, SaveResults(r) PROVE StampOK'
  BY <1>8 DEF SaveResults, Goto, Raise, Fault, TypeOK, Seconds, Owners,
              Steps, Ended, Machines, Running, StampOK
<1>9. ASSUME NEW r \in Runs, Finally(r) PROVE StampOK'
  BY <1>9 DEF Finally, Goto, Return, TypeOK, Seconds, Owners, Steps, Ended,
              Machines, Running, StampOK
<1>10. ASSUME NEW r \in Runs, Shutdown(r) PROVE StampOK'
  BY <1>10 DEF Shutdown, Goto, WaitForSsh, Raise, Machine, Listeners, Fault,
               TypeOK, Seconds, Owners, Steps, Ended, Machines, Running,
               StampOK
<1>11. ASSUME NEW r \in Runs, Stop(r) PROVE StampOK'
  BY <1>11 DEF Stop, Goto, Machine, Running, Fault, TypeOK, Seconds, Owners,
               Steps, Ended, Machines, StampOK
<1>12. ASSUME NEW r \in Runs, Kill(r) PROVE StampOK'
  BY <1>12 DEF Kill, Goto, Raise, Machine, Running, Fault, TypeOK, Seconds,
               Owners, Steps, Ended, Machines, StampOK
<1>13. ASSUME NEW r \in Runs, RemoveDisk(r) PROVE StampOK'
  BY <1>13 DEF RemoveDisk, Goto, Return, Raise, Fault, TypeOK, Seconds,
               Owners, Steps, Ended, Machines, Running, StampOK
<1>14. ASSUME NEW r \in Runs, Boot(r) PROVE StampOK'
  BY <1>14 DEF Boot, Machine, TypeOK, Seconds, Owners, Steps, Ended,
               Machines, Running, StampOK
<1>15. ASSUME NEW r \in Runs, GiveUp(r) PROVE StampOK'
  BY <1>15 DEF GiveUp, Machine, TypeOK, Seconds, Owners, Steps, Ended,
               Machines, Running, StampOK
<1>16. ASSUME NEW r \in Runs, Quit(r) PROVE StampOK'
  BY <1>16 DEF Quit, Machine, Running, Fault, TypeOK, Seconds, Owners, Steps,
               Ended, Machines, StampOK
<1>17. ASSUME NEW r \in Runs, Die(r) PROVE StampOK'
  BY <1>17 DEF Die, Goto, Fault, TypeOK, Seconds, Owners, Steps, Ended,
               Machines, Running, StampOK
<1>18. CASE Tick
  BY <1>18 DEF Tick, TypeOK, Seconds, Owners, Steps, Ended, Machines,
                     Running, StampOK
<1>19. CASE UNCHANGED vars
  BY <1>19 DEF vars, TypeOK, Seconds, Owners, Steps, Ended, Machines,
                     Running, StampOK
<1>. QED
  BY <1>1, <1>2, <1>3, <1>4, <1>5, <1>6, <1>7, <1>8, <1>9,
     <1>10, <1>11, <1>12, <1>13, <1>14, <1>15, <1>16, <1>17, <1>18, <1>19
  DEF Next, Step

\* Only Launch makes a process.
LEMMA NotYetStep ==
  TypeOK /\ NotYet /\ [Next]_vars
    => NotYet'
<1> SUFFICES ASSUME TypeOK /\ NotYet,
                    [Next]_vars
             PROVE  NotYet'
  OBVIOUS
<1> USE NoRunAssumption, NoPortAssumption, BoundsAssumption
<1>1. ASSUME NEW r \in Runs, Create(r) PROVE NotYet'
  BY <1>1 DEF Create, Goto, TypeOK, Seconds, Owners, Steps, Ended, Machines,
              Running, NotYet
<1>2. ASSUME NEW r \in Runs, CopyDisk(r) PROVE NotYet'
  BY <1>2 DEF CopyDisk, Goto, Raise, Fault, TypeOK, Seconds, Owners, Steps,
              Ended, Machines, Running, NotYet
<1>3. ASSUME NEW r \in Runs, FindPort(r) PROVE NotYet'
  BY <1>3 DEF FindPort, Goto, Raise, Fault, Listeners, TypeOK, Seconds, Owners,
              Steps, Ended, Machines, Running, NotYet
<1>4. ASSUME NEW r \in Runs, Launch(r) PROVE NotYet'
  BY <1>4 DEF Launch, Goto, Raise, Machine, Fault, Listeners, TypeOK, Seconds,
              Owners, Steps, Ended, Machines, Running, NotYet
<1>5. ASSUME NEW r \in Runs, CheckAlive(r) PROVE NotYet'
  BY <1>5 DEF CheckAlive, Goto, Raise, Running, TypeOK, Seconds, Owners,
              Steps, Ended, Machines, NotYet
<1>6. ASSUME NEW r \in Runs, Setup(r) PROVE NotYet'
  BY <1>6 DEF Setup, Goto, WaitForSsh, Raise, Listeners, Fault, TypeOK,
              Seconds, Owners, Steps, Ended, Machines, Running, NotYet
<1>7. ASSUME NEW r \in Runs, RunAgent(r) PROVE NotYet'
  BY <1>7 DEF RunAgent, Goto, Raise, Fault, TypeOK, Seconds, Owners, Steps,
              Ended, Machines, Running, NotYet
<1>8. ASSUME NEW r \in Runs, SaveResults(r) PROVE NotYet'
  BY <1>8 DEF SaveResults, Goto, Raise, Fault, TypeOK, Seconds, Owners,
              Steps, Ended, Machines, Running, NotYet
<1>9. ASSUME NEW r \in Runs, Finally(r) PROVE NotYet'
  BY <1>9 DEF Finally, Goto, Return, TypeOK, Seconds, Owners, Steps, Ended,
              Machines, Running, NotYet
<1>10. ASSUME NEW r \in Runs, Shutdown(r) PROVE NotYet'
  BY <1>10 DEF Shutdown, Goto, WaitForSsh, Raise, Machine, Listeners, Fault,
               TypeOK, Seconds, Owners, Steps, Ended, Machines, Running,
               NotYet
<1>11. ASSUME NEW r \in Runs, Stop(r) PROVE NotYet'
  BY <1>11 DEF Stop, Goto, Machine, Running, Fault, TypeOK, Seconds, Owners,
               Steps, Ended, Machines, NotYet
<1>12. ASSUME NEW r \in Runs, Kill(r) PROVE NotYet'
  BY <1>12 DEF Kill, Goto, Raise, Machine, Running, Fault, TypeOK, Seconds,
               Owners, Steps, Ended, Machines, NotYet
<1>13. ASSUME NEW r \in Runs, RemoveDisk(r) PROVE NotYet'
  BY <1>13 DEF RemoveDisk, Goto, Return, Raise, Fault, TypeOK, Seconds,
               Owners, Steps, Ended, Machines, Running, NotYet
<1>14. ASSUME NEW r \in Runs, Boot(r) PROVE NotYet'
  BY <1>14 DEF Boot, Machine, TypeOK, Seconds, Owners, Steps, Ended,
               Machines, Running, NotYet
<1>15. ASSUME NEW r \in Runs, GiveUp(r) PROVE NotYet'
  BY <1>15 DEF GiveUp, Machine, TypeOK, Seconds, Owners, Steps, Ended,
               Machines, Running, NotYet
<1>16. ASSUME NEW r \in Runs, Quit(r) PROVE NotYet'
  BY <1>16 DEF Quit, Machine, Running, Fault, TypeOK, Seconds, Owners, Steps,
               Ended, Machines, NotYet
<1>17. ASSUME NEW r \in Runs, Die(r) PROVE NotYet'
  BY <1>17 DEF Die, Goto, Fault, TypeOK, Seconds, Owners, Steps, Ended,
               Machines, Running, NotYet
<1>18. CASE Tick
  BY <1>18 DEF Tick, TypeOK, Seconds, Owners, Steps, Ended, Machines,
                     Running, NotYet
<1>19. CASE UNCHANGED vars
  BY <1>19 DEF vars, TypeOK, Seconds, Owners, Steps, Ended, Machines,
                     Running, NotYet
<1>. QED
  BY <1>1, <1>2, <1>3, <1>4, <1>5, <1>6, <1>7, <1>8, <1>9,
     <1>10, <1>11, <1>12, <1>13, <1>14, <1>15, <1>16, <1>17, <1>18, <1>19
  DEF Next, Step

\* A process that saw that its port is taken is not let past the check.
LEMMA CheckedStep ==
  TypeOK /\ NotYet /\ Checked /\ [Next]_vars
    => Checked'
<1> SUFFICES ASSUME TypeOK /\ NotYet /\ Checked,
                    [Next]_vars
             PROVE  Checked'
  OBVIOUS
<1> USE NoRunAssumption, NoPortAssumption, BoundsAssumption
<1>1. ASSUME NEW r \in Runs, Create(r) PROVE Checked'
  BY <1>1 DEF Create, Goto, TypeOK, Seconds, Owners, Steps, Ended, Machines,
              Running, NotYet, Checked
<1>2. ASSUME NEW r \in Runs, CopyDisk(r) PROVE Checked'
  BY <1>2 DEF CopyDisk, Goto, Raise, Fault, TypeOK, Seconds, Owners, Steps,
              Ended, Machines, Running, NotYet, Checked
<1>3. ASSUME NEW r \in Runs, FindPort(r) PROVE Checked'
  BY <1>3 DEF FindPort, Goto, Raise, Fault, Listeners, TypeOK, Seconds, Owners,
              Steps, Ended, Machines, Running, NotYet, Checked
<1>4. ASSUME NEW r \in Runs, Launch(r) PROVE Checked'
  BY <1>4 DEF Launch, Goto, Raise, Machine, Fault, Listeners, TypeOK, Seconds,
              Owners, Steps, Ended, Machines, Running, NotYet, Checked
<1>5. ASSUME NEW r \in Runs, CheckAlive(r) PROVE Checked'
  BY <1>5 DEF CheckAlive, Goto, Raise, Running, TypeOK, Seconds, Owners,
              Steps, Ended, Machines, NotYet, Checked
<1>6. ASSUME NEW r \in Runs, Setup(r) PROVE Checked'
  BY <1>6 DEF Setup, Goto, WaitForSsh, Raise, Listeners, Fault, TypeOK,
              Seconds, Owners, Steps, Ended, Machines, Running, NotYet,
              Checked
<1>7. ASSUME NEW r \in Runs, RunAgent(r) PROVE Checked'
  BY <1>7 DEF RunAgent, Goto, Raise, Fault, TypeOK, Seconds, Owners, Steps,
              Ended, Machines, Running, NotYet, Checked
<1>8. ASSUME NEW r \in Runs, SaveResults(r) PROVE Checked'
  BY <1>8 DEF SaveResults, Goto, Raise, Fault, TypeOK, Seconds, Owners,
              Steps, Ended, Machines, Running, NotYet, Checked
<1>9. ASSUME NEW r \in Runs, Finally(r) PROVE Checked'
  BY <1>9 DEF Finally, Goto, Return, TypeOK, Seconds, Owners, Steps, Ended,
              Machines, Running, NotYet, Checked
<1>10. ASSUME NEW r \in Runs, Shutdown(r) PROVE Checked'
  BY <1>10 DEF Shutdown, Goto, WaitForSsh, Raise, Machine, Listeners, Fault,
               TypeOK, Seconds, Owners, Steps, Ended, Machines, Running,
               NotYet, Checked
<1>11. ASSUME NEW r \in Runs, Stop(r) PROVE Checked'
  BY <1>11 DEF Stop, Goto, Machine, Running, Fault, TypeOK, Seconds, Owners,
               Steps, Ended, Machines, NotYet, Checked
<1>12. ASSUME NEW r \in Runs, Kill(r) PROVE Checked'
  BY <1>12 DEF Kill, Goto, Raise, Machine, Running, Fault, TypeOK, Seconds,
               Owners, Steps, Ended, Machines, NotYet, Checked
<1>13. ASSUME NEW r \in Runs, RemoveDisk(r) PROVE Checked'
  BY <1>13 DEF RemoveDisk, Goto, Return, Raise, Fault, TypeOK, Seconds,
               Owners, Steps, Ended, Machines, Running, NotYet, Checked
<1>14. ASSUME NEW r \in Runs, Boot(r) PROVE Checked'
  BY <1>14 DEF Boot, Machine, TypeOK, Seconds, Owners, Steps, Ended,
               Machines, Running, NotYet, Checked
<1>15. ASSUME NEW r \in Runs, GiveUp(r) PROVE Checked'
  BY <1>15 DEF GiveUp, Machine, TypeOK, Seconds, Owners, Steps, Ended,
               Machines, Running, NotYet, Checked
<1>16. ASSUME NEW r \in Runs, Quit(r) PROVE Checked'
  BY <1>16 DEF Quit, Machine, Running, Fault, TypeOK, Seconds, Owners, Steps,
               Ended, Machines, NotYet, Checked
<1>17. ASSUME NEW r \in Runs, Die(r) PROVE Checked'
  BY <1>17 DEF Die, Goto, Fault, TypeOK, Seconds, Owners, Steps, Ended,
               Machines, Running, NotYet, Checked
<1>18. CASE Tick
  BY <1>18 DEF Tick, TypeOK, Seconds, Owners, Steps, Ended, Machines,
                     Running, NotYet, Checked
<1>19. CASE UNCHANGED vars
  BY <1>19 DEF vars, TypeOK, Seconds, Owners, Steps, Ended, Machines,
                     Running, NotYet, Checked
<1>. QED
  BY <1>1, <1>2, <1>3, <1>4, <1>5, <1>6, <1>7, <1>8, <1>9,
     <1>10, <1>11, <1>12, <1>13, <1>14, <1>15, <1>16, <1>17, <1>18, <1>19
  DEF Next, Step

\* Only a Stop or a Kill that saw the process go leads to the removal.
LEMMA RemovingStep ==
  TypeOK /\ NotYet /\ Removing /\ [Next]_vars
    => Removing'
<1> SUFFICES ASSUME TypeOK /\ NotYet /\ Removing,
                    [Next]_vars
             PROVE  Removing'
  OBVIOUS
<1> USE NoRunAssumption, NoPortAssumption, BoundsAssumption
<1>1. ASSUME NEW r \in Runs, Create(r) PROVE Removing'
  BY <1>1 DEF Create, Goto, TypeOK, Seconds, Owners, Steps, Ended, Machines,
              Running, NotYet, Removing
<1>2. ASSUME NEW r \in Runs, CopyDisk(r) PROVE Removing'
  BY <1>2 DEF CopyDisk, Goto, Raise, Fault, TypeOK, Seconds, Owners, Steps,
              Ended, Machines, Running, NotYet, Removing
<1>3. ASSUME NEW r \in Runs, FindPort(r) PROVE Removing'
  BY <1>3 DEF FindPort, Goto, Raise, Fault, Listeners, TypeOK, Seconds, Owners,
              Steps, Ended, Machines, Running, NotYet, Removing
<1>4. ASSUME NEW r \in Runs, Launch(r) PROVE Removing'
  BY <1>4 DEF Launch, Goto, Raise, Machine, Fault, Listeners, TypeOK, Seconds,
              Owners, Steps, Ended, Machines, Running, NotYet, Removing
<1>5. ASSUME NEW r \in Runs, CheckAlive(r) PROVE Removing'
  BY <1>5 DEF CheckAlive, Goto, Raise, Running, TypeOK, Seconds, Owners,
              Steps, Ended, Machines, NotYet, Removing
<1>6. ASSUME NEW r \in Runs, Setup(r) PROVE Removing'
  BY <1>6 DEF Setup, Goto, WaitForSsh, Raise, Listeners, Fault, TypeOK,
              Seconds, Owners, Steps, Ended, Machines, Running, NotYet,
              Removing
<1>7. ASSUME NEW r \in Runs, RunAgent(r) PROVE Removing'
  BY <1>7 DEF RunAgent, Goto, Raise, Fault, TypeOK, Seconds, Owners, Steps,
              Ended, Machines, Running, NotYet, Removing
<1>8. ASSUME NEW r \in Runs, SaveResults(r) PROVE Removing'
  BY <1>8 DEF SaveResults, Goto, Raise, Fault, TypeOK, Seconds, Owners,
              Steps, Ended, Machines, Running, NotYet, Removing
<1>9. ASSUME NEW r \in Runs, Finally(r) PROVE Removing'
  BY <1>9 DEF Finally, Goto, Return, TypeOK, Seconds, Owners, Steps, Ended,
              Machines, Running, NotYet, Removing
<1>10. ASSUME NEW r \in Runs, Shutdown(r) PROVE Removing'
  BY <1>10 DEF Shutdown, Goto, WaitForSsh, Raise, Machine, Listeners, Fault,
               TypeOK, Seconds, Owners, Steps, Ended, Machines, Running,
               NotYet, Removing
<1>11. ASSUME NEW r \in Runs, Stop(r) PROVE Removing'
  BY <1>11 DEF Stop, Goto, Machine, Running, Fault, TypeOK, Seconds, Owners,
               Steps, Ended, Machines, NotYet, Removing
<1>12. ASSUME NEW r \in Runs, Kill(r) PROVE Removing'
  BY <1>12 DEF Kill, Goto, Raise, Machine, Running, Fault, TypeOK, Seconds,
               Owners, Steps, Ended, Machines, NotYet, Removing
<1>13. ASSUME NEW r \in Runs, RemoveDisk(r) PROVE Removing'
  BY <1>13 DEF RemoveDisk, Goto, Return, Raise, Fault, TypeOK, Seconds,
               Owners, Steps, Ended, Machines, Running, NotYet, Removing
<1>14. ASSUME NEW r \in Runs, Boot(r) PROVE Removing'
  BY <1>14 DEF Boot, Machine, TypeOK, Seconds, Owners, Steps, Ended,
               Machines, Running, NotYet, Removing
<1>15. ASSUME NEW r \in Runs, GiveUp(r) PROVE Removing'
  BY <1>15 DEF GiveUp, Machine, TypeOK, Seconds, Owners, Steps, Ended,
               Machines, Running, NotYet, Removing
<1>16. ASSUME NEW r \in Runs, Quit(r) PROVE Removing'
  BY <1>16 DEF Quit, Machine, Running, Fault, TypeOK, Seconds, Owners, Steps,
               Ended, Machines, NotYet, Removing
<1>17. ASSUME NEW r \in Runs, Die(r) PROVE Removing'
  BY <1>17 DEF Die, Goto, Fault, TypeOK, Seconds, Owners, Steps, Ended,
               Machines, Running, NotYet, Removing
<1>18. CASE Tick
  BY <1>18 DEF Tick, TypeOK, Seconds, Owners, Steps, Ended, Machines,
                     Running, NotYet, Removing
<1>19. CASE UNCHANGED vars
  BY <1>19 DEF vars, TypeOK, Seconds, Owners, Steps, Ended, Machines,
                     Running, NotYet, Removing
<1>. QED
  BY <1>1, <1>2, <1>3, <1>4, <1>5, <1>6, <1>7, <1>8, <1>9,
     <1>10, <1>11, <1>12, <1>13, <1>14, <1>15, <1>16, <1>17, <1>18, <1>19
  DEF Next, Step

\* A disk goes over to another run only if that run has the same second.
LEMMA DiskStep ==
  TypeOK /\ StampOK /\ NotYet /\ Removing /\ DiskOK /\ [Next]_vars
    => DiskOK'
<1> SUFFICES ASSUME TypeOK /\ StampOK /\ NotYet /\ Removing /\ DiskOK,
                    [Next]_vars
             PROVE  DiskOK'
  OBVIOUS
<1> USE NoRunAssumption, NoPortAssumption, BoundsAssumption
<1>1. ASSUME NEW r \in Runs, Create(r) PROVE DiskOK'
  BY <1>1 DEF Create, Goto, TypeOK, Seconds, Owners, Steps, Ended, Machines,
              Running, StampOK, NotYet, Removing, DiskOK, Shared
<1>2. ASSUME NEW r \in Runs, CopyDisk(r) PROVE DiskOK'
  BY <1>2 DEF CopyDisk, Goto, Raise, Fault, TypeOK, Seconds, Owners, Steps,
              Ended, Machines, Running, StampOK, NotYet, Removing, DiskOK,
              Shared
<1>3. ASSUME NEW r \in Runs, FindPort(r) PROVE DiskOK'
  BY <1>3 DEF FindPort, Goto, Raise, Fault, Listeners, TypeOK, Seconds, Owners,
              Steps, Ended, Machines, Running, StampOK, NotYet, Removing,
              DiskOK, Shared
<1>4. ASSUME NEW r \in Runs, Launch(r) PROVE DiskOK'
  BY <1>4 DEF Launch, Goto, Raise, Machine, Fault, Listeners, TypeOK, Seconds,
              Owners, Steps, Ended, Machines, Running, StampOK, NotYet,
              Removing, DiskOK, Shared
<1>5. ASSUME NEW r \in Runs, CheckAlive(r) PROVE DiskOK'
  BY <1>5 DEF CheckAlive, Goto, Raise, Running, TypeOK, Seconds, Owners,
              Steps, Ended, Machines, StampOK, NotYet, Removing, DiskOK,
              Shared
<1>6. ASSUME NEW r \in Runs, Setup(r) PROVE DiskOK'
  BY <1>6 DEF Setup, Goto, WaitForSsh, Raise, Listeners, Fault, TypeOK,
              Seconds, Owners, Steps, Ended, Machines, Running, StampOK,
              NotYet, Removing, DiskOK, Shared
<1>7. ASSUME NEW r \in Runs, RunAgent(r) PROVE DiskOK'
  BY <1>7 DEF RunAgent, Goto, Raise, Fault, TypeOK, Seconds, Owners, Steps,
              Ended, Machines, Running, StampOK, NotYet, Removing, DiskOK,
              Shared
<1>8. ASSUME NEW r \in Runs, SaveResults(r) PROVE DiskOK'
  BY <1>8 DEF SaveResults, Goto, Raise, Fault, TypeOK, Seconds, Owners,
              Steps, Ended, Machines, Running, StampOK, NotYet, Removing,
              DiskOK, Shared
<1>9. ASSUME NEW r \in Runs, Finally(r) PROVE DiskOK'
  BY <1>9 DEF Finally, Goto, Return, TypeOK, Seconds, Owners, Steps, Ended,
              Machines, Running, StampOK, NotYet, Removing, DiskOK, Shared
<1>10. ASSUME NEW r \in Runs, Shutdown(r) PROVE DiskOK'
  BY <1>10 DEF Shutdown, Goto, WaitForSsh, Raise, Machine, Listeners, Fault,
               TypeOK, Seconds, Owners, Steps, Ended, Machines, Running,
               StampOK, NotYet, Removing, DiskOK, Shared
<1>11. ASSUME NEW r \in Runs, Stop(r) PROVE DiskOK'
  BY <1>11 DEF Stop, Goto, Machine, Running, Fault, TypeOK, Seconds, Owners,
               Steps, Ended, Machines, StampOK, NotYet, Removing, DiskOK,
               Shared
<1>12. ASSUME NEW r \in Runs, Kill(r) PROVE DiskOK'
  BY <1>12 DEF Kill, Goto, Raise, Machine, Running, Fault, TypeOK, Seconds,
               Owners, Steps, Ended, Machines, StampOK, NotYet, Removing,
               DiskOK, Shared
<1>13. ASSUME NEW r \in Runs, RemoveDisk(r) PROVE DiskOK'
  BY <1>13 DEF RemoveDisk, Goto, Return, Raise, Fault, TypeOK, Seconds,
               Owners, Steps, Ended, Machines, Running, StampOK, NotYet,
               Removing, DiskOK, Shared
<1>14. ASSUME NEW r \in Runs, Boot(r) PROVE DiskOK'
  BY <1>14 DEF Boot, Machine, TypeOK, Seconds, Owners, Steps, Ended,
               Machines, Running, StampOK, NotYet, Removing, DiskOK, Shared
<1>15. ASSUME NEW r \in Runs, GiveUp(r) PROVE DiskOK'
  BY <1>15 DEF GiveUp, Machine, TypeOK, Seconds, Owners, Steps, Ended,
               Machines, Running, StampOK, NotYet, Removing, DiskOK, Shared
<1>16. ASSUME NEW r \in Runs, Quit(r) PROVE DiskOK'
  BY <1>16 DEF Quit, Machine, Running, Fault, TypeOK, Seconds, Owners, Steps,
               Ended, Machines, StampOK, NotYet, Removing, DiskOK, Shared
<1>17. ASSUME NEW r \in Runs, Die(r) PROVE DiskOK'
  BY <1>17 DEF Die, Goto, Fault, TypeOK, Seconds, Owners, Steps, Ended,
               Machines, Running, StampOK, NotYet, Removing, DiskOK, Shared
<1>18. CASE Tick
  BY <1>18 DEF Tick, TypeOK, Seconds, Owners, Steps, Ended, Machines,
                     Running, StampOK, NotYet, Removing, DiskOK, Shared
<1>19. CASE UNCHANGED vars
  BY <1>19 DEF vars, TypeOK, Seconds, Owners, Steps, Ended, Machines,
                     Running, StampOK, NotYet, Removing, DiskOK, Shared
<1>. QED
  BY <1>1, <1>2, <1>3, <1>4, <1>5, <1>6, <1>7, <1>8, <1>9,
     <1>10, <1>11, <1>12, <1>13, <1>14, <1>15, <1>16, <1>17, <1>18, <1>19
  DEF Next, Step

\* The steps that end a run, and what each of them leaves.
LEMMA EndsStep ==
  TypeOK /\ StampOK /\ NotYet /\ Removing /\ EndsClean /\ [Next]_vars
    => EndsClean'
<1> SUFFICES ASSUME TypeOK /\ StampOK /\ NotYet /\ Removing /\ EndsClean,
                    [Next]_vars
             PROVE  EndsClean'
  OBVIOUS
<1> USE DEF UncleanSteps
<1> USE NoRunAssumption, NoPortAssumption, BoundsAssumption
<1>1. ASSUME NEW r \in Runs, Create(r) PROVE EndsClean'
  BY <1>1 DEF Create, Goto, TypeOK, Seconds, Owners, Steps, Ended, Machines,
              Running, StampOK, NotYet, Removing, EndsClean
<1>2. ASSUME NEW r \in Runs, CopyDisk(r) PROVE EndsClean'
  BY <1>2 DEF CopyDisk, Goto, Raise, Fault, TypeOK, Seconds, Owners, Steps,
              Ended, Machines, Running, StampOK, NotYet, Removing, EndsClean
<1>3. ASSUME NEW r \in Runs, FindPort(r) PROVE EndsClean'
  <2>1. /\ keep' = keep /\ stamp' = stamp /\ disk' = disk
        /\ pc'[r] = "launch" \/ (pc'[r] = "failed" /\ raised'[r] = "port")
    BY <1>3 DEF FindPort, Raise, Goto, TypeOK
  <2>2. \A x \in Runs \ {r} : pc'[x] = pc[x] /\ raised'[x] = raised[x]
    BY <1>3 DEF FindPort, Raise, Goto, TypeOK
  <2>3. vm' = vm /\ vm[r] = "none"
    BY <1>3 DEF FindPort, NotYet
  <2>. QED
    BY <2>1, <2>2, <2>3 DEF EndsClean, Running
<1>4. ASSUME NEW r \in Runs, Launch(r) PROVE EndsClean'
  <2>1. /\ keep' = keep /\ stamp' = stamp /\ disk' = disk
        /\ pc'[r] = "check" \/ (pc'[r] = "failed" /\ raised'[r] = "launch")
    BY <1>4 DEF Launch, Raise, Goto, TypeOK
  <2>2. \A x \in Runs \ {r} : pc'[x] = pc[x] /\ raised'[x] = raised[x]
    BY <1>4 DEF Launch, Raise, Goto, TypeOK
  <2>3. \A x \in Runs \ {r} : vm'[x] = vm[x]
    BY <1>4 DEF Launch, Machine, TypeOK
  <2>4. pc'[r] = "failed" => vm'[r] = "none"
    BY <1>4 DEF Launch, Goto, NotYet, TypeOK
  <2>. QED
    BY <2>1, <2>2, <2>3, <2>4 DEF EndsClean, Running
<1>5. ASSUME NEW r \in Runs, CheckAlive(r) PROVE EndsClean'
  BY <1>5 DEF CheckAlive, Goto, Raise, Running, TypeOK, Seconds, Owners,
              Steps, Ended, Machines, StampOK, NotYet, Removing, EndsClean
<1>6. ASSUME NEW r \in Runs, Setup(r) PROVE EndsClean'
  <2>1. /\ pc'[r] \notin {"done", "failed"}
        /\ keep' = keep /\ stamp' = stamp /\ vm' = vm /\ disk' = disk
    BY <1>6 DEF Setup, WaitForSsh, Raise, Goto, TypeOK
  <2>2. \A x \in Runs \ {r} : pc'[x] = pc[x] /\ raised'[x] = raised[x]
    BY <1>6 DEF Setup, WaitForSsh, Raise, Goto, TypeOK
  <2>. QED
    BY <2>1, <2>2 DEF EndsClean
<1>7. ASSUME NEW r \in Runs, RunAgent(r) PROVE EndsClean'
  BY <1>7 DEF RunAgent, Goto, Raise, Fault, TypeOK, Seconds, Owners, Steps,
              Ended, Machines, Running, StampOK, NotYet, Removing, EndsClean
<1>8. ASSUME NEW r \in Runs, SaveResults(r) PROVE EndsClean'
  BY <1>8 DEF SaveResults, Goto, Raise, Fault, TypeOK, Seconds, Owners,
              Steps, Ended, Machines, Running, StampOK, NotYet, Removing,
              EndsClean
<1>9. ASSUME NEW r \in Runs, Finally(r) PROVE EndsClean'
  BY <1>9 DEF Finally, Goto, Return, TypeOK, Seconds, Owners, Steps, Ended,
              Machines, Running, StampOK, NotYet, Removing, EndsClean
<1>10. ASSUME NEW r \in Runs, Shutdown(r) PROVE EndsClean'
  <2>1. /\ pc'[r] \notin {"done", "failed"}
        /\ keep' = keep /\ stamp' = stamp /\ disk' = disk
    BY <1>10 DEF Shutdown, WaitForSsh, Raise, Goto, TypeOK
  <2>2. \A x \in Runs \ {r} : pc'[x] = pc[x] /\ raised'[x] = raised[x]
    BY <1>10 DEF Shutdown, WaitForSsh, Raise, Goto, TypeOK
  <2>3. \A x \in Runs : vm'[x] \in Running => vm[x] \in Running
    <3>1. \/ vm' = vm
          \/ \E q \in Runs : vm[q] = "up" /\ vm' = [vm EXCEPT ![q] = "halting"]
      BY <1>10 DEF Shutdown, WaitForSsh, Listeners, Machine, TypeOK
    <3>. QED
      BY <3>1 DEF TypeOK, Running
  <2>. QED
    BY <2>1, <2>2, <2>3 DEF EndsClean
<1>11. ASSUME NEW r \in Runs, Stop(r) PROVE EndsClean'
  BY <1>11 DEF Stop, Goto, Machine, Running, Fault, TypeOK, Seconds, Owners,
               Steps, Ended, Machines, StampOK, NotYet, Removing, EndsClean
<1>12. ASSUME NEW r \in Runs, Kill(r) PROVE EndsClean'
  <2>1. /\ keep' = keep /\ stamp' = stamp /\ disk' = disk
        /\ pc'[r] = "remove" \/ (pc'[r] = "failed" /\ raised'[r] = "kill")
    BY <1>12 DEF Kill, Raise, Goto, TypeOK
  <2>2. \A x \in Runs \ {r} : pc'[x] = pc[x] /\ raised'[x] = raised[x]
    BY <1>12 DEF Kill, Raise, Goto, TypeOK
  <2>3. \A x \in Runs : vm'[x] \in Running => vm[x] \in Running
    BY <1>12 DEF Kill, Machine, Running, TypeOK
  <2>. QED
    BY <2>1, <2>2, <2>3 DEF EndsClean
<1>13. ASSUME NEW r \in Runs, RemoveDisk(r) PROVE EndsClean'
  <2>1. /\ pc[r] = "remove" /\ vm[r] \notin Running
        /\ keep' = keep /\ stamp' = stamp /\ vm' = vm
    BY <1>13 DEF RemoveDisk, Removing
  <2>2. \A x \in Runs \ {r} : pc'[x] = pc[x] /\ raised'[x] = raised[x]
    BY <1>13 DEF RemoveDisk, Goto, Raise, Return, TypeOK
  <2>3. \A x \in Runs \ {r} :
          stamp[x] \in Seconds /\ disk'[stamp[x]] = x => disk[stamp[x]] = x
    BY <1>13 DEF RemoveDisk, TypeOK, StampOK, Seconds
  <2>4. \A x \in Runs : pc[x] \in {"done", "failed"} => stamp[x] \in Seconds
    BY DEF StampOK
  <2>5. disk'[stamp[r]] = r => raised'[r] = "remove"
    BY <1>13, <2>1 DEF RemoveDisk, Raise, TypeOK, StampOK, Seconds, Owners
  <2>. QED
    BY <2>1, <2>2, <2>3, <2>4, <2>5 DEF EndsClean
<1>14. ASSUME NEW r \in Runs, Boot(r) PROVE EndsClean'
  BY <1>14 DEF Boot, Machine, TypeOK, Seconds, Owners, Steps, Ended,
               Machines, Running, StampOK, NotYet, Removing, EndsClean
<1>15. ASSUME NEW r \in Runs, GiveUp(r) PROVE EndsClean'
  BY <1>15 DEF GiveUp, Machine, TypeOK, Seconds, Owners, Steps, Ended,
               Machines, Running, StampOK, NotYet, Removing, EndsClean
<1>16. ASSUME NEW r \in Runs, Quit(r) PROVE EndsClean'
  BY <1>16 DEF Quit, Machine, Running, Fault, TypeOK, Seconds, Owners, Steps,
               Ended, Machines, StampOK, NotYet, Removing, EndsClean
<1>17. ASSUME NEW r \in Runs, Die(r) PROVE EndsClean'
  BY <1>17 DEF Die, Goto, Fault, TypeOK, Seconds, Owners, Steps, Ended,
               Machines, Running, StampOK, NotYet, Removing, EndsClean
<1>18. CASE Tick
  BY <1>18 DEF Tick, TypeOK, Seconds, Owners, Steps, Ended, Machines,
                     Running, StampOK, NotYet, Removing, EndsClean
<1>19. CASE UNCHANGED vars
  BY <1>19 DEF vars, TypeOK, Seconds, Owners, Steps, Ended, Machines,
                     Running, StampOK, NotYet, Removing, EndsClean
<1>. QED
  BY <1>1, <1>2, <1>3, <1>4, <1>5, <1>6, <1>7, <1>8, <1>9,
     <1>10, <1>11, <1>12, <1>13, <1>14, <1>15, <1>16, <1>17, <1>18, <1>19
  DEF Next, Step

\* Only runs past the check get a session.
LEMMA GuestStep ==
  TypeOK /\ NotYet /\ Checked /\ GuestIsOwn /\ [Next]_vars
    => GuestIsOwn'
<1> SUFFICES ASSUME TypeOK /\ NotYet /\ Checked /\ GuestIsOwn,
                    [Next]_vars
             PROVE  GuestIsOwn'
  OBVIOUS
<1> USE NoRunAssumption, NoPortAssumption, BoundsAssumption
<1>1. ASSUME NEW r \in Runs, Create(r) PROVE GuestIsOwn'
  BY <1>1 DEF Create, Goto, TypeOK, Seconds, Owners, Steps, Ended, Machines,
              Running, NotYet, Checked, GuestIsOwn
<1>2. ASSUME NEW r \in Runs, CopyDisk(r) PROVE GuestIsOwn'
  BY <1>2 DEF CopyDisk, Goto, Raise, Fault, TypeOK, Seconds, Owners, Steps,
              Ended, Machines, Running, NotYet, Checked, GuestIsOwn
<1>3. ASSUME NEW r \in Runs, FindPort(r) PROVE GuestIsOwn'
  BY <1>3 DEF FindPort, Goto, Raise, Fault, Listeners, TypeOK, Seconds, Owners,
              Steps, Ended, Machines, Running, NotYet, Checked, GuestIsOwn
<1>4. ASSUME NEW r \in Runs, Launch(r) PROVE GuestIsOwn'
  BY <1>4 DEF Launch, Goto, Raise, Machine, Fault, Listeners, TypeOK, Seconds,
              Owners, Steps, Ended, Machines, Running, NotYet, Checked,
              GuestIsOwn
<1>5. ASSUME NEW r \in Runs, CheckAlive(r) PROVE GuestIsOwn'
  BY <1>5 DEF CheckAlive, Goto, Raise, Running, TypeOK, Seconds, Owners,
              Steps, Ended, Machines, NotYet, Checked, GuestIsOwn
<1>6. ASSUME NEW r \in Runs, Setup(r) PROVE GuestIsOwn'
  <2>1. vm[r] \notin {"none", "refused"} /\ vm' = vm
    BY <1>6 DEF Setup, WaitForSsh, Checked
  <2>2. \A x \in Runs \ {r} : session'[x] = session[x]
    BY <1>6 DEF Setup, WaitForSsh, Listeners, TypeOK
  <2>. QED
    BY <2>1, <2>2 DEF GuestIsOwn
<1>7. ASSUME NEW r \in Runs, RunAgent(r) PROVE GuestIsOwn'
  BY <1>7 DEF RunAgent, Goto, Raise, Fault, TypeOK, Seconds, Owners, Steps,
              Ended, Machines, Running, NotYet, Checked, GuestIsOwn
<1>8. ASSUME NEW r \in Runs, SaveResults(r) PROVE GuestIsOwn'
  BY <1>8 DEF SaveResults, Goto, Raise, Fault, TypeOK, Seconds, Owners,
              Steps, Ended, Machines, Running, NotYet, Checked, GuestIsOwn
<1>9. ASSUME NEW r \in Runs, Finally(r) PROVE GuestIsOwn'
  BY <1>9 DEF Finally, Goto, Return, TypeOK, Seconds, Owners, Steps, Ended,
              Machines, Running, NotYet, Checked, GuestIsOwn
<1>10. ASSUME NEW r \in Runs, Shutdown(r) PROVE GuestIsOwn'
  BY <1>10 DEF Shutdown, Goto, WaitForSsh, Raise, Machine, Listeners, Fault,
               TypeOK, Seconds, Owners, Steps, Ended, Machines, Running,
               NotYet, Checked, GuestIsOwn
<1>11. ASSUME NEW r \in Runs, Stop(r) PROVE GuestIsOwn'
  BY <1>11 DEF Stop, Goto, Machine, Running, Fault, TypeOK, Seconds, Owners,
               Steps, Ended, Machines, NotYet, Checked, GuestIsOwn
<1>12. ASSUME NEW r \in Runs, Kill(r) PROVE GuestIsOwn'
  BY <1>12 DEF Kill, Goto, Raise, Machine, Running, Fault, TypeOK, Seconds,
               Owners, Steps, Ended, Machines, NotYet, Checked, GuestIsOwn
<1>13. ASSUME NEW r \in Runs, RemoveDisk(r) PROVE GuestIsOwn'
  BY <1>13 DEF RemoveDisk, Goto, Return, Raise, Fault, TypeOK, Seconds,
               Owners, Steps, Ended, Machines, Running, NotYet, Checked,
               GuestIsOwn
<1>14. ASSUME NEW r \in Runs, Boot(r) PROVE GuestIsOwn'
  BY <1>14 DEF Boot, Machine, TypeOK, Seconds, Owners, Steps, Ended,
               Machines, Running, NotYet, Checked, GuestIsOwn
<1>15. ASSUME NEW r \in Runs, GiveUp(r) PROVE GuestIsOwn'
  BY <1>15 DEF GiveUp, Machine, TypeOK, Seconds, Owners, Steps, Ended,
               Machines, Running, NotYet, Checked, GuestIsOwn
<1>16. ASSUME NEW r \in Runs, Quit(r) PROVE GuestIsOwn'
  BY <1>16 DEF Quit, Machine, Running, Fault, TypeOK, Seconds, Owners, Steps,
               Ended, Machines, NotYet, Checked, GuestIsOwn
<1>17. ASSUME NEW r \in Runs, Die(r) PROVE GuestIsOwn'
  BY <1>17 DEF Die, Goto, Fault, TypeOK, Seconds, Owners, Steps, Ended,
               Machines, Running, NotYet, Checked, GuestIsOwn
<1>18. CASE Tick
  BY <1>18 DEF Tick, TypeOK, Seconds, Owners, Steps, Ended, Machines,
                     Running, NotYet, Checked, GuestIsOwn
<1>19. CASE UNCHANGED vars
  BY <1>19 DEF vars, TypeOK, Seconds, Owners, Steps, Ended, Machines,
                     Running, NotYet, Checked, GuestIsOwn
<1>. QED
  BY <1>1, <1>2, <1>3, <1>4, <1>5, <1>6, <1>7, <1>8, <1>9,
     <1>10, <1>11, <1>12, <1>13, <1>14, <1>15, <1>16, <1>17, <1>18, <1>19
  DEF Next, Step

LEMMA InitInv == Init => IInv
  BY NoRunAssumption, NoPortAssumption, BoundsAssumption
  DEF Init, IInv, TypeOK, Seconds, Owners, Steps, Ended, Machines, Running,
      StampOK, NotYet, Checked, Removing, DiskOK, EndsClean, GuestIsOwn

LEMMA IInvStep == IInv /\ [Next]_vars => IInv'
  BY TypeStep, StampStep, NotYetStep, CheckedStep, RemovingStep, DiskStep,
     EndsStep, GuestStep
  DEF IInv

LEMMA InvHolds == Spec => []IInv
  BY InitInv, IInvStep, PTL DEF Spec
-----------------------------------------------------------------------------
\* Every variable keeps its type: no step number, port or second is invented.
THEOREM TypeCorrect == Spec => []TypeOK
  BY InvHolds, PTL DEF IInv

\* No machine loses its disk while it runs, unless two runs share a second:
\* the harness takes a disk away only when its own process is gone.
THEOREM DisksAreOwn == Spec => []DiskIsOwn
<1>1. IInv => DiskIsOwn
  BY DEF IInv, DiskOK, DiskIsOwn, Shared
<1>. QED
  BY <1>1, InvHolds, PTL

\* A run that is over left no QEMU behind, but for one that two signals did
\* not stop, and no disk, but for an exception before the try statement (of the
\* copy, of the port search, of Popen, of the check) or in the removal itself:
\* what happens in the try, its finally included, leaves neither.
THEOREM RunsEndClean == Spec => []EndsClean
  BY InvHolds, PTL DEF IInv

\* A run whose QEMU lost the race for the port does not test the guest of
\* the run that won it, as far as QEMU noticed within the second.
THEOREM GuestsAreOwn == Spec => []GuestIsOwn
  BY InvHolds, PTL DEF IInv

-----------------------------------------------------------------------------
(***************************************************************************)
(* The names (NamedRuns): CopyDisk makes the disk, RemoveDisk removes it,  *)
(* and what is between them touches no disk.                               *)
(***************************************************************************)
PhaseOf == [r \in Runs |-> Phase(r)]

AtWork == Steps \ {"create", "copy", "remove"}

\* A run moves on, and no other one does.
Moves(r, to) ==
  /\ pc'[r] \in to
  /\ \A q \in Runs \ {r} : pc'[q] = pc[q]

\* The clock does not go back.
ClockOK == \A r \in Runs : stamp[r] <= second

LEMMA ClockStep ==
  ASSUME TypeOK, ClockOK, [Next]_vars
  PROVE  ClockOK'
<1>1. ASSUME NEW r \in Runs, Create(r) PROVE ClockOK'
  BY <1>1 DEF Create, ClockOK, TypeOK, Seconds
<1>2. CASE Tick
  BY <1>2 DEF Tick, ClockOK, TypeOK, Seconds
<1>3. CASE UNCHANGED <<stamp, second>>
  BY <1>3 DEF ClockOK
<1> QED
  BY <1>1, <1>2, <1>3
  DEF Next, Step, vars, CopyDisk, FindPort, Launch, CheckAlive, Setup,
      RunAgent, SaveResults, Finally, Shutdown, Stop, Kill, RemoveDisk, Boot,
      GiveUp, Quit, Die

LEMMA PhaseMoves ==
  ASSUME NEW r \in Runs, NEW to, Moves(r, to)
  PROVE  PhaseOf' = [PhaseOf EXCEPT ![r] = Phase(r)']
BY DEF Moves, PhaseOf, Phase

\* The steps between the copy and the removal.
LEMMA Work ==
  ASSUME TypeOK, NEW r \in Runs,
         \/ FindPort(r) \/ Launch(r) \/ CheckAlive(r) \/ Setup(r)
         \/ RunAgent(r) \/ SaveResults(r) \/ Finally(r) \/ Shutdown(r)
         \/ Stop(r) \/ Kill(r)
  PROVE  /\ pc[r] \in AtWork
         /\ Moves(r, AtWork \cup {"remove"} \cup Ended)
         /\ UNCHANGED <<stamp, disk>>
<1> USE DEF TypeOK, AtWork, Steps, Ended, Moves, Goto
<1>1. CASE FindPort(r)
  BY <1>1 DEF FindPort, Raise
<1>2. CASE Launch(r)
  BY <1>2 DEF Launch, Raise
<1>3. CASE CheckAlive(r)
  BY <1>3 DEF CheckAlive, Raise
<1>4. CASE Setup(r)
  BY <1>4 DEF Setup, WaitForSsh, Raise
<1>5. CASE RunAgent(r)
  BY <1>5 DEF RunAgent, Raise
<1>6. CASE SaveResults(r)
  BY <1>6 DEF SaveResults, Raise
<1>7. CASE Finally(r)
  BY <1>7 DEF Finally, Return
<1>8. CASE Shutdown(r)
  BY <1>8 DEF Shutdown, WaitForSsh, Raise
<1>9. CASE Stop(r)
  BY <1>9 DEF Stop
<1>10. CASE Kill(r)
  BY <1>10 DEF Kill, Raise
<1> QED
  BY <1>1, <1>2, <1>3, <1>4, <1>5, <1>6, <1>7, <1>8, <1>9, <1>10

\* What a step of one run is to the names.
Touches(r) == \/ \E n \in Seconds : NamesOf!Start(r, n)
              \/ \E x \in Things : NamesOf!Make(r, x) \/ NamesOf!Remove(r, x)
              \/ NamesOf!GoOn(r) \/ NamesOf!Refuse(r)
              \/ UNCHANGED <<PhaseOf, stamp, Made>>

\* A step that makes and removes nothing.
LEMMA Goes ==
  ASSUME NEW r \in Runs, UNCHANGED <<stamp, disk>>, NEW to, Moves(r, to),
         \/ Phase(r)' = Phase(r)
         \/ Phase(r) = "before" /\ Phase(r)' = "over"
         \/ Phase(r) # "before" /\ Phase(r)' \in NamesOf!Later[Phase(r)]
  PROVE  Touches(r)
<1>1. PhaseOf' = [PhaseOf EXCEPT ![r] = Phase(r)'] /\ PhaseOf[r] = Phase(r)
  BY PhaseMoves DEF PhaseOf
<1>2. Made' = Made
  BY DEF Made
<1>3. CASE Phase(r)' = Phase(r)
  BY <1>1, <1>2, <1>3 DEF Touches, PhaseOf
<1>4. CASE Phase(r) = "before" /\ Phase(r)' = "over"
  BY <1>1, <1>2, <1>4 DEF Touches, PhaseOf, NamesOf!Refuse, NamesOf!Enter
<1>5. CASE Phase(r) # "before" /\ Phase(r)' \in NamesOf!Later[Phase(r)]
  BY <1>1, <1>2, <1>5 DEF Touches, PhaseOf, NamesOf!GoOn, NamesOf!Enter
<1> QED
  BY <1>3, <1>4, <1>5

LEMMA NamesStep ==
  ASSUME TypeOK, ClockOK, [Next]_vars
  PROVE  (\E r \in Runs : Touches(r)) \/ UNCHANGED <<PhaseOf, stamp, Made>>
<1>1. ASSUME NEW r \in Runs, Create(r) PROVE Touches(r)
  <2>1. /\ Moves(r, {"refused", "copy"}) /\ pc[r] = "create"
        /\ UNCHANGED <<disk, second>>
    BY <1>1 DEF Create, Goto, Moves, TypeOK
  <2>2. CASE pc'[r] = "refused"
    <3>1. UNCHANGED stamp
      BY <1>1, <2>2 DEF Create, Goto, TypeOK
    <3>2. Phase(r) = "before" /\ Phase(r)' = "over"
      BY <2>1, <2>2 DEF Phase, Ended
    <3> QED
      BY <2>1, <3>1, <3>2, Goes
  <2>3. CASE pc'[r] = "copy"
    <3>1. stamp' = [stamp EXCEPT ![r] = second]
      BY <1>1, <2>3 DEF Create, Goto, TypeOK
    <3>2. PhaseOf[r] = "before" /\ PhaseOf' = [PhaseOf EXCEPT ![r] = "making"]
      <4>1. Phase(r) = "before" /\ Phase(r)' = "making"
        BY <2>1, <2>3 DEF Phase, Ended
      <4> QED
        BY <2>1, <4>1, PhaseMoves DEF PhaseOf
    <3>3. NamesOf!Start(r, second)
      BY <2>1, <3>1, <3>2 DEF NamesOf!Start, NamesOf!Enter, PhaseOf, Made,
                              ClockOK
    <3> QED
      BY <3>3 DEF Touches, TypeOK
  <2> QED
    BY <2>1, <2>2, <2>3 DEF Moves
<1>2. ASSUME NEW r \in Runs, CopyDisk(r) PROVE Touches(r)
  <2>1. /\ Moves(r, {"port", "failed"}) /\ pc[r] = "copy" /\ UNCHANGED stamp
        /\ disk' = [disk EXCEPT ![stamp[r]] = r]
    BY <1>2 DEF CopyDisk, Goto, Raise, Moves, TypeOK
  <2>2. Phase(r) = "making" /\ Phase(r)' \in {"working", "over"}
    BY <2>1 DEF Phase, Moves, Ended
  <2>3. /\ PhaseOf[r] = "making"
        /\ PhaseOf' = [PhaseOf EXCEPT ![r] = Phase(r)']
    BY <2>1, <2>2, PhaseMoves DEF PhaseOf
  <2>4. Made' = [Made EXCEPT !["disk"][stamp[r]] = r]
    BY <2>1 DEF Made, Things
  <2>5. NamesOf!Make(r, "disk")
    BY <2>1, <2>2, <2>3, <2>4
    DEF NamesOf!Make, NamesOf!Enter, NamesOf!Later, PhaseOf
  <2> QED
    BY <2>5 DEF Touches, Things
<1>3. ASSUME NEW r \in Runs,
             \/ FindPort(r) \/ Launch(r) \/ CheckAlive(r) \/ Setup(r)
             \/ RunAgent(r) \/ SaveResults(r) \/ Finally(r) \/ Shutdown(r)
             \/ Stop(r) \/ Kill(r)
      PROVE  Touches(r)
  <2>1. /\ pc[r] \in AtWork /\ UNCHANGED <<stamp, disk>>
        /\ Moves(r, AtWork \cup {"remove"} \cup Ended)
    BY <1>3, Work
  <2>2. Phase(r) = "working" /\ Phase(r)' \in {"working", "removing", "over"}
    BY <2>1 DEF Moves, Phase, AtWork, Steps, Ended
  <2>3. Phase(r)' = Phase(r) \/ Phase(r)' \in NamesOf!Later[Phase(r)]
    BY <2>2 DEF NamesOf!Later
  <2> QED
    BY <2>1, <2>2, <2>3, Goes
<1>4. ASSUME NEW r \in Runs, RemoveDisk(r) PROVE Touches(r)
  <2>1. Moves(r, Ended) /\ pc[r] = "remove" /\ UNCHANGED stamp
    BY <1>4 DEF RemoveDisk, Goto, Raise, Return, Moves, Ended, TypeOK
  <2>2. Phase(r) = "removing" /\ Phase(r)' = "over"
    BY <2>1 DEF Phase, Moves, Ended
  <2>3. CASE UNCHANGED disk
    <3>1. "over" \in NamesOf!Later["removing"]
      BY DEF NamesOf!Later
    <3> QED
      BY <2>1, <2>2, <2>3, <3>1, Goes
  <2>4. CASE disk' = [disk EXCEPT ![stamp[r]] = NoRun]
    <3>1. /\ PhaseOf[r] = "removing"
          /\ PhaseOf' = [PhaseOf EXCEPT ![r] = "over"]
      BY <2>1, <2>2, PhaseMoves DEF PhaseOf
    <3>2. Made' = [Made EXCEPT !["disk"][stamp[r]] = NoRun]
      BY <2>4 DEF Made, Things
    <3>3. NamesOf!Remove(r, "disk")
      BY <2>1, <3>1, <3>2
      DEF NamesOf!Remove, NamesOf!Enter, NamesOf!Later, PhaseOf
    <3> QED
      BY <3>3 DEF Touches, Things
  <2> QED
    BY <1>4, <2>3, <2>4 DEF RemoveDisk
<1>5. ASSUME NEW r \in Runs, Die(r) PROVE Touches(r)
  <2>1. /\ Moves(r, {"dead"}) /\ pc[r] \in Steps \ {"create"}
        /\ UNCHANGED <<stamp, disk>>
    BY <1>5 DEF Die, Goto, Moves, TypeOK, Steps
  <2>2. Phase(r) \in {"making", "working", "removing"} /\ Phase(r)' = "over"
    BY <2>1 DEF Moves, Phase, Steps, Ended
  <2>3. Phase(r)' \in NamesOf!Later[Phase(r)]
    BY <2>2 DEF NamesOf!Later
  <2> QED
    BY <2>1, <2>2, <2>3, Goes
<1>6. CASE UNCHANGED <<pc, stamp, disk>>
  BY <1>6 DEF PhaseOf, Phase, Made
<1> QED
  BY <1>1, <1>2, <1>3, <1>4, <1>5, <1>6
  DEF Next, Step, Boot, GiveUp, Quit, Tick, vars

\* A run touches only the disk that has its name, a name that it took from the
\* clock: it makes the disk once and removes it once, also when steps fail,
\* processes are killed or runs share a second (create_qemu_run,
\* stop_and_remove_qemu_run).
THEOREM ImplementsNames == Spec => NamesSpec
<1>1. Init => NamesOf!Init /\ ClockOK
  <2> SUFFICES ASSUME Init PROVE NamesOf!Init /\ ClockOK
    OBVIOUS
  <2>1. PhaseOf = [r \in Runs |-> "before"]
    BY DEF Init, PhaseOf, Phase, Ended
  <2>2. ASSUME NEW r \in Runs PROVE stamp[r] <= second
    <3>1. stamp[r] = 0 /\ second = 1
      BY DEF Init
    <3>2. 0 <= 1
      OBVIOUS
    <3> QED
      BY <3>1, <3>2
  <2> QED
    BY <2>1, <2>2
    DEF Init, PhaseOf, Made, ClockOK, Seconds, NamesOf!Init, NamesOf!Names
<1>2. TypeOK /\ ClockOK /\ [Next]_vars => ClockOK'
  BY ClockStep
<1>3. TypeOK /\ ClockOK /\ [Next]_vars => [NamesOf!Next]_(NamesOf!vars)
  <2> SUFFICES ASSUME TypeOK, ClockOK, [Next]_vars
               PROVE  [NamesOf!Next]_(NamesOf!vars)
    OBVIOUS
  <2>1. CASE UNCHANGED <<PhaseOf, stamp, Made>>
    BY <2>1 DEF PhaseOf, NamesOf!vars
  <2>2. ASSUME NEW r \in Runs, Touches(r) PROVE [NamesOf!Next]_(NamesOf!vars)
    BY <2>1, <2>2 DEF Touches, NamesOf!Next, NamesOf!Names, Seconds
  <2> QED
    BY <2>1, <2>2, NamesStep
<1> QED
  BY <1>1, <1>2, <1>3, TypeCorrect, PTL DEF Spec, NamesSpec, NamesOf!Spec

-----------------------------------------------------------------------------
\* What the names promise (NamedRunsTheorems) holds of the harness.
Names ==
  INSTANCE NamedRunsTheorems WITH
    LastName <- MaxSecond,
    phase <- [r \in Runs |-> Phase(r)], name <- stamp, owner <- Made

LEMMA NamesConstants == Names!Constants
BY NoRunAssumption, BoundsAssumption DEF Names!Constants

LEMMA NamesHold == Spec => Names!Spec
<1>1. NamesOf!Init => Names!Init
  BY DEF NamesOf!Init, Names!Init, NamesOf!Names, Names!Names
<1>2. [NamesOf!Next]_(NamesOf!vars) => [Names!Next]_(Names!vars)
  BY DEF NamesOf!Next, Names!Next, NamesOf!vars, Names!vars, NamesOf!Names,
         Names!Names, NamesOf!Start, Names!Start, NamesOf!Make, Names!Make,
         NamesOf!Remove, Names!Remove, NamesOf!GoOn, Names!GoOn,
         NamesOf!Refuse, Names!Refuse, NamesOf!Enter, Names!Enter,
         NamesOf!Later, Names!Later
<1> QED
  BY <1>1, <1>2, ImplementsNames, PTL
  DEF NamesSpec, NamesOf!Spec, Names!Spec

\* A disk changes only by runs of its own second, which are copying or
\* removing theirs; and one that is alone in its second overwrites none and
\* removes only its own (create_qemu_run, stop_and_remove_qemu_run).
THEOREM NamesakesChange == Spec => Names!OnlyNamesakesChange
BY NamesHold, NamesConstants, Names!NamesakesChange

\* A disk that a run has left behind, be it kept, failed or killed, is left
\* alone by every later run: none takes its name again.
THEOREM LeftoversStay == Spec => Names!LeftoversStay
BY NamesHold, NamesConstants, Names!AbandonedStays
=============================================================================
