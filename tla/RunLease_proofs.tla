--------------------------- MODULE RunLease_proofs ---------------------------
(***************************************************************************)
(* What holds of the run lease for every set of machines, every length and *)
(* every duration: its type; the exclusion of the lease task and the host  *)
(* timer; that no lease outlives what Core told, and none is shortened;    *)
(* that no machine is started past its lease; and that a lease that reached*)
(* the file ends, whoever is alive to end it.                              *)
(***************************************************************************)
EXTENDS RunLease, TLAPS

-----------------------------------------------------------------------------
(* The lease book under one reading.                                        *)

\* A reading leaves the book well formed: every stopped lease is held, every
\* deadline is an instant, and what is written is owed.
LEMMA RenewType ==
  ASSUME NEW v \in Views, NEW a \in 0 .. MaxTime, TypeOK, Renew(v, a)
  PROVE  /\ leases' \subseteq Machines /\ deadline' \in PerMachine
         /\ stopped' \subseteq leases'
         /\ owed' \subseteq Machines /\ owedUntil' \in PerMachine /\ durable' \subseteq owed'
<1> DEFINE fresh == Renewed(v) \ Later(v, a)
           drop  == Released(v) \cup Done(v, a)
<1>1. fresh \subseteq Machines /\ drop \subseteq Machines
  BY DEF Renewed, Released, Done, Views, TypeOK, Alive
<1>2. a + v.length \in Time
  BY DurationsAssumption, StaleAssumption DEF Views, Time
<1>3. 0 \in Time
  BY DurationsAssumption DEF Time
<1>4. deadline' \in PerMachine
  BY <1>2, <1>3 DEF Renew, TypeOK, Alive, PerMachine
<1>5. owedUntil' \in PerMachine
  BY <1>3, <1>4 DEF Renew, TypeOK, Alive, PerMachine
<1>6. leases' \subseteq Machines /\ stopped' \subseteq leases'
  BY <1>1 DEF Renew, TypeOK, Alive
<1>7. owed' \subseteq Machines /\ durable' \subseteq owed'
  BY DEF Renew, TypeOK, Alive, Renewed, Views
<1> QED BY <1>4, <1>5, <1>6, <1>7

\* The state before anything happened is well typed.
LEMMA InitType == Init => TypeOK
  BY DurationsAssumption, StaleAssumption, NoViewAssumption
  DEF Init, TypeOK, Alive, PerMachine, Time, Zero, Want

\* Every action of Core keeps the type.
LEMMA CoreType ==
  ASSUME TypeOK, CoreStep
  PROVE  TypeOK'
<1>1. ASSUME NEW m \in Machines, CoreAbsent(m) PROVE TypeOK'
  BY <1>1, DurationsAssumption DEF CoreAbsent, TypeOK, Alive, PerMachine, Time, Want, book, vms, loop, tasks, file, timer, ghost
<1>2. ASSUME NEW m \in Machines, CoreUnnames(m) PROVE TypeOK'
  BY <1>2 DEF CoreUnnames, TypeOK, Alive, Want, book, vms, loop, tasks, file, timer, ghost
<1>3. ASSUME NEW m \in Machines, CoreLists(m) PROVE TypeOK'
  BY <1>3 DEF CoreLists, TypeOK, Alive, book, vms, loop, tasks, file, timer, ghost
<1>4. CASE CoreAnswers
  BY <1>4, NoViewAssumption DEF CoreAnswers, TypeOK, Alive, Views, core, book, vms, tasks, file, timer, ghost
<1> QED BY <1>1, <1>2, <1>3, <1>4 DEF CoreStep

\* Every step of the reconcile loop keeps the type.
LEMMA LoopType ==
  ASSUME TypeOK, LoopStep
  PROVE  TypeOK'
<1>1. CASE Ask
  BY <1>1 DEF Ask, TypeOK, Alive, core, vms, book, tasks, file, timer, ghost
<1>2. CASE Receive
  <2>1. view \in Views /\ asked \in 0 .. MaxTime
    BY <1>2 DEF Receive, TypeOK, Alive
  <2>2. /\ leases' \subseteq Machines /\ deadline' \in PerMachine /\ stopped' \subseteq leases'
        /\ owed' \subseteq Machines /\ owedUntil' \in PerMachine /\ durable' \subseteq owed'
    BY <1>2, <2>1, RenewType DEF Receive
  <2>3. 0 \in 0 .. MaxTime
    BY DurationsAssumption
  <2> QED BY <1>2, <2>1, <2>2, <2>3 DEF Receive, TypeOK, Alive, Views, core, vms, tasks, file, timer
<1>3. CASE Unreachable
  BY <1>3, DurationsAssumption DEF Unreachable, TypeOK, Alive, core, vms, book, tasks, file, timer, ghost
<1>4. CASE Refused
  BY <1>4, DurationsAssumption DEF Refused, TypeOK, Alive, core, vms, book, tasks, file, timer, ghost
<1>5. CASE PassEnds
  BY <1>5, DurationsAssumption DEF PassEnds, TypeOK, Alive, core, vms, book, tasks, file, timer, ghost
<1>6. ASSUME NEW m \in Machines, MaintainStarts(m) PROVE TypeOK'
  <2>1. granted = {}
    BY <1>6 DEF MaintainStarts, TypeOK, Alive
  <2> QED BY <1>6, <2>1 DEF MaintainStarts, TypeOK, Alive, core, book, tasks, file, timer, ghost
<1>7. ASSUME NEW m \in Machines, ReadAgain(m) PROVE TypeOK'
  BY <1>7 DEF ReadAgain, TypeOK, Alive, core, vms, book, tasks, file, timer, ghost
<1>8. ASSUME NEW m \in Machines, PassStarts(m) PROVE TypeOK'
  BY <1>8 DEF PassStarts, TypeOK, Alive, core, book, tasks, file, timer, ghost
<1>9. ASSUME NEW m \in Machines, Leave(m) PROVE TypeOK'
  BY <1>9 DEF Leave, TypeOK, Alive, core, vms, book, tasks, file, timer, ghost
<1>10. ASSUME NEW m \in Machines, NEW proven \in BOOLEAN, Destroy(m, proven) PROVE TypeOK'
  <2>1. leases' \subseteq Machines /\ deadline' \in PerMachine /\ stopped' \subseteq leases'
    BY <1>10, DurationsAssumption DEF Destroy, Forget, TypeOK, Alive, PerMachine, Time, book
  <2> QED BY <1>10, <2>1 DEF Destroy, TypeOK, Alive, core, tasks, file, timer, ghost
<1> QED BY <1>1, <1>2, <1>3, <1>4, <1>5, <1>6, <1>7, <1>8, <1>9, <1>10 DEF LoopStep

\* Every step of the lease task and of the agent's process keeps the type.
LEMMA TaskType ==
  ASSUME TypeOK, TaskStep
  PROVE  TypeOK'
<1>1. CASE TakeLock
  BY <1>1, DurationsAssumption DEF TakeLock, TypeOK, Alive, Time, core, vms, book, loop, file, timer, ghost
<1>2. CASE CheckBegins
  <2>1. now + WriteEvery \in Time
    BY DurationsAssumption DEF TypeOK, Alive, Time
  <2> QED BY <1>2, <2>1 DEF CheckBegins, Expired, TypeOK, Alive, core, vms, book, loop, file, timer, ghost
<1>3. CASE WriteFile
  BY <1>3 DEF WriteFile, TypeOK, Alive, core, vms, book, loop, timer
<1>4. CASE Crash
  BY <1>4, DurationsAssumption
  DEF Crash, TypeOK, Alive, Zero, PerMachine, Time, core, vms, file, timer, ghost
<1>5. CASE Start
  BY <1>5 DEF Start, TypeOK, Alive, core, vms, loop, file, timer, ghost
<1>6. ASSUME NEW m \in Machines, StopLeased(m) PROVE TypeOK'
  BY <1>6 DEF StopLeased, TypeOK, Alive, core, book, loop, file, timer, ghost
<1>7. ASSUME NEW m \in Machines, MarkStopped(m) PROVE TypeOK'
  BY <1>7 DEF MarkStopped, TypeOK, Alive, core, vms, loop, file, timer, ghost
<1>8. ASSUME NEW m \in Machines, StopFails(m) PROVE TypeOK'
  BY <1>8 DEF StopFails, TypeOK, Alive, core, vms, book, loop, file, timer, ghost
<1> QED BY <1>1, <1>2, <1>3, <1>4, <1>5, <1>6, <1>7, <1>8 DEF TaskStep

\* Every step of the host timer, of a machine and of time keeps the type.
LEMMA TimerType ==
  ASSUME TypeOK, TimerStep \/ HostStep
  PROVE  TypeOK'
<1>0. now + TimerEvery \in Time
  BY DurationsAssumption DEF TypeOK, Alive, Time
<1>1. CASE TimerDefers
  BY <1>1, <1>0 DEF TimerDefers, TypeOK, Alive, core, vms, book, loop, tasks, file, ghost
<1>2. CASE TimerActs
  BY <1>2, <1>0 DEF TimerActs, Overdue, TypeOK, Alive, core, vms, book, loop, tasks, file, ghost
<1>3. CASE TimerEnds
  BY <1>3 DEF TimerEnds, TypeOK, Alive, core, vms, book, loop, tasks, file, timer, ghost
<1>4. ASSUME NEW m \in Machines, TimerStops(m) PROVE TypeOK'
  BY <1>4 DEF TimerStops, TypeOK, Alive, core, book, loop, tasks, file, ghost
<1>5. CASE Tick
  BY <1>5, DurationsAssumption DEF Tick, TypeOK, Alive, core, vms, book, loop, tasks, file, timer, ghost
<1>6. ASSUME NEW m \in Machines, PowerOff(m) PROVE TypeOK'
  BY <1>6 DEF PowerOff, TypeOK, Alive, core, book, loop, tasks, file, timer, ghost
<1> QED BY <1>1, <1>2, <1>3, <1>4, <1>5, <1>6 DEF TimerStep, HostStep

\* The type is inductive: no step of anybody leaves it.
LEMMA NextType == TypeOK /\ [Next]_vars => TypeOK'
<1> SUFFICES ASSUME TypeOK, [Next]_vars PROVE TypeOK'
  OBVIOUS
<1>1. CASE UNCHANGED vars
  BY <1>1 DEF vars, TypeOK, Alive, core, vms, book, loop, tasks, file, timer, ghost
<1>2. CASE Next
  BY <1>2, CoreType, LoopType, TaskType, TimerType DEF Next
<1> QED BY <1>1, <1>2

\* The type invariant of the run lease.
THEOREM TypeCorrect == Spec => []TypeOK
  BY InitType, NextType, PTL DEF Spec

-----------------------------------------------------------------------------
(* The lease task and the host timer exclude each other.                    *)

\* A lease task that checks, or waits for its next check, holds the lock.
LockHeld == LockOpens => (task \in {"idle", "checking"} => lock = "agent")

LEMMA LockStep == TypeOK /\ LockHeld /\ [Next]_vars => LockHeld'
<1> SUFFICES ASSUME TypeOK, LockHeld, [Next]_vars PROVE LockHeld'
  OBVIOUS
<1> USE DEF LockHeld
<1>1. CASE UNCHANGED vars
  BY <1>1 DEF vars, tasks
<1>2. CASE CoreStep
  BY <1>2 DEF CoreStep, CoreAnswers, CoreAbsent, CoreUnnames, CoreLists, tasks
<1>3. CASE LoopStep
  BY <1>3 DEF LoopStep, Ask, Receive, Unreachable, Refused, PassEnds, MaintainStarts,
              ReadAgain, PassStarts, Leave, Destroy, tasks
<1>4. CASE TaskStep
  BY <1>4 DEF TaskStep, TakeLock, CheckBegins, WriteFile, Crash, Start, StopLeased,
              MarkStopped, StopFails
<1>5. CASE TimerStep
  BY <1>5 DEF TimerStep, TimerDefers, TimerActs, TimerEnds, TimerStops, tasks
<1>6. CASE HostStep
  BY <1>6 DEF HostStep, Tick, PowerOff, tasks
<1> QED BY <1>1, <1>2, <1>3, <1>4, <1>5, <1>6 DEF Next

\* "The two never act at once", while the agent can lock: its lease task's
\* checks and the host timer's pass exclude each other.
THEOREM LockExclusion == Spec => [](LockOpens => NeverBoth)
<1>1. Init => LockHeld
  BY DEF Init, LockHeld
<1>2. LockHeld => (LockOpens => NeverBoth)
  BY DEF LockHeld, NeverBoth
<1> QED BY <1>1, <1>2, LockStep, TypeCorrect, PTL DEF Spec

-----------------------------------------------------------------------------
(* No lease outlives what Core told.                                        *)

\* The latest instant a lease may name: T from now while Core wants the machine
\* running, since Core may still vouch for it; T from when Core let it go.
Latest(m) == (IF want[m] = "running" THEN now ELSE supAt[m]) + T

\* The inductive invariant.  A lease and its copy in the file name no later
\* instant; nor will the lease that an answer in flight grants.
Bounded ==
  /\ asked <= now
  /\ \A m \in Machines :
       /\ m \in leases => deadline[m] <= Latest(m)
       /\ m \in fileIds => fileUntil[m] <= Latest(m)
  /\ step = "answered" =>
       \A m \in Machines : view.want[m] = "running" => asked + T <= Latest(m)

LEMMA BoundedInit == Init => Bounded
  BY DEF Init, Bounded

\* What Core does moves no bound back, and its answer vouches for no machine
\* it has let go of.
LEMMA BoundedCore == TypeOK /\ Bounded /\ CoreStep => Bounded'
<1> SUFFICES ASSUME TypeOK, Bounded, CoreStep PROVE Bounded'
  OBVIOUS
<1>0. now \in Nat /\ asked \in Nat /\ T \in Nat /\ \A m \in Machines : supAt[m] \in Nat /\ deadline[m] \in Nat /\ fileUntil[m] \in Nat
  BY DurationsAssumption, StaleAssumption DEF TypeOK, PerMachine, Time
<1>1. CASE CoreAnswers
  BY <1>1, <1>0 DEF CoreAnswers, Bounded, Latest, core, book, file
<1>2. ASSUME NEW c \in Machines, CoreAbsent(c) PROVE Bounded'
  <2>1. /\ asked' = asked /\ now' = now /\ step' = step /\ view' = view
        /\ leases' = leases /\ deadline' = deadline /\ fileIds' = fileIds /\ fileUntil' = fileUntil
    BY <1>2 DEF CoreAbsent, book, file, loop
  <2>2. ASSUME NEW m \in Machines
        PROVE  (IF want'[m] = "running" THEN now' ELSE supAt'[m]) >= (IF want[m] = "running" THEN now ELSE supAt[m])
    BY <1>2, <1>0 DEF CoreAbsent, TypeOK, PerMachine
  <2>3. ASSUME NEW m \in Machines, NEW n \in Nat, n <= Latest(m) PROVE n <= Latest(m)'
    BY <1>0, <2>2, <2>3, <1>2, TypeOK DEF Latest, CoreAbsent, TypeOK, PerMachine
  <2>4. ASSUME NEW m \in Machines
        PROVE  /\ m \in leases => deadline[m] <= Latest(m)'
               /\ m \in fileIds => fileUntil[m] <= Latest(m)'
    <3>1. deadline[m] <= Latest(m) => deadline[m] <= Latest(m)'
      BY <1>0, <2>3
    <3>2. fileUntil[m] <= Latest(m) => fileUntil[m] <= Latest(m)'
      BY <1>0, <2>3
    <3> QED BY <3>1, <3>2 DEF Bounded
  <2>5. ASSUME NEW m \in Machines, step = "answered", view.want[m] = "running"
        PROVE  asked + T <= Latest(m)'
    <3>1. asked + T <= Latest(m) /\ asked + T \in Nat
      BY <1>0, <2>5 DEF Bounded
    <3> QED BY <2>3, <3>1
  <2>6. /\ \A m \in Machines :
             /\ m \in leases' => deadline'[m] <= Latest(m)'
             /\ m \in fileIds' => fileUntil'[m] <= Latest(m)'
        /\ step' = "answered" => \A m \in Machines : view'.want[m] = "running" => asked' + T <= Latest(m)'
    BY <2>1, <2>4, <2>5
  <2>7. asked' <= now'
    BY <2>1 DEF Bounded
  <2> QED BY <2>6, <2>7 DEF Bounded
<1>3. ASSUME NEW c \in Machines, CoreUnnames(c) PROVE Bounded'
  <2>1. \A m \in Machines : Latest(m)' = Latest(m)
    BY <1>3, <1>0 DEF CoreUnnames, Latest, TypeOK
  <2> QED BY <1>3, <2>1 DEF CoreUnnames, Bounded, book, file, loop
<1>4. ASSUME NEW c \in Machines, CoreLists(c) PROVE Bounded'
  BY <1>4 DEF CoreLists, Bounded, Latest, book, file, loop
<1> QED BY <1>1, <1>2, <1>3, <1>4 DEF CoreStep

\* What the reconcile loop does: the one step that takes leases on is the
\* arrival of an answer, whose ask is no later than Core's word.
LEMMA BoundedLoop == TypeOK /\ Bounded /\ LoopStep => Bounded'
<1> SUFFICES ASSUME TypeOK, Bounded, LoopStep PROVE Bounded'
  OBVIOUS
<1>0. /\ now \in Nat /\ asked \in Nat /\ T \in Nat
      /\ \A m \in Machines : supAt[m] \in Nat /\ deadline[m] \in Nat /\ fileUntil[m] \in Nat
  BY DurationsAssumption, StaleAssumption DEF TypeOK, PerMachine, Time
<1>1. CASE Ask
  BY <1>1, <1>0 DEF Ask, Bounded, Latest, core, book, file
<1>2. CASE Receive
  <2>1. view.length \in Nat /\ view.length <= T
    <3>1. view \in Views
      BY <1>2 DEF Receive, TypeOK
    <3>2. view.length \in 1 .. T
      BY <3>1, DurationsAssumption DEF Views
    <3> QED BY <3>2, <1>0
  <2>2. /\ now' = now /\ want' = want /\ supAt' = supAt /\ fileIds' = fileIds /\ fileUntil' = fileUntil
        /\ asked' = 0 /\ step' = "acting"
    BY <1>2 DEF Receive, core, file
  <2>3. ASSUME NEW m \in Machines, m \in leases' PROVE deadline'[m] <= Latest(m)
    <3>1. CASE deadline'[m] = deadline[m] /\ m \in leases
      BY <3>1 DEF Bounded
    <3>2. CASE m \in Renewed(view) /\ deadline'[m] = asked + view.length
      <4>1. asked + T <= Latest(m)
        BY <1>2, <3>2 DEF Receive, Bounded, Renewed
      <4> QED BY <4>1, <2>1, <3>2, <1>0 DEF Latest
    <3> QED BY <1>2, <2>3, <3>1, <3>2 DEF Receive, Renew
  <2>4. \A m \in Machines : Latest(m)' = Latest(m)
    BY <2>2 DEF Latest
  <2>5. \A m \in Machines :
          /\ m \in leases' => deadline'[m] <= Latest(m)'
          /\ m \in fileIds' => fileUntil'[m] <= Latest(m)'
    BY <2>2, <2>3, <2>4 DEF Bounded
  <2>6. asked' <= now' /\ step' # "answered"
    BY <2>2, <1>0
  <2> QED BY <2>5, <2>6 DEF Bounded
<1>3. CASE Unreachable \/ Refused
  BY <1>3, <1>0 DEF Unreachable, Refused, Bounded, Latest, core, book, file
<1>4. CASE PassEnds
  BY <1>4 DEF PassEnds, Bounded, Latest, core, book, file
<1>5. ASSUME NEW c \in Machines, MaintainStarts(c) \/ ReadAgain(c) \/ PassStarts(c) \/ Leave(c)
      PROVE  Bounded'
  BY <1>5 DEF MaintainStarts, ReadAgain, PassStarts, Leave, Bounded, Latest, core, book, file
<1>6. ASSUME NEW c \in Machines, NEW proven \in BOOLEAN, Destroy(c, proven)
      PROVE  Bounded'
  <2>1. \A m \in leases' : m \in leases /\ (m \in Machines => deadline'[m] = deadline[m])
    BY <1>6 DEF Destroy, Forget, TypeOK, PerMachine, book
  <2> QED BY <1>6, <2>1 DEF Destroy, Bounded, Latest, core, file
<1> QED BY <1>1, <1>2, <1>3, <1>4, <1>5, <1>6 DEF LoopStep

\* What the lease task and the agent's process do: a deadline goes to the file
\* and comes back from it, and is never made anew.
LEMMA BoundedTask == TypeOK /\ Bounded /\ TaskStep => Bounded'
<1> SUFFICES ASSUME TypeOK, Bounded, TaskStep PROVE Bounded'
  OBVIOUS
<1>1. CASE TakeLock \/ CheckBegins
  BY <1>1 DEF TakeLock, CheckBegins, Bounded, Latest, core, book, loop, file
<1>2. CASE WriteFile
  BY <1>2 DEF WriteFile, Bounded, Latest, core, book, loop
<1>3. CASE Crash
  BY <1>3 DEF Crash, Bounded, Latest, TypeOK, core, file
<1>4. CASE Start
  BY <1>4 DEF Start, Bounded, Latest, core, loop, file
<1>5. ASSUME NEW c \in Machines, StopLeased(c) \/ MarkStopped(c) \/ StopFails(c)
      PROVE  Bounded'
  BY <1>5 DEF StopLeased, MarkStopped, StopFails, Bounded, Latest, core, book, loop, file
<1> QED BY <1>1, <1>2, <1>3, <1>4, <1>5 DEF TaskStep

\* What the timer and a machine do touches no lease, and time only allows more.
LEMMA BoundedTimer == TypeOK /\ Bounded /\ (TimerStep \/ HostStep) => Bounded'
<1> SUFFICES ASSUME TypeOK, Bounded, TimerStep \/ HostStep PROVE Bounded'
  OBVIOUS
<1>0. /\ now \in Nat /\ asked \in Nat /\ T \in Nat
      /\ \A m \in Machines : supAt[m] \in Nat /\ deadline[m] \in Nat /\ fileUntil[m] \in Nat
  BY DurationsAssumption, StaleAssumption DEF TypeOK, PerMachine, Time
<1>1. CASE TimerStep
  BY <1>1 DEF TimerStep, TimerDefers, TimerActs, TimerEnds, TimerStops, Bounded, Latest, core, book, loop, file
<1>2. CASE Tick
  <2>1. /\ now' = now + 1 /\ asked' = asked /\ step' = step /\ view' = view
        /\ want' = want /\ supAt' = supAt /\ leases' = leases /\ deadline' = deadline
        /\ fileIds' = fileIds /\ fileUntil' = fileUntil
    BY <1>2 DEF Tick, core, book, loop, file
  <2> QED BY <2>1, <1>0 DEF Bounded, Latest
<1>3. ASSUME NEW c \in Machines, PowerOff(c) PROVE Bounded'
  BY <1>3 DEF PowerOff, Bounded, Latest, core, book, loop, file
<1> QED BY <1>1, <1>2, <1>3 DEF HostStep

LEMMA BoundedStep == TypeOK /\ Bounded /\ [Next]_vars => Bounded'
<1>1. TypeOK /\ Bounded /\ UNCHANGED vars => Bounded'
  BY DEF vars, Bounded, Latest, core, book, loop, file
<1> QED BY <1>1, BoundedCore, BoundedLoop, BoundedTask, BoundedTimer DEF Next

\* No lease, in the book or in the file, runs past T from the moment Core let
\* its machine go: what Core's wait of 2T before a copy elsewhere relies on.
THEOREM LeaseBounded == Spec => []NoLeaseOutlivesItsView
<1>1. Bounded => NoLeaseOutlivesItsView
  BY DEF Bounded, NoLeaseOutlivesItsView, Latest
<1> QED BY <1>1, BoundedInit, BoundedStep, TypeCorrect, PTL DEF Spec
-----------------------------------------------------------------------------
(* Every instant and every duration is a number.                            *)

LEMMA Durations ==
  /\ T \in Nat /\ WriteEvery \in Nat /\ WriteEvery >= 1 /\ AnswerTime \in Nat /\ TimerEvery \in Nat
  /\ TimerEvery >= 1 /\ StaleAfter \in Nat /\ PassTime \in Nat /\ CallTime \in Nat
  /\ MaxTime \in Nat /\ MaxCrashes \in Nat
  /\ \A t \in Lengths : t \in Nat /\ t >= 1 /\ t <= T
<1>1. T \in Nat
  BY DurationsAssumption
<1>2. \A t \in Lengths : t \in 1 .. T
  BY DurationsAssumption
<1>3. \A t \in Lengths : t \in Nat /\ t >= 1 /\ t <= T
  BY <1>1, <1>2
<1> QED BY <1>3, DurationsAssumption, StaleAssumption

LEMMA Instants ==
  ASSUME TypeOK
  PROVE  /\ now \in Nat /\ asked \in Nat /\ since \in Nat /\ nextCheck \in Nat /\ nextRun \in Nat
         /\ fileAt \in Int /\ fileAt >= -1 /\ crashes \in Nat
         /\ \A m \in Machines : deadline[m] \in Nat /\ fileUntil[m] \in Nat /\ owedUntil[m] \in Nat
BY Durations DEF TypeOK, PerMachine, Time

-----------------------------------------------------------------------------
(* The two action properties of the book.                                   *)

\* One step moves no held lease back, but for a process that starts.
LEMMA RenewKeeps ==
  ASSUME NEW v \in Views, NEW a \in 0 .. MaxTime, TypeOK, Renew(v, a),
         NEW m \in leases \cap leases'
  PROVE  deadline'[m] >= deadline[m]
<1>1. m \in Machines /\ deadline[m] \in Nat /\ a \in Nat /\ v.length \in Nat
  <2>1. v.length \in Lengths
    BY DEF Views
  <2> QED BY <2>1, Durations, Instants DEF TypeOK
<1>2. m \notin Released(v) \cup Done(v, a) \/ m \in Renewed(v) \ Later(v, a)
  BY DEF Renew
<1>3. m \notin Released(v) \cup Done(v, a)
  BY <1>2 DEF Renewed, Released, Done, Later
<1>4. CASE m \in Renewed(v) \ Later(v, a)
  <2>1. deadline'[m] = a + v.length
    BY <1>1, <1>3, <1>4 DEF Renew
  <2>2. ~(deadline[m] > a + v.length)
    BY <1>4 DEF Later
  <2> QED BY <1>1, <2>1, <2>2
<1>5. CASE m \notin Renewed(v) \ Later(v, a)
  BY <1>1, <1>3, <1>5 DEF Renew
<1> QED BY <1>4, <1>5

LEMMA BackStep ==
  ASSUME TypeOK, Next, Alive, Alive', NEW m \in leases \cap leases'
  PROVE  deadline'[m] >= deadline[m]
<1>0. deadline[m] \in Nat /\ m \in Machines
  BY DurationsAssumption, StaleAssumption DEF TypeOK, PerMachine, Time
<1>1. CASE Receive
  <2>1. view \in Views /\ asked \in 0 .. MaxTime
    BY <1>1 DEF Receive, TypeOK
  <2> QED BY <1>1, <2>1, RenewKeeps DEF Receive
<1>2. ASSUME NEW c \in Machines, NEW proven \in BOOLEAN, Destroy(c, proven)
      PROVE  deadline'[m] >= deadline[m]
  BY <1>0, <1>2 DEF Destroy, Forget, TypeOK, PerMachine, book
<1>3. CASE Crash \/ Start
  BY <1>3 DEF Crash, Start, Alive
<1>4. CASE UNCHANGED deadline
  BY <1>0, <1>4
<1> QED
  BY <1>1, <1>2, <1>3, <1>4
  DEF Next, CoreStep, LoopStep, TaskStep, TimerStep, HostStep, CoreAnswers, CoreAbsent, CoreUnnames,
      CoreLists, Ask, Unreachable, Refused, PassEnds, MaintainStarts, ReadAgain, PassStarts, Leave,
      TakeLock, CheckBegins, WriteFile, StopLeased, MarkStopped, StopFails, TimerDefers, TimerActs,
      TimerEnds, TimerStops, Tick, PowerOff, book

\* However readings cross, whatever their lengths: while the agent lives, no
\* lease it holds is shortened.
THEOREM LeaseNeverShortened == Spec => NeverMovedBack
<1>1. TypeOK /\ [Next]_vars
      => [\A m \in leases \cap leases' : Alive /\ Alive' => deadline'[m] >= deadline[m]]_vars
  BY BackStep
<1> QED BY <1>1, TypeCorrect, PTL DEF Spec, NeverMovedBack

-----------------------------------------------------------------------------
(* Calls that are prompt.                                                   *)

\* The constants of an agent that keeps its times: it can lock, calls take no
\* time, and a pass ends before the lease it brought.
Timely ==
  /\ LockOpens /\ CallTime = 0
  /\ AnswerTime <= PassTime /\ \A t \in Lengths : PassTime < t

\* And no view is applied while a check waits, Core lists no machine again, and
\* no stop is refused.
Prompt == Timely /\ ~AnswersDuringCheck /\ ~Relists /\ ~StopsMayFail

\* Nobody is late: each party's next moment is still to come, and what calls
\* the hypervisor does it in the instant it began.
Clocks ==
  /\ asked <= now /\ fileAt <= now
  /\ step \in {"asked", "answered"} => now <= asked + AnswerTime
  /\ step = "acting" => now <= since + PassTime
  /\ step = "maintaining" => now = since
  /\ task = "idle" => now <= nextCheck /\ nextCheck <= now + WriteEvery
  /\ task = "checking" => nextCheck = now + WriteEvery
  /\ lock = "timer" => nextRun = now + TimerEvery
  /\ lock # "timer" => now <= nextRun
  /\ nextRun <= now + TimerEvery
  /\ lock = "agent" <=> task \in {"idle", "checking"}
  /\ task = "down" => crashes >= 1 /\ step = "idle"
  /\ fileAt = -1 => fileIds = {}

LEMMA ClocksInit == Init => Clocks
  BY Durations DEF Init, Clocks

LEMMA ClocksStep == Timely /\ TypeOK /\ Clocks /\ [Next]_vars => Clocks'
<1> SUFFICES ASSUME Timely, TypeOK, Clocks, [Next]_vars PROVE Clocks'
  OBVIOUS
<1> USE Durations, Instants
<1>1. CASE UNCHANGED vars
  BY <1>1 DEF vars, Clocks, loop, tasks, file, timer
<1>2. CASE CoreStep
  BY <1>2 DEF Clocks, CoreStep, CoreAnswers, CoreAbsent, CoreUnnames, CoreLists, loop, tasks, file, timer
<1>3. CASE LoopStep
  <2>1. CASE Ask \/ Receive
    BY <2>1 DEF Timely, Clocks, Ask, Receive, Alive, tasks, file, timer
  <2>4. CASE Unreachable \/ Refused \/ PassEnds
    BY <2>4 DEF Timely, Clocks, Unreachable, Refused, PassEnds, Alive, tasks, file, timer
  <2>2. ASSUME NEW m \in Machines, MaintainStarts(m) \/ ReadAgain(m) \/ PassStarts(m) \/ Leave(m) PROVE Clocks'
    BY <2>2 DEF Clocks, MaintainStarts, ReadAgain, PassStarts, Leave, tasks, file, timer
  <2>3. ASSUME NEW m \in Machines, NEW proven \in BOOLEAN, Destroy(m, proven) PROVE Clocks'
    BY <2>3 DEF Clocks, Destroy, tasks, file, timer
  <2> QED BY <1>3, <2>1, <2>2, <2>3, <2>4 DEF LoopStep
<1>4. CASE TaskStep
  <2>1. CASE TakeLock
    BY <2>1 DEF Timely, Clocks, TakeLock, loop, file, timer
  <2>2. CASE CheckBegins
    BY <2>2 DEF Clocks, CheckBegins, loop, file, timer
  <2>3. CASE WriteFile
    BY <2>3 DEF Clocks, WriteFile, loop, timer
  <2>4. CASE Crash \/ Start
    BY <2>4 DEF Clocks, Crash, Start, Alive, loop, file, timer
  <2>5. ASSUME NEW m \in Machines, StopLeased(m) \/ MarkStopped(m) \/ StopFails(m) PROVE Clocks'
    BY <2>5 DEF Clocks, StopLeased, MarkStopped, StopFails, loop, file, timer
  <2> QED BY <1>4, <2>1, <2>2, <2>3, <2>4, <2>5 DEF TaskStep
<1>5. CASE TimerStep
  BY <1>5 DEF Clocks, TimerStep, TimerDefers, TimerActs, TimerEnds, TimerStops, loop, tasks, file, timer
<1>6. CASE HostStep
  <2>1. CASE Tick
    BY <2>1 DEF Timely, Clocks, Tick, NothingLate, TypeOK, loop, tasks, file, timer
  <2>2. ASSUME NEW m \in Machines, PowerOff(m) PROVE Clocks'
    BY <2>2 DEF Clocks, PowerOff, loop, tasks, file, timer
  <2> QED BY <1>6, <2>1, <2>2 DEF HostStep
<1> QED BY <1>1, <1>2, <1>3, <1>4, <1>5, <1>6 DEF Next

\* What a pass, or maintenance, may still start has a lease to run in, or none.
Startable ==
  /\ step = "acting" =>
       \A m \in todo : (m \in leases => deadline[m] > since + PassTime) /\ (m \in owed => m \in leases)
  /\ step = "maintaining" => \A m \in todo : m \in leases => deadline[m] > since
  /\ granted \cap gone = {}

LEMMA StartableInit == Init => Startable
  BY DEF Init, Startable

\* A machine the pass's view wants running is leased past the pass's end, or free.
LEMMA RenewStartable ==
  ASSUME NEW v \in Views, NEW a \in 0 .. MaxTime, Timely, TypeOK, Renew(v, a),
         NEW m \in Machines, v.want[m] = "running"
  PROVE  /\ m \in leases' => deadline'[m] > a + PassTime
         /\ m \in owed' => m \in leases'
<1>1. deadline[m] \in Nat /\ a \in Nat /\ v.length \in Nat /\ PassTime < v.length /\ PassTime \in Nat
  <2>1. v.length \in Lengths
    BY DEF Views
  <2> QED BY <2>1, Durations, Instants DEF Timely
<1>2. CASE m \in v.listed
  <2>1. m \in Renewed(v) /\ m \notin Released(v) /\ m \notin Done(v, a)
    BY <1>2 DEF Renewed, Released, Done
  <2>2. CASE m \in Later(v, a)
    <3>1. m \in leases /\ deadline[m] > a + v.length
      BY <2>2 DEF Later
    <3>2. deadline'[m] = deadline[m] /\ m \in leases'
      BY <2>1, <2>2, <3>1 DEF Renew
    <3> QED BY <1>1, <3>1, <3>2
  <2>3. CASE m \notin Later(v, a)
    <3>1. deadline'[m] = a + v.length /\ m \in leases'
      BY <2>1, <2>3 DEF Renew
    <3> QED BY <1>1, <3>1
  <2> QED BY <2>2, <2>3
<1>3. CASE m \notin v.listed
  BY <1>3 DEF Renew, Renewed, Released
<1> QED BY <1>2, <1>3

LEMMA StartableStep == Timely /\ TypeOK /\ Clocks /\ Startable /\ [Next]_vars => Startable'
<1> SUFFICES ASSUME Timely, TypeOK, Clocks, Startable, [Next]_vars PROVE Startable'
  OBVIOUS
<1>1. CASE UNCHANGED vars
  BY <1>1 DEF vars, Startable, loop, book, ghost, vms
<1>2. CASE CoreStep
  BY <1>2 DEF Startable, CoreStep, CoreAnswers, CoreAbsent, CoreUnnames, CoreLists, loop, book, ghost, vms
<1>3. CASE LoopStep
  <2>1. CASE Receive
    <3>1. view \in Views /\ asked \in 0 .. MaxTime /\ step' = "acting" /\ since' = asked
      BY <2>1 DEF Receive, TypeOK
    <3>2. \A m \in todo' : m \in Machines /\ view.want[m] = "running"
      BY <2>1 DEF Receive
    <3>3. ASSUME NEW m \in todo'
          PROVE  (m \in leases' => deadline'[m] > since' + PassTime) /\ (m \in owed' => m \in leases')
      BY <2>1, <3>1, <3>2, RenewStartable DEF Receive
    <3>4. granted' = granted /\ gone' = gone
      BY <2>1 DEF Receive, vms
    <3> QED BY <3>1, <3>3, <3>4 DEF Startable
  <2>2. CASE Unreachable
    BY <2>2 DEF Startable, Unreachable, MayRestart, book, vms, ghost
  <2>3. CASE Ask \/ Refused \/ PassEnds
    BY <2>3 DEF Startable, Ask, Refused, PassEnds, book, vms, ghost
  <2>4. ASSUME NEW m \in Machines, MaintainStarts(m) \/ ReadAgain(m) \/ PassStarts(m) \/ Leave(m) PROVE Startable'
    BY <2>4 DEF Startable, MaintainStarts, ReadAgain, PassStarts, Leave, book, vms, ghost
  <2>5. ASSUME NEW m \in Machines, NEW proven \in BOOLEAN, Destroy(m, proven) PROVE Startable'
    <3>1. m \notin todo /\ granted \subseteq todo /\ todo \subseteq Machines
      BY <2>5 DEF Destroy, TypeOK
    <3>2. \A n \in todo : (n \in leases' <=> n \in leases) /\ deadline'[n] = deadline[n]
      BY <2>5, <3>1 DEF Destroy, Forget, TypeOK, PerMachine, book
    <3> QED BY <2>5, <3>1, <3>2 DEF Startable, Destroy, ghost
  <2> QED BY <1>3, <2>1, <2>2, <2>3, <2>4, <2>5 DEF LoopStep
<1>4. CASE TaskStep
  <2>1. CASE Start
    BY <2>1 DEF Start, Startable, Clocks, loop, vms, ghost
  <2>2. CASE Crash
    BY <2>2 DEF Crash, Startable
  <2>3. CASE TakeLock \/ CheckBegins \/ WriteFile
    BY <2>3 DEF Startable, TakeLock, CheckBegins, WriteFile, loop, book, vms, ghost
  <2>4. ASSUME NEW m \in Machines, StopLeased(m) \/ MarkStopped(m) \/ StopFails(m) PROVE Startable'
    BY <2>4 DEF Startable, StopLeased, MarkStopped, StopFails, loop, book, vms, ghost
  <2> QED BY <1>4, <2>1, <2>2, <2>3, <2>4 DEF TaskStep
<1>5. CASE TimerStep \/ HostStep
  BY <1>5 DEF Startable, TimerStep, TimerDefers, TimerActs, TimerEnds, TimerStops, HostStep, Tick,
              PowerOff, loop, book, vms, ghost
<1> QED BY <1>1, <1>2, <1>3, <1>4, <1>5 DEF Next

\* Whoever starts a machine, does so inside its lease.
LEMMA StartsInLease ==
  ASSUME Timely, TypeOK, Clocks, Startable, Next, NEW m \in up' \ up, m \in leases
  PROVE  now < deadline[m]
<1> USE Durations, Instants
<1>1. CASE \E c \in Machines : MaintainStarts(c)
  BY <1>1 DEF MaintainStarts, Startable, Clocks, TypeOK
<1>2. CASE \E c \in Machines : PassStarts(c)
  <2>1. m \in granted /\ step = "acting" /\ m \in Machines
    BY <1>2 DEF PassStarts
  <2>2. m \in todo
    BY <2>1 DEF TypeOK
  <2> QED BY <2>1, <2>2 DEF Startable, Clocks
<1>3. CASE up' \subseteq up
  BY <1>3
<1> QED
  BY <1>1, <1>2, <1>3
  DEF Next, CoreStep, LoopStep, TaskStep, TimerStep, HostStep, CoreAnswers, CoreAbsent, CoreUnnames,
      CoreLists, Ask, Receive, Unreachable, Refused, PassEnds, ReadAgain, Leave, Destroy,
      TakeLock, CheckBegins, WriteFile, StopLeased, MarkStopped, StopFails, TimerDefers, TimerActs,
      TimerEnds, TimerStops, Tick, PowerOff, Crash, Start, vms

\* Neither maintenance nor a pass starts a machine whose lease ran out.
THEOREM StartedInsideItsLease == Timely => (Spec => NeverStartedPastItsLease)
<1>1. Timely /\ TypeOK /\ Clocks /\ Startable /\ [Next]_vars
      => [\A m \in up' \ up : m \in leases => now < deadline[m]]_vars
  BY StartsInLease
<1>2. Timely => Timely'
  BY DEF Timely
<1> QED BY <1>1, <1>2, ClocksInit, ClocksStep, StartableInit, StartableStep, TypeCorrect, PTL
        DEF Spec, NeverStartedPastItsLease

-----------------------------------------------------------------------------
(* A lease that reached the file.                                           *)

\* Core goes one way: an answer on its way lists all that is listed, and
\* wants nothing any more only if Core does not.
Heard ==
  step = "answered" =>
    /\ listed \subseteq view.listed
    /\ \A m \in Machines : view.want[m] = "none" => want[m] = "none"

LEMMA HeardStep == Prompt /\ TypeOK /\ Heard /\ [Next]_vars => Heard'
<1> SUFFICES ASSUME Prompt, TypeOK, Heard, [Next]_vars PROVE Heard'
  OBVIOUS
<1>1. CASE UNCHANGED vars
  BY <1>1 DEF vars, Heard, loop, core
<1>2. CASE CoreAnswers
  BY <1>2 DEF CoreAnswers, Heard, core
<1>3. ASSUME NEW m \in Machines, CoreAbsent(m) \/ CoreUnnames(m) \/ CoreLists(m) PROVE Heard'
  BY <1>3 DEF Prompt, Timely, TypeOK, Heard, CoreAbsent, CoreUnnames, CoreLists, loop
<1>4. CASE LoopStep
  BY <1>4 DEF LoopStep, Heard, Ask, Receive, Unreachable, Refused, PassEnds, MaintainStarts, ReadAgain,
              PassStarts, Leave, Destroy, core
<1>5. CASE TaskStep
  BY <1>5 DEF TaskStep, Heard, TakeLock, CheckBegins, WriteFile, Crash, Start, StopLeased, MarkStopped,
              StopFails, core, loop
<1>6. CASE TimerStep \/ HostStep
  BY <1>6 DEF Heard, TimerStep, TimerDefers, TimerActs, TimerEnds, TimerStops, HostStep, Tick,
              PowerOff, loop, core
<1> QED BY <1>1, <1>2, <1>3, <1>4, <1>5, <1>6 DEF Next, CoreStep

\* No view that comes will renew the machine's lease again.
Ended(m) ==
  /\ m \in listed => want[m] # "running"
  /\ step = "answered" /\ m \in view.listed => view.want[m] # "running"

\* The file holds what the book holds, no later than it; but for leases that
\* have ended.  Neither names a later instant than the lease that is owed.
FileFollows ==
  /\ \A m \in fileIds : Ended(m) \/ (Alive => m \in leases /\ fileUntil[m] <= deadline[m])
  /\ \A m \in owed \cap leases : deadline[m] <= owedUntil[m]
  /\ \A m \in owed \cap fileIds : fileUntil[m] <= owedUntil[m]

LEMMA FollowsInit == Init => FileFollows
  BY DEF Init, FileFollows

\* An ended lease stays ended.
LEMMA EndedStep ==
  ASSUME Prompt, TypeOK, Heard, Next, NEW m \in Machines, Ended(m)
  PROVE  Ended(m)'
<1>1. CASE CoreAnswers
  BY <1>1 DEF CoreAnswers, Ended, core
<1>2. ASSUME NEW c \in Machines, CoreAbsent(c) \/ CoreUnnames(c) \/ CoreLists(c) PROVE Ended(m)'
  BY <1>2 DEF Prompt, Timely, TypeOK, Ended, CoreAbsent, CoreUnnames, CoreLists, loop
<1>3. CASE LoopStep
  BY <1>3 DEF LoopStep, Ended, Ask, Receive, Unreachable, Refused, PassEnds, MaintainStarts, ReadAgain,
              PassStarts, Leave, Destroy, core
<1>4. CASE TaskStep
  BY <1>4 DEF TaskStep, Ended, TakeLock, CheckBegins, WriteFile, Crash, Start, StopLeased, MarkStopped,
              StopFails, core, loop
<1>5. CASE TimerStep \/ HostStep
  BY <1>5 DEF Ended, TimerStep, TimerDefers, TimerActs, TimerEnds, TimerStops, HostStep, Tick,
              PowerOff, loop, core
<1> QED BY <1>1, <1>2, <1>3, <1>4, <1>5 DEF Next, CoreStep

\* The same, of the arrival of a view, which renews no ended lease and ends
\* those it drops.
LEMMA ReceiveFollows ==
  ASSUME Prompt, TypeOK, Heard, FileFollows, Receive
  PROVE  FileFollows'
<1> USE Durations, Instants
<1>1. /\ view \in Views /\ asked \in 0 .. MaxTime /\ Renew(view, asked) /\ Alive /\ Alive'
      /\ step = "answered" /\ step' # "answered"
      /\ fileIds' = fileIds /\ fileUntil' = fileUntil /\ want' = want /\ listed' = listed
  BY DEF Receive, TypeOK, core, file, tasks, Alive
<1>2. view.length \in Nat
  <2>1. view.length \in Lengths
    BY <1>1 DEF Views
  <2> QED BY <2>1
<1>3. ASSUME NEW m \in fileIds PROVE Ended(m)' \/ (m \in leases' /\ fileUntil[m] <= deadline'[m])
  <2>0. m \in Machines
    BY DEF TypeOK
  <2>1. CASE Ended(m)
    BY <1>1, <2>0, <2>1, EndedStep DEF Next, LoopStep
  <2>2. CASE m \in leases /\ m \in leases' /\ fileUntil[m] <= deadline[m]
    <3>1. deadline'[m] >= deadline[m]
      BY <1>1, <2>2, RenewKeeps
    <3>2. deadline'[m] \in Nat
      BY <1>1, <2>0, RenewType DEF PerMachine, Time
    <3> QED BY <2>0, <2>2, <3>1, <3>2
  <2>3. CASE m \in leases /\ m \notin leases'
    <3>1. m \in Released(view) \cup Done(view, asked)
      BY <1>1, <2>3 DEF Renew
    <3>2. CASE m \in Released(view)
      BY <1>1, <3>2 DEF Released, Ended, Heard
    <3>3. CASE m \in Done(view, asked)
      BY <1>1, <2>0, <3>3 DEF Done, Ended, Heard
    <3> QED BY <3>1, <3>2, <3>3
  <2> QED BY <1>1, <2>1, <2>2, <2>3 DEF FileFollows
<1>4. ASSUME NEW m \in owed' \cap leases' PROVE deadline'[m] <= owedUntil'[m]
  <2>0. m \in Machines
    BY <1>1, RenewType
  <2>1. CASE m \in Renewed(view)
    <3>1. owedUntil'[m] = deadline'[m] /\ deadline'[m] \in Nat
      BY <1>1, <2>0, <2>1, RenewType DEF Renew, Renewed, Released, PerMachine, Time
    <3> QED BY <3>1
  <2>2. CASE m \notin Renewed(view)
    BY <1>1, <2>0, <2>2 DEF Renew, FileFollows
  <2> QED BY <2>1, <2>2
<1>5. ASSUME NEW m \in owed' \cap fileIds PROVE fileUntil[m] <= owedUntil'[m]
  <2>0. m \in Machines
    BY DEF TypeOK
  <2>1. CASE m \in Renewed(view)
    <3>1. owedUntil'[m] = deadline'[m]
      BY <1>1, <2>0, <2>1 DEF Renew, Renewed, Released
    <3>2. ~Ended(m)
      BY <1>1, <2>1 DEF Ended, Renewed
    <3>3. m \in leases /\ fileUntil[m] <= deadline[m]
      BY <1>1, <3>2 DEF FileFollows
    <3>4. m \in leases'
      BY <1>1, <2>1, <3>3 DEF Renew, Renewed, Released, Done
    <3>5. deadline'[m] >= deadline[m]
      BY <1>1, <3>3, <3>4, RenewKeeps
    <3>6. deadline'[m] \in Nat
      BY <1>1, <2>0, RenewType DEF PerMachine, Time
    <3> QED BY <2>0, <3>1, <3>3, <3>5, <3>6
  <2>2. CASE m \notin Renewed(view)
    BY <1>1, <2>0, <2>2 DEF Renew, FileFollows
  <2> QED BY <2>1, <2>2
<1> QED BY <1>1, <1>3, <1>4, <1>5 DEF FileFollows

LEMMA FollowsStep == Prompt /\ TypeOK /\ Heard /\ Clocks /\ FileFollows /\ [Next]_vars => FileFollows'
<1> SUFFICES ASSUME Prompt, TypeOK, Heard, Clocks, FileFollows, [Next]_vars PROVE FileFollows'
  OBVIOUS
<1> USE Durations, Instants
<1>1. CASE UNCHANGED vars
  BY <1>1 DEF vars, FileFollows, Ended, Alive, core, loop, book, tasks, file, ghost
<1>2. CASE Receive
  BY <1>2, ReceiveFollows
<1>3. ASSUME NEW c \in Machines, NEW proven \in BOOLEAN, Destroy(c, proven) PROVE FileFollows'
  <2>1. \A m \in Machines : Ended(m) => Ended(m)'
    BY <1>3, EndedStep DEF Next, LoopStep
  <2>2. Ended(c)'
    BY <1>3 DEF Destroy, Ended, core
  <2>3. \A m \in Machines : m # c => (m \in leases' <=> m \in leases) /\ deadline'[m] = deadline[m]
    BY <1>3 DEF Destroy, Forget, TypeOK, PerMachine, book
  <2>4. leases' \subseteq leases /\ \A m \in leases' : deadline'[m] = deadline[m]
    BY <1>3, <2>3 DEF Destroy, Forget, TypeOK, book
  <2>5. fileIds \subseteq Machines /\ leases \subseteq Machines
    BY DEF TypeOK
  <2>6. task' = task /\ fileIds' = fileIds /\ fileUntil' = fileUntil /\ owed' = owed /\ owedUntil' = owedUntil
    BY <1>3 DEF Destroy, tasks, file, ghost
  <2>7. \A m \in fileIds : Ended(m)' \/ (Alive' => m \in leases' /\ fileUntil[m] <= deadline'[m])
    BY <2>1, <2>2, <2>3, <2>5, <2>6 DEF FileFollows, Alive
  <2> QED BY <2>4, <2>6, <2>7 DEF FileFollows
<1>4. CASE WriteFile
  BY <1>4 DEF WriteFile, FileFollows, TypeOK, Alive, book, ghost
<1>5. CASE Crash
  BY <1>5, EndedStep DEF Crash, FileFollows, TypeOK, Alive, core, file, ghost
<1>6. CASE Start
  BY <1>6 DEF Start, FileFollows, TypeOK, file, ghost
<1>7. CASE UNCHANGED <<leases, deadline, file, owed, owedUntil>> /\ Next /\ (Alive' <=> Alive)
  <2>1. \A m \in fileIds : Ended(m) => Ended(m)'
    BY <1>7, EndedStep DEF TypeOK
  <2> QED BY <1>7, <2>1 DEF FileFollows, file
<1> QED
  BY <1>1, <1>2, <1>3, <1>4, <1>5, <1>6, <1>7
  DEF Next, CoreStep, LoopStep, TaskStep, TimerStep, HostStep, CoreAnswers, CoreAbsent, CoreUnnames,
      CoreLists, Ask, Unreachable, Refused, PassEnds, MaintainStarts, ReadAgain, PassStarts, Leave,
      TakeLock, CheckBegins, StopLeased, MarkStopped, StopFails, TimerDefers, TimerActs,
      TimerEnds, TimerStops, Tick, PowerOff, book, ghost, tasks, Alive

\* The machine is down and nothing will start it: destroyed, or wanted by
\* nobody, neither by Core nor by any view in the agent's hand.
Over(m) ==
  /\ m \notin up
  /\ \/ m \in gone
     \/ /\ want[m] = "none" /\ m \notin todo
        /\ held = NoView \/ held[m] = "none"
        /\ step = "answered" => view.want[m] = "none"

\* A written lease is in the file, and in the book of an agent that lives,
\* until its machine is over.
DurableKept == \A m \in durable : Over(m) \/ (m \in fileIds /\ (Alive => m \in leases))

LEMMA OverStep ==
  ASSUME Prompt, TypeOK, Startable, Next, NEW m \in Machines, Over(m)
  PROVE  Over(m)'
<1>1. CASE CoreStep
  BY <1>1 DEF CoreStep, CoreAnswers, CoreAbsent, CoreUnnames, CoreLists, Over, TypeOK, vms, core, loop
<1>2. CASE LoopStep
  <2>1. CASE Ask \/ Unreachable \/ Refused \/ PassEnds
    BY <2>1, NoViewAssumption DEF Ask, Unreachable, Refused, PassEnds, Over, TypeOK, vms, core
  <2>2. CASE Receive
    BY <2>2 DEF Receive, Over, vms, core
  <2>3. ASSUME NEW c \in Machines, MaintainStarts(c) PROVE Over(m)'
    BY <2>3 DEF MaintainStarts, Over, core
  <2>4. ASSUME NEW c \in Machines, PassStarts(c) PROVE Over(m)'
    BY <2>4 DEF PassStarts, Over, Startable, TypeOK, core
  <2>5. ASSUME NEW c \in Machines, ReadAgain(c) \/ Leave(c) PROVE Over(m)'
    BY <2>5 DEF ReadAgain, Leave, Over, vms, core
  <2>6. ASSUME NEW c \in Machines, NEW proven \in BOOLEAN, Destroy(c, proven) PROVE Over(m)'
    BY <2>6 DEF Destroy, Over, core
  <2> QED BY <1>2, <2>1, <2>2, <2>3, <2>4, <2>5, <2>6 DEF LoopStep
<1>3. CASE TaskStep
  BY <1>3 DEF TaskStep, Over, TakeLock, CheckBegins, WriteFile, Crash, Start, StopLeased, MarkStopped,
              StopFails, core, loop, vms
<1>4. CASE TimerStep \/ HostStep
  BY <1>4 DEF Over, TimerStep, TimerDefers, TimerActs, TimerEnds, TimerStops, HostStep, Tick,
              PowerOff, loop, core, vms
<1> QED BY <1>1, <1>2, <1>3, <1>4 DEF Next

\* A stopped mark is a machine that is down, past its deadline; and a check has
\* in its queue whatever lease has run out.
Stops ==
  /\ \A m \in stopped : deadline[m] <= now /\ m \notin up
  /\ task = "checking" => \A m \in leases \ stopped : deadline[m] <= now => m \in queue
  /\ \A m \in queue \cap leases : deadline[m] <= now
  /\ stopping \cap leases \cap up = {}

LEMMA StopsInit == Init => Stops
  BY DEF Init, Stops

LEMMA StopsStep == Prompt /\ TypeOK /\ Clocks /\ Startable /\ Stops /\ [Next]_vars => Stops'
<1> SUFFICES ASSUME Prompt, TypeOK, Clocks, Startable, Stops, [Next]_vars PROVE Stops'
  OBVIOUS
<1> USE Durations, Instants
<1>1. CASE UNCHANGED vars
  BY <1>1 DEF vars, Stops, vms, book, tasks
<1>2. CASE CoreStep
  BY <1>2 DEF CoreStep, CoreAnswers, CoreAbsent, CoreUnnames, CoreLists, Stops, vms, book, tasks
<1>3. CASE Receive
  <2>1. task # "checking" /\ queue = {} /\ stopping = {}
    BY <1>3 DEF Receive, Prompt, Timely, TypeOK
  <2>2. /\ task' = task /\ queue' = queue /\ stopping' = stopping /\ up' = up /\ now' = now
        /\ Renew(view, asked)
    BY <1>3 DEF Receive, tasks, vms
  <2>3. \A m \in stopped' : m \in stopped /\ deadline'[m] = deadline[m]
    BY <2>2 DEF Renew, TypeOK
  <2> QED BY <2>1, <2>2, <2>3 DEF Stops
<1>4. ASSUME NEW c \in Machines, MaintainStarts(c) \/ PassStarts(c) PROVE Stops'
  <2>1. up' = up \cup {c} /\ now' = now
    BY <1>4 DEF MaintainStarts, PassStarts
  <2>2. leases' = leases /\ deadline' = deadline /\ stopped' = stopped /\ task' = task /\ queue' = queue /\ stopping' = stopping
    BY <1>4 DEF MaintainStarts, PassStarts, book, tasks
  <2>3. c \notin up => (c \in leases => now < deadline[c])
    BY <1>4, <2>1, StartsInLease DEF Next, LoopStep, Prompt
  <2>4. c \notin up /\ c \in stopped => FALSE
    BY <2>3 DEF Stops, TypeOK
  <2>5. c \notin up /\ c \in stopping \cap leases => FALSE
    BY <2>3 DEF Stops, TypeOK
  <2> QED BY <2>1, <2>2, <2>4, <2>5 DEF Stops
<1>5. ASSUME NEW c \in Machines, NEW proven \in BOOLEAN, Destroy(c, proven) PROVE Stops'
  <2>1. /\ leases' \subseteq leases /\ stopped' \subseteq stopped /\ up' \subseteq up /\ now' = now
        /\ task' = task /\ queue' = queue /\ stopping' = stopping
    BY <1>5 DEF Destroy, Forget, book, tasks
  <2>2. \A m \in leases' : deadline'[m] = deadline[m] /\ (m \in stopped' <=> m \in stopped)
    BY <1>5 DEF Destroy, Forget, TypeOK, PerMachine, book
  <2>3. stopped' \subseteq leases'
    BY <1>5, <2>1 DEF Destroy, Forget, TypeOK, book
  <2> QED BY <2>1, <2>2, <2>3 DEF Stops
<1>6. CASE Ask \/ Unreachable \/ Refused \/ PassEnds \/ \E m \in Machines : ReadAgain(m) \/ Leave(m)
  BY <1>6 DEF Ask, Unreachable, Refused, PassEnds, ReadAgain, Leave, Stops, vms, book, tasks
<1>7. CASE TaskStep
  <2>1. CASE TakeLock \/ WriteFile
    BY <2>1 DEF TakeLock, WriteFile, Stops, vms, book
  <2>2. CASE CheckBegins
    BY <2>2 DEF CheckBegins, Expired, Stops, TypeOK, vms, book
  <2>3. CASE Crash
    BY <2>3 DEF Crash, Stops
  <2>4. CASE Start
    BY <2>4 DEF Start, Stops, TypeOK, Alive, vms
  <2>5. ASSUME NEW c \in Machines, StopLeased(c) PROVE Stops'
    BY <2>5 DEF StopLeased, Stops, book
  <2>6. ASSUME NEW c \in Machines, MarkStopped(c) PROVE Stops'
    BY <2>6 DEF MarkStopped, Stops, TypeOK, vms
  <2>7. ASSUME NEW c \in Machines, StopFails(c) PROVE Stops'
    BY <2>7 DEF StopFails, Prompt, Timely
  <2> QED BY <1>7, <2>1, <2>2, <2>3, <2>4, <2>5, <2>6, <2>7 DEF TaskStep
<1>8. CASE TimerStep
  BY <1>8 DEF TimerStep, TimerDefers, TimerActs, TimerEnds, TimerStops, Stops, vms, book, tasks
<1>9. CASE Tick
  <2>1. task # "checking"
    BY <1>9 DEF Tick, NothingLate, Clocks, Prompt, Timely
  <2>2. \A m \in leases : deadline[m] \in Nat
    BY DEF TypeOK
  <2> QED BY <1>9, <2>1, <2>2 DEF Tick, Stops, TypeOK, vms, book, tasks
<1>10. CASE \E m \in Machines : PowerOff(m)
  BY <1>10 DEF PowerOff, Stops, book, tasks
<1> QED BY <1>1, <1>2, <1>3, <1>4, <1>5, <1>6, <1>7, <1>8, <1>9, <1>10 DEF Next, LoopStep, HostStep

LEMMA DurableStep ==
  Prompt /\ TypeOK /\ Heard /\ Startable /\ Stops /\ DurableKept /\ [Next]_vars => DurableKept'
<1> SUFFICES ASSUME Prompt, TypeOK, Heard, Startable, Stops, DurableKept, [Next]_vars PROVE DurableKept'
  OBVIOUS
<1>1. CASE UNCHANGED vars
  BY <1>1 DEF vars, DurableKept, Over, Alive, core, loop, book, tasks, file, ghost, vms
<1>2. ASSUME Next PROVE \A m \in durable : Over(m) => Over(m)'
  BY <1>2, OverStep DEF TypeOK
<1>3. CASE Receive
  <2>1. /\ view \in Views /\ Renew(view, asked) /\ fileIds' = fileIds /\ up' = up /\ step' = "acting"
        /\ want' = want /\ held' = view.want /\ todo' = {m \in Machines : view.want[m] = "running"}
        /\ step = "answered"
    BY <1>3 DEF Receive, TypeOK, file, vms, core
  <2>2. ASSUME NEW m \in durable', m \in fileIds, m \in leases, m \notin leases' PROVE Over(m)'
    <3>1. m \in durable /\ m \notin Released(view) /\ m \in Machines
      BY <2>1, <2>2 DEF Renew, TypeOK
    <3>2. m \in Done(view, asked)
      BY <2>1, <2>2, <3>1 DEF Renew
    <3>3. m \notin up /\ view.want[m] = "none" /\ want[m] = "none"
      BY <2>1, <3>1, <3>2 DEF Done, Stops, Heard
    <3> QED BY <2>1, <3>1, <3>3 DEF Over
  <2>3. durable' \subseteq durable /\ Alive
    BY <1>3, <2>1 DEF Renew, Receive
  <2> QED BY <1>2, <1>3, <2>1, <2>2, <2>3 DEF DurableKept, Next, LoopStep
<1>4. ASSUME NEW c \in Machines, NEW proven \in BOOLEAN, Destroy(c, proven) PROVE DurableKept'
  <2>1. Over(c)'
    BY <1>4 DEF Destroy, Over
  <2>2. /\ \A m \in leases : m # c => m \in leases'
        /\ fileIds' = fileIds /\ durable' = durable /\ task' = task
    BY <1>4 DEF Destroy, Forget, book, file, ghost, tasks
  <2> QED BY <1>2, <1>4, <2>1, <2>2 DEF DurableKept, Next, LoopStep, Alive
<1>5. CASE WriteFile
  BY <1>2, <1>5 DEF WriteFile, DurableKept, Next, TaskStep, Alive, book
<1>6. CASE Crash
  BY <1>2, <1>6 DEF Crash, DurableKept, Next, TaskStep, Alive, file, ghost
<1>7. CASE Start
  BY <1>2, <1>7 DEF Start, DurableKept, Next, TaskStep, file, ghost
<1>8. CASE UNCHANGED <<leases, fileIds, durable>> /\ Next /\ (Alive' <=> Alive)
  BY <1>2, <1>8 DEF DurableKept
<1> QED
  BY <1>1, <1>3, <1>4, <1>5, <1>6, <1>7, <1>8
  DEF Next, CoreStep, LoopStep, TaskStep, TimerStep, HostStep, CoreAnswers, CoreAbsent, CoreUnnames,
      CoreLists, Ask, Unreachable, Refused, PassEnds, MaintainStarts, ReadAgain, PassStarts, Leave,
      TakeLock, CheckBegins, StopLeased, MarkStopped, StopFails, TimerDefers, TimerActs,
      TimerEnds, TimerStops, Tick, PowerOff, book, file, ghost, tasks, Alive

\* When a written lease's machine is down at the latest: the bound of the
\* timer's crate, and one period of the timer more for each further death.
DownBy(m) == owedUntil[m] + WriteEvery + StaleAfter + crashes * TimerEvery

\* A machine up under a written lease is in time, and will be: the next check,
\* or when the agent is down the timer's next run, comes before the bound.
InTime ==
  \A m \in durable \cap up :
    /\ fileAt < owedUntil[m] /\ now <= DownBy(m)
    /\ task = "idle" => nextCheck <= now \/ nextCheck <= deadline[m] + WriteEvery
    /\ task = "down" => nextRun <= DownBy(m) \/ (lock = "timer" /\ m \in due)

Inductive ==
  TypeOK /\ Clocks /\ Startable /\ Heard /\ FileFollows /\ Stops /\ DurableKept /\ InTime

\* The wait grows by a period with each death, and is never less than the rest.
LEMMA DownByBounds ==
  ASSUME TypeOK, NEW m \in Machines
  PROVE  /\ DownBy(m) \in Nat /\ DownBy(m) >= owedUntil[m] + WriteEvery + StaleAfter
         /\ crashes >= 1 => DownBy(m) >= owedUntil[m] + WriteEvery + StaleAfter + TimerEvery
         /\ MaxCrashes <= 1 => DownBy(m) <= owedUntil[m] + WriteEvery + StaleAfter + TimerEvery
<1> DEFINE w == crashes * TimerEvery
<1>1. crashes \in Nat /\ TimerEvery \in Nat /\ owedUntil[m] \in Nat /\ WriteEvery \in Nat /\ StaleAfter \in Nat
  BY Durations, Instants
<1>2. w \in Nat
  BY <1>1
<1>3. crashes >= 1 => w >= TimerEvery
  BY <1>1, SMTT(30)
<1>4. MaxCrashes <= 1 => w <= TimerEvery
  <2>1. MaxCrashes <= 1 => crashes = 0 \/ crashes = 1
    BY Durations DEF TypeOK
  <2> QED BY <1>1, <2>1
<1> HIDE DEF w
<1>5. DownBy(m) = owedUntil[m] + WriteEvery + StaleAfter + w
  BY DEF DownBy, w
<1> QED BY <1>1, <1>2, <1>3, <1>4, <1>5

\* A machine up under a written lease is leased, by a lease no later than it.
LEMMA UpIsLeased ==
  ASSUME Inductive, NEW m \in durable \cap up
  PROVE  /\ m \in Machines /\ m \in owed /\ m \in fileIds /\ fileUntil[m] <= owedUntil[m]
         /\ Alive => m \in leases /\ deadline[m] <= owedUntil[m] /\ m \notin stopped
BY DEF Inductive, DurableKept, Over, FileFollows, Stops, TypeOK

LEMMA InTimeReceive ==
  ASSUME Prompt, Inductive, Receive
  PROVE  InTime'
<1> USE Durations
<1>0. TypeOK
  BY DEF Inductive
<1>1. /\ view \in Views /\ asked \in 0 .. MaxTime /\ Renew(view, asked) /\ Alive
      /\ now' = now /\ fileAt' = fileAt /\ up' = up /\ task' = task /\ nextCheck' = nextCheck
      /\ nextRun' = nextRun /\ crashes' = crashes
  BY <1>0 DEF Receive, TypeOK, file, vms, core, tasks, timer
<1> SUFFICES ASSUME NEW m \in durable' \cap up'
             PROVE  /\ fileAt < owedUntil'[m] /\ now <= DownBy(m)'
                    /\ task = "idle" => nextCheck <= now \/ nextCheck <= deadline'[m] + WriteEvery
  BY <1>1 DEF InTime, Alive
<1>2. m \in durable \cap up /\ m \notin Released(view)
  BY <1>1 DEF Renew
<1>3. m \in Machines /\ m \in leases /\ deadline[m] <= owedUntil[m] /\ m \notin stopped
  BY <1>1, <1>2, UpIsLeased
<1>4. m \in leases' /\ m \notin Done(view, asked)
  BY <1>1, <1>2, <1>3 DEF Renew, Done
<1>5. deadline'[m] >= deadline[m]
  BY <1>0, <1>1, <1>3, <1>4, RenewKeeps
<1>6. deadline'[m] \in Nat /\ owedUntil'[m] \in Nat /\ TypeOK'
  BY <1>0, <1>1, <1>3, RenewType, LoopType DEF LoopStep, PerMachine, Time
<1>7. /\ fileAt <= now /\ now \in Nat /\ asked \in Nat /\ fileAt \in Int /\ nextCheck \in Nat
      /\ deadline[m] \in Nat /\ owedUntil[m] \in Nat /\ now <= asked + AnswerTime
  BY <1>0, <1>3, Instants DEF Inductive, Clocks, Receive
<1>8. fileAt < owedUntil[m] /\ now <= DownBy(m) /\ (task = "idle" => nextCheck <= now \/ nextCheck <= deadline[m] + WriteEvery)
  BY <1>2 DEF Inductive, InTime
<1>9. task = "idle" => nextCheck <= now \/ nextCheck <= deadline'[m] + WriteEvery
  BY <1>5, <1>6, <1>7, <1>8
<1>10. CASE m \in Renewed(view)
  <2>1. owedUntil'[m] = deadline'[m]
    BY <1>1, <1>2, <1>3, <1>10 DEF Renew
  <2>2. deadline'[m] > asked + PassTime
    BY <1>0, <1>1, <1>3, <1>4, <1>10, RenewStartable DEF Renewed, Prompt
  <2>3. AnswerTime <= PassTime
    BY DEF Prompt, Timely
  <2>4. now < owedUntil'[m]
    BY <1>6, <1>7, <2>1, <2>2, <2>3
  <2>5. DownBy(m)' \in Nat /\ DownBy(m)' >= owedUntil'[m] + WriteEvery + StaleAfter
    <3>1. crashes \in Nat
      BY <1>0, Instants
    <3>2. crashes * TimerEvery \in Nat
      BY <3>1
    <3>3. DownBy(m)' = owedUntil'[m] + WriteEvery + StaleAfter + crashes * TimerEvery
      BY <1>1 DEF DownBy
    <3> QED BY <1>6, <3>2, <3>3
  <2>6. now <= DownBy(m)'
    BY <1>6, <1>7, <2>4, <2>5
  <2> QED BY <1>6, <1>7, <1>9, <2>4, <2>6
<1>11. CASE m \notin Renewed(view)
  <2>1. owedUntil'[m] = owedUntil[m]
    BY <1>1, <1>2, <1>3, <1>11 DEF Renew
  <2>2. DownBy(m)' = DownBy(m)
    BY <1>1, <2>1 DEF DownBy
  <2> QED BY <1>8, <1>9, <2>1, <2>2
<1> QED BY <1>10, <1>11

\* A machine that is started has its lease before it.
LEMMA InTimeStarts ==
  ASSUME Prompt, Inductive, NEW c \in Machines, MaintainStarts(c) \/ PassStarts(c)
  PROVE  InTime'
<1> USE Durations
<1>1. TypeOK /\ Alive /\ up' = up \cup {c} /\ Next
  BY DEF Inductive, MaintainStarts, PassStarts, Next, LoopStep
<1>2. UNCHANGED <<now, leases, deadline, stopped, task, nextCheck, lock, fileAt, due, nextRun, crashes, owedUntil, durable>>
  BY DEF MaintainStarts, PassStarts, book, tasks, file, timer, ghost
<1>3. ASSUME NEW m \in durable \cap up'
      PROVE  /\ fileAt < owedUntil[m] /\ now <= DownBy(m)
             /\ task = "idle" => nextCheck <= now \/ nextCheck <= deadline[m] + WriteEvery
  <2>1. CASE m \in up
    BY <2>1, <1>3 DEF Inductive, InTime
  <2>2. CASE m \notin up
    <3>1. m \in owed /\ m \in Machines
      BY <1>1, <1>3 DEF TypeOK
    <3>2. m = c /\ m \in leases
      <4>1. m = c
        BY <1>1, <1>3, <2>2
      <4>2. CASE MaintainStarts(c)
        BY <1>1, <1>3, <4>1, <4>2 DEF MaintainStarts, Inductive, DurableKept, Over
      <4>3. CASE PassStarts(c)
        BY <1>1, <3>1, <4>1, <4>3 DEF PassStarts, Inductive, Startable, TypeOK
      <4> QED BY <4>1, <4>2, <4>3
    <3>3. now < deadline[m]
      BY <1>1, <1>3, <2>2, <3>2, StartsInLease DEF Inductive, Prompt
    <3>4. deadline[m] <= owedUntil[m]
      BY <3>1, <3>2 DEF Inductive, FileFollows
    <3>5. now \in Nat /\ fileAt \in Int /\ deadline[m] \in Nat /\ owedUntil[m] \in Nat /\ nextCheck \in Nat
      BY <1>1, <3>1, Instants
    <3>6. DownBy(m) \in Nat /\ DownBy(m) >= owedUntil[m] + WriteEvery + StaleAfter
      BY <1>1, <3>1, DownByBounds
    <3>7. fileAt <= now /\ (task = "idle" => nextCheck <= now + WriteEvery)
      BY DEF Inductive, Clocks
    <3> QED BY <3>3, <3>4, <3>5, <3>6, <3>7
  <2> QED BY <2>1, <2>2
<1>4. \A m : DownBy(m)' = DownBy(m)
  BY <1>2 DEF DownBy
<1>5. task # "down"
  BY <1>1 DEF Alive
<1> QED BY <1>2, <1>3, <1>4, <1>5 DEF InTime

\* The end of a check: what is up then has not run out.
LEMMA InTimeWrite ==
  ASSUME Prompt, Inductive, WriteFile
  PROVE  InTime'
<1> USE Durations
<1>1. TypeOK /\ Alive /\ task = "checking" /\ queue = {} /\ task' = "idle" /\ fileAt' = now
      /\ UNCHANGED <<now, up, leases, deadline, stopped, nextCheck, crashes, owedUntil>>
      /\ durable' = durable \cup (owed \cap leases)
  BY DEF Inductive, WriteFile, Alive, vms, book
<1>2. ASSUME NEW m \in durable' \cap up
      PROVE  now < owedUntil[m] /\ now <= DownBy(m) /\ nextCheck <= deadline[m] + WriteEvery
  <2>1. m \in leases /\ m \in owed /\ m \in Machines
    BY <1>1, <1>2, UpIsLeased DEF TypeOK
  <2>2. m \notin stopped /\ ~(deadline[m] <= now)
    BY <1>1, <1>2, <2>1 DEF Inductive, Stops
  <2>3. deadline[m] <= owedUntil[m] /\ nextCheck = now + WriteEvery
    BY <1>1, <2>1 DEF Inductive, FileFollows, Clocks
  <2>4. now \in Nat /\ deadline[m] \in Nat /\ owedUntil[m] \in Nat
    BY <1>1, <2>1, Instants
  <2>5. DownBy(m) \in Nat /\ DownBy(m) >= owedUntil[m] + WriteEvery + StaleAfter
    BY <1>1, <2>1, DownByBounds
  <2> QED BY <2>2, <2>3, <2>4, <2>5
<1>3. \A m : DownBy(m)' = DownBy(m)
  BY <1>1 DEF DownBy
<1> QED BY <1>1, <1>2, <1>3 DEF InTime

\* A death leaves the machine to the timer, which runs within a period.
LEMMA InTimeCrash ==
  ASSUME Prompt, Inductive, Crash
  PROVE  InTime'
<1> USE Durations
<1>1. /\ TypeOK /\ crashes' = crashes + 1 /\ task' = "down"
      /\ UNCHANGED <<now, up, fileAt, nextRun, owedUntil, durable>>
  BY DEF Inductive, Crash, vms, file, timer, ghost
<1>2. ASSUME NEW m \in durable \cap up
      PROVE  fileAt < owedUntil[m] /\ now <= DownBy(m)' /\ nextRun <= DownBy(m)'
  <2>1. m \in Machines
    BY <1>1, <1>2 DEF TypeOK
  <2>2. fileAt < owedUntil[m] /\ now <= DownBy(m) /\ nextRun <= now + TimerEvery
    BY <1>2 DEF Inductive, InTime, Clocks
  <2>3. DownBy(m)' = DownBy(m) + TimerEvery
    <3>1. crashes \in Nat /\ owedUntil[m] \in Nat
      BY <1>1, <2>1, Instants
    <3>2. (crashes + 1) * TimerEvery = crashes * TimerEvery + TimerEvery /\ crashes * TimerEvery \in Nat
      BY <3>1, SMTT(30)
    <3> QED BY <1>1, <3>1, <3>2 DEF DownBy
  <2>4. DownBy(m) \in Nat /\ now \in Nat /\ nextRun \in Nat
    BY <1>1, <2>1, DownByBounds, Instants
  <2> QED BY <2>2, <2>3, <2>4
<1> QED BY <1>1, <1>2 DEF InTime

\* The timer's run: with the agent down, what it does not stop has time left.
LEMMA InTimeTimer ==
  ASSUME Prompt, Inductive, TimerStep
  PROVE  InTime'
<1> USE Durations
<1>1. /\ TypeOK /\ up' \subseteq up
      /\ UNCHANGED <<now, task, deadline, nextCheck, crashes, fileIds, fileUntil, fileAt, owedUntil, durable>>
  BY DEF Inductive, TimerStep, TimerDefers, TimerActs, TimerEnds, TimerStops, vms, book, tasks, file, ghost
<1>2. \A m : DownBy(m)' = DownBy(m)
  BY <1>1 DEF DownBy
<1> SUFFICES ASSUME NEW m \in durable \cap up', task = "down"
             PROVE  nextRun' <= DownBy(m) \/ (lock' = "timer" /\ m \in due')
  BY <1>1, <1>2 DEF Inductive, InTime
<1>3. /\ m \in durable \cap up /\ m \in Machines /\ m \in fileIds /\ fileUntil[m] <= owedUntil[m]
      /\ fileAt < owedUntil[m] /\ (nextRun <= DownBy(m) \/ (lock = "timer" /\ m \in due))
      /\ lock # "agent" /\ fileAt # -1 /\ crashes >= 1
  <2>1. m \in durable \cap up
    BY <1>1
  <2>2. m \in Machines /\ m \in fileIds /\ fileUntil[m] <= owedUntil[m]
    BY <2>1, UpIsLeased
  <2> QED BY <2>1, <2>2 DEF Inductive, InTime, Clocks
<1>4. /\ now \in Nat /\ fileAt \in Int /\ owedUntil[m] \in Nat /\ fileUntil[m] \in Nat /\ nextRun \in Nat
      /\ DownBy(m) \in Nat /\ DownBy(m) >= owedUntil[m] + WriteEvery + StaleAfter + TimerEvery
  BY <1>1, <1>3, Instants, DownByBounds
<1>5. CASE TimerDefers
  <2>1. now < owedUntil[m] + StaleAfter
    BY <1>3, <1>4, <1>5 DEF TimerDefers, Overdue
  <2> QED BY <1>4, <1>5, <2>1 DEF TimerDefers
<1>6. CASE TimerActs
  <2>1. CASE m \in Overdue
    BY <1>6, <2>1 DEF TimerActs
  <2>2. CASE m \notin Overdue
    BY <1>3, <1>4, <1>6, <2>2 DEF TimerActs, Overdue
  <2> QED BY <2>1, <2>2
<1>7. CASE TimerEnds
  BY <1>3, <1>7 DEF TimerEnds, timer
<1>8. ASSUME NEW c \in Machines, TimerStops(c) PROVE nextRun' <= DownBy(m) \/ (lock' = "timer" /\ m \in due')
  <2>1. m # c
    BY <1>8 DEF TimerStops, Prompt, Timely
  <2> QED BY <1>3, <1>8, <2>1 DEF TimerStops
<1> QED BY <1>5, <1>6, <1>7, <1>8 DEF TimerStep

\* An instant passes only while somebody's next moment is still to come.
LEMMA InTimeTick ==
  ASSUME Prompt, Inductive, Tick
  PROVE  InTime'
<1> USE Durations
<1>1. /\ TypeOK /\ now' = now + 1
      /\ UNCHANGED <<up, leases, task, deadline, nextCheck, lock, due, nextRun, crashes, fileAt, owedUntil, durable>>
  BY DEF Inductive, Tick, vms, book, tasks, file, timer, ghost
<1>2. \A m : DownBy(m)' = DownBy(m)
  BY <1>1 DEF DownBy
<1>3. /\ task \in {"idle", "down"} /\ lock # "timer" /\ now < nextRun
      /\ task = "idle" => now < nextCheck
  <2>1. lock # "timer" /\ now < nextRun
    BY <1>1, Instants DEF Tick, NothingLate, Prompt, Timely, Inductive, Clocks
  <2>2. task # "checking"
    BY <1>1, Instants DEF Tick, NothingLate, Prompt, Timely, Inductive, Clocks
  <2>3. task # "locking"
    BY <1>1, <2>1 DEF Tick, NothingLate, Inductive, Clocks, TypeOK
  <2> QED BY <1>1, <2>1, <2>2, <2>3 DEF Tick, NothingLate, TypeOK
<1>4. ASSUME NEW m \in durable \cap up
      PROVE  /\ now + 1 <= DownBy(m)
             /\ task = "idle" => nextCheck <= now + 1 \/ nextCheck <= deadline[m] + WriteEvery
  <2>1. m \in Machines
    BY <1>1, <1>4 DEF TypeOK
  <2>2. /\ now \in Nat /\ nextCheck \in Nat /\ nextRun \in Nat /\ deadline[m] \in Nat /\ owedUntil[m] \in Nat
        /\ DownBy(m) \in Nat /\ DownBy(m) >= owedUntil[m] + WriteEvery + StaleAfter
    BY <1>1, <2>1, Instants, DownByBounds
  <2>3. CASE task = "idle"
    <3>1. nextCheck <= deadline[m] + WriteEvery
      BY <1>3, <1>4, <2>2, <2>3 DEF Inductive, InTime
    <3>2. deadline[m] <= owedUntil[m]
      BY <1>4, <2>3, UpIsLeased DEF Alive
    <3> QED BY <1>3, <2>2, <2>3, <3>1, <3>2
  <2>4. CASE task = "down"
    <3>1. nextRun <= DownBy(m)
      BY <1>3, <1>4, <2>4 DEF Inductive, InTime
    <3> QED BY <1>3, <2>2, <2>4, <3>1
  <2> QED BY <1>3, <2>3, <2>4
<1> QED BY <1>1, <1>2, <1>3, <1>4 DEF Inductive, InTime

LEMMA InTimeStep == Prompt /\ Inductive /\ [Next]_vars => InTime'
<1> SUFFICES ASSUME Prompt, Inductive, [Next]_vars PROVE InTime'
  OBVIOUS
<1>0. TypeOK /\ InTime
  BY DEF Inductive
<1>1. CASE Receive
  BY <1>1, InTimeReceive
<1>2. CASE \E c \in Machines : MaintainStarts(c) \/ PassStarts(c)
  BY <1>2, InTimeStarts
<1>3. CASE WriteFile
  BY <1>3, InTimeWrite
<1>4. CASE Crash
  BY <1>4, InTimeCrash
<1>5. CASE TimerStep
  BY <1>5, InTimeTimer
<1>6. CASE Tick
  BY <1>6, InTimeTick
<1>7. CASE Start \/ CheckBegins
  <2>1. UNCHANGED <<now, up, crashes, fileAt, owedUntil, durable>> /\ task' \notin {"idle", "down"}
    BY <1>7 DEF Start, CheckBegins, vms, file, ghost
  <2>2. \A m : DownBy(m)' = DownBy(m)
    BY <2>1 DEF DownBy
  <2> QED BY <1>0, <2>1, <2>2 DEF InTime
<1>8. CASE TakeLock
  <2>1. UNCHANGED <<now, up, crashes, fileAt, owedUntil, durable>> /\ task' = "idle" /\ nextCheck' = now
    BY <1>8 DEF TakeLock, vms, file, ghost
  <2>2. \A m : DownBy(m)' = DownBy(m)
    BY <2>1 DEF DownBy
  <2>3. nextCheck' <= now'
    BY <1>0, <2>1, Instants
  <2> QED BY <1>0, <2>1, <2>2, <2>3 DEF InTime
<1>9. ASSUME NEW c \in Machines, NEW proven \in BOOLEAN, Destroy(c, proven) PROVE InTime'
  <2>1. /\ UNCHANGED <<now, crashes, task, nextCheck, lock, due, nextRun, fileAt, owedUntil, durable>>
        /\ up' = up \ {c}
    BY <1>9 DEF Destroy, tasks, file, timer, ghost
  <2>2. \A m \in Machines : m # c => deadline'[m] = deadline[m]
    BY <1>0, <1>9 DEF Destroy, Forget, TypeOK, PerMachine, book
  <2>3. \A m : DownBy(m)' = DownBy(m)
    BY <2>1 DEF DownBy
  <2>4. durable \subseteq Machines
    BY <1>0 DEF TypeOK
  <2> QED BY <1>0, <2>1, <2>2, <2>3, <2>4 DEF InTime
<1>10. CASE /\ UNCHANGED <<now, crashes, task, nextCheck, lock, due, nextRun, fileAt, deadline, owedUntil, durable>>
            /\ up' \subseteq up
  <2>1. \A m : DownBy(m)' = DownBy(m)
    BY <1>10 DEF DownBy
  <2> QED BY <1>0, <1>10, <2>1 DEF InTime
<1>11. CASE UNCHANGED vars
  BY <1>10, <1>11 DEF vars, vms, book, tasks, file, timer, ghost
<1>12. CASE CoreStep
  BY <1>10, <1>12 DEF CoreStep, CoreAnswers, CoreAbsent, CoreUnnames, CoreLists, vms, book, tasks, file, timer, ghost
<1>13. CASE Ask \/ Unreachable \/ Refused \/ PassEnds \/ \E c \in Machines : ReadAgain(c) \/ Leave(c)
  BY <1>10, <1>13 DEF Ask, Unreachable, Refused, PassEnds, ReadAgain, Leave, vms, book, tasks, file, timer, ghost
<1>14. CASE \E c \in Machines : StopLeased(c) \/ MarkStopped(c) \/ StopFails(c) \/ PowerOff(c)
  BY <1>10, <1>14 DEF StopLeased, MarkStopped, StopFails, PowerOff, vms, book, tasks, file, timer, ghost
<1> QED
  BY <1>1, <1>2, <1>3, <1>4, <1>5, <1>6, <1>7, <1>8, <1>9, <1>11, <1>12, <1>13, <1>14
  DEF Next, LoopStep, TaskStep, HostStep

LEMMA InductiveInit == Init => Inductive
  BY InitType, ClocksInit, StartableInit, FollowsInit, StopsInit
  DEF Inductive, Init, Heard, DurableKept, InTime

LEMMA InductiveStep == Prompt /\ Inductive /\ [Next]_vars => Inductive'
  BY NextType, ClocksStep, StartableStep, HeardStep, FollowsStep, StopsStep, DurableStep, InTimeStep
  DEF Inductive, Prompt

\* However often the agent dies: a machine whose lease reached the file is down
\* at the latest a write's period, the file's staleness and one run of the timer
\* for each death after the lease ran out.
THEOREM WrittenLeaseEnds == Prompt => (Spec => [](\A m \in durable \cap up : now <= DownBy(m)))
<1>1. Prompt => Prompt'
  BY DEF Prompt, Timely
<1>2. Inductive => \A m \in durable \cap up : now <= DownBy(m)
  BY DEF Inductive, InTime
<1> QED BY <1>1, <1>2, InductiveInit, InductiveStep, PTL DEF Spec

\* So the bound the timer's crate derives, with an agent that dies once.
THEOREM WrittenLeaseKept == Prompt /\ MaxCrashes <= 1 => (Spec => []WrittenLeaseIsKept)
<1>1. TypeOK /\ (\A m \in durable \cap up : now <= DownBy(m)) /\ MaxCrashes <= 1 => WrittenLeaseIsKept
  <2> SUFFICES ASSUME TypeOK, MaxCrashes <= 1, \A m \in durable \cap up : now <= DownBy(m),
                      NEW m \in durable, m \in up
               PROVE  now <= owedUntil[m] + Budget
    BY DEF WrittenLeaseIsKept, StoppedInTime
  <2>1. m \in Machines
    BY DEF TypeOK
  <2>2. now \in Nat /\ owedUntil[m] \in Nat
    BY <2>1, Instants
  <2>3. DownBy(m) \in Nat /\ DownBy(m) <= owedUntil[m] + WriteEvery + StaleAfter + TimerEvery
    BY <2>1, DownByBounds
  <2> QED BY <2>2, <2>3, Durations DEF Budget
<1>2. MaxCrashes <= 1 => (MaxCrashes <= 1)'
  OBVIOUS
<1> QED BY <1>1, <1>2, WrittenLeaseEnds, TypeCorrect, PTL
=============================================================================
