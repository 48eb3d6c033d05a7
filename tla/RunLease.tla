------------------------------ MODULE RunLease ------------------------------
(***************************************************************************)
(* The run lease: the agent's lease book (src/src/lease.rs), the lease     *)
(* task that stops a machine whose lease ran out and writes                *)
(* run-lease.json, the host timer (crates/onv-lease-expire) that stops it  *)
(* when the agent is dead, the lock that keeps the two apart, and the two  *)
(* places of the reconcile loop that start a machine: a pass on a view of  *)
(* Core, and maintenance while Core cannot be reached.                     *)
(*                                                                         *)
(* Core is external: it is what the agent's requests and the comments of   *)
(* lease.rs say of it.  The host's wall clock and its monotonic clock are  *)
(* one clock, `now`: with it a resumed deadline compares with every later  *)
(* instant as the wall deadline it was made from, so one number per lease  *)
(* stands for both.                                                        *)
(***************************************************************************)
EXTENDS Integers, FiniteSets

CONSTANTS
  Machines,          \* the machines this provider holds
  NoView,            \* "no view in hand"
  Lengths, T,        \* the lengths a header may name, and their bound
  WriteEvery,        \* the lease task's period
  StaleAfter,        \* the age from which the timer distrusts the file
  TimerEvery,        \* the timer's period
  AnswerTime,        \* a view request's own timeout
  PassTime,          \* the longest a pass takes, from its ask
  CallTime,          \* the longest a loop of hypervisor calls takes
  LockOpens,         \* whether the agent can open and lock run-lease.lock
  AnswersDuringCheck,\* whether a view may be applied while a check waits
  Relists,           \* whether a lease may be chosen again after it was let go
  StopsMayFail,      \* whether the hypervisor may refuse a stop
  MaxTime,           \* bound: the clock's last instant
  MaxCrashes         \* bound: how often the agent dies

Want == {"running", "absent", "none"}
Views == [want : [Machines -> Want], listed : SUBSET Machines, length : Lengths]

ASSUME DurationsAssumption ==
  /\ {T, WriteEvery, AnswerTime, TimerEvery} \subseteq Nat \ {0}
  /\ Lengths \subseteq 1 .. T /\ Lengths # {}
  /\ {PassTime, CallTime, MaxTime, MaxCrashes} \subseteq Nat
\* The assertion the timer's crate holds at compile time.
ASSUME StaleAssumption == StaleAfter \in Nat /\ StaleAfter > WriteEvery
ASSUME SwitchesAssumption ==
  {LockOpens, AnswersDuringCheck, Relists, StopsMayFail} \subseteq BOOLEAN
ASSUME NoViewAssumption == NoView \notin Views \cup [Machines -> Want]

VARIABLES
  now,
  want, listed, supAt,             \* Core: its view, and when it let a machine go
  up, gone,                        \* the hypervisor: running, and destroyed
  leases, deadline, stopped,       \* lease::Book
  step, asked, view, todo, doom, granted, since, held, \* the reconcile loop
  task, queue, stopping, nextCheck,\* the lease task
  lock,                            \* run-lease.lock: who holds it
  fileIds, fileUntil, fileAt,      \* run-lease.json and its mtime (-1: no file)
  due, nextRun,                    \* the host timer
  crashes,
  owed, owedUntil, durable         \* history: leases taken on, and written

core  == <<want, listed, supAt>>
vms   == <<up, gone>>
book  == <<leases, deadline, stopped>>
loop  == <<step, asked, view, todo, doom, granted, since, held>>
tasks == <<task, queue, stopping, nextCheck>>
file  == <<fileIds, fileUntil, fileAt>>
timer == <<due, nextRun>>
ghost == <<owed, owedUntil, durable>>
vars  == <<now, core, vms, book, loop, tasks, lock, file, timer, crashes, ghost>>

Zero == [m \in Machines |-> 0]

Init ==
  /\ now = 0 /\ crashes = 0
  /\ want = [m \in Machines |-> "running"] /\ listed = Machines /\ supAt = Zero
  /\ up = Machines /\ gone = {}
  /\ leases = {} /\ deadline = Zero /\ stopped = {}
  /\ step = "idle" /\ asked = 0 /\ view = NoView /\ held = NoView
  /\ todo = {} /\ doom = {} /\ granted = {} /\ since = 0
  /\ task = "locking" /\ queue = {} /\ stopping = {} /\ nextCheck = 0
  /\ lock = "free" /\ fileIds = {} /\ fileUntil = Zero /\ fileAt = -1
  /\ due = {} /\ nextRun = 0
  /\ owed = {} /\ owedUntil = Zero /\ durable = {}

Alive == task # "down"

-----------------------------------------------------------------------------
(* Core, external.                                                          *)

\* Core supersedes the machine, or its buyer deletes it: named Absent.
CoreAbsent(m) ==
  /\ want[m] = "running"
  /\ want' = [want EXCEPT ![m] = "absent"]
  /\ supAt' = [supAt EXCEPT ![m] = now]
  /\ UNCHANGED <<now, listed, vms, book, loop, tasks, lock, file, timer, crashes, ghost>>

\* Core has nothing more to ask of this host about the machine.
CoreUnnames(m) ==
  /\ want[m] = "absent"
  /\ want' = [want EXCEPT ![m] = "none"] /\ listed' = listed \ {m}
  /\ UNCHANGED <<now, supAt, vms, book, loop, tasks, lock, file, timer, crashes, ghost>>

\* The buyer's choice of "one copy on an honest provider", off or on again.
CoreLists(m) ==
  /\ want[m] = "running" /\ (m \in listed \/ Relists)
  /\ listed' = IF m \in listed THEN listed \ {m} ELSE listed \cup {m}
  /\ UNCHANGED <<now, want, supAt, vms, book, loop, tasks, lock, file, timer, crashes, ghost>>

\* Core composes its answer; it may arrive later, or never.
CoreAnswers ==
  /\ step = "asked"
  /\ step' = "answered" /\ \E t \in Lengths :
                              view' = [want |-> want, listed |-> listed, length |-> t]
  /\ UNCHANGED <<now, core, vms, book, asked, todo, doom, granted, since, held,
                 tasks, lock, file, timer, crashes, ghost>>

-----------------------------------------------------------------------------
(* The lease book.                                                          *)

Expired(t) == {m \in leases \ stopped : deadline[m] <= t}

\* Slip: the deadline's own instant still counts as inside the lease.
MayRestartAtDeadline(m, t) == m \in leases => deadline[m] >= t

MayRestart(m, t) == m \in leases => deadline[m] > t

\* lease::apply: what a view, asked for at `a`, does to the book.
Renewed(v) == {m \in v.listed : v.want[m] = "running"}
Released(v) == {m \in Machines \ v.listed : v.want[m] = "running"}
\* Slip: a shorter length told later replaces the deadline.
NoneLater(v, a) == {}
Later(v, a) == {m \in leases \cap Renewed(v) : deadline[m] > a + v.length}
Done(v, a) == {m \in leases \cap stopped : deadline[m] <= a /\ v.want[m] = "none"}

Renew(v, a) ==
  LET fresh == Renewed(v) \ Later(v, a)
      drop  == Released(v) \cup Done(v, a)
  IN /\ leases' = (leases \cup fresh) \ drop
     /\ deadline' = [m \in Machines |-> IF m \in drop THEN 0
                                        ELSE IF m \in fresh THEN a + v.length
                                        ELSE deadline[m]]
     /\ stopped' = stopped \ (fresh \cup drop)
     /\ owed' = (owed \cup Renewed(v)) \ Released(v)
     /\ owedUntil' = [m \in Machines |-> IF m \in Released(v) THEN 0
                                         ELSE IF m \in Renewed(v) THEN deadline'[m]
                                         ELSE owedUntil[m]]
     /\ durable' = durable \ Released(v)

\* lease::forget, when a delete's proof found nothing left of the machine.
Forget(m) ==
  /\ leases' = leases \ {m}
  /\ deadline' = [deadline EXCEPT ![m] = 0]
  /\ stopped' = stopped \ {m}

-----------------------------------------------------------------------------
(* The reconcile loop: reconcile_workers, as far as it touches the lease.   *)

\* The instant the lease counts from is read before the request leaves.
Ask ==
  /\ Alive /\ step = "idle"
  /\ step' = "asked" /\ asked' = now
  /\ UNCHANGED <<now, core, vms, book, view, todo, doom, granted, since, held,
                 tasks, lock, file, timer, crashes, ghost>>

\* Slip: the lease counted from the answer's arrival.
ReceiveFromArrival ==
  /\ Alive /\ step = "answered"
  /\ AnswersDuringCheck \/ task # "checking"
  /\ Renew(view, now)
  /\ step' = "idle" /\ asked' = 0 /\ view' = NoView
  /\ UNCHANGED <<now, core, vms, todo, doom, granted, since, held,
                 tasks, lock, file, timer, crashes>>

\* The answer arrives: held, its lease applied, and the pass begins.
Receive ==
  /\ Alive /\ step = "answered"
  /\ AnswersDuringCheck \/ task # "checking"
  /\ Renew(view, asked)
  /\ held' = view.want
  /\ todo' = {m \in Machines : view.want[m] = "running"}
  /\ doom' = {m \in Machines : view.want[m] = "absent"}
  /\ step' = "acting" /\ since' = asked
  /\ asked' = 0 /\ view' = NoView
  /\ UNCHANGED <<now, core, vms, granted, tasks, lock, file, timer, crashes>>

\* No answer: what the view in hand wants running, and whose lease allows it,
\* is maintained.  The filter runs once, before the first start.
Unreachable ==
  /\ Alive /\ step \in {"asked", "answered"}
  /\ step' = "maintaining" /\ since' = now
  /\ todo' = IF held = NoView THEN {}
             ELSE {m \in Machines : held[m] = "running" /\ MayRestart(m, now)}
  /\ asked' = 0 /\ view' = NoView
  /\ UNCHANGED <<now, core, vms, book, doom, granted, held,
                 tasks, lock, file, timer, crashes, ghost>>

\* Core refused, spoke another protocol, or is in a restore: nothing is done.
Refused ==
  /\ Alive /\ step \in {"asked", "answered"}
  /\ step' = "idle" /\ asked' = 0 /\ view' = NoView
  /\ UNCHANGED <<now, core, vms, book, todo, doom, granted, since, held,
                 tasks, lock, file, timer, crashes, ghost>>

\* Client::maintain: a machine its node calls stopped is started.
MaintainStarts(m) ==
  /\ Alive /\ step = "maintaining" /\ m \in todo
  /\ m \notin up \cup gone
  /\ up' = up \cup {m} /\ todo' = todo \ {m}
  /\ UNCHANGED <<now, core, gone, book, step, asked, view, doom, granted, since, held,
                 tasks, lock, file, timer, crashes, ghost>>

\* still_running: the view read again before a start.  Its answer is held, and
\* heard, but a lease is renewed only by the next pass's view.
ReadAgain(m) ==
  /\ Alive /\ step = "acting" /\ m \in todo \ granted
  /\ m \notin up \cup gone /\ want[m] = "running"
  /\ granted' = granted \cup {m} /\ held' = want
  /\ UNCHANGED <<now, core, vms, book, step, asked, view, todo, doom, since,
                 tasks, lock, file, timer, crashes, ghost>>

PassStarts(m) ==
  /\ Alive /\ step = "acting" /\ m \in granted
  /\ up' = up \cup {m} /\ todo' = todo \ {m} /\ granted' = granted \ {m}
  /\ UNCHANGED <<now, core, gone, book, step, asked, view, doom, since, held,
                 tasks, lock, file, timer, crashes, ghost>>

\* delete_instance, when the view read again still says Absent: the machine is
\* torn down, and its lease ends if a listing proved it gone.
Destroy(m, proven) ==
  /\ Alive /\ step = "acting" /\ m \in doom /\ want[m] = "absent"
  /\ up' = up \ {m} /\ gone' = gone \cup {m} /\ doom' = doom \ {m}
  /\ held' = want
  /\ IF proven THEN Forget(m) ELSE UNCHANGED book
  /\ UNCHANGED <<now, core, step, asked, view, todo, granted, since,
                 tasks, lock, file, timer, crashes, ghost>>

\* A machine left as it is: it runs, its node or Core would not say, or the
\* view read again, and held, says otherwise.
Leave(m) ==
  /\ Alive /\ step \in {"acting", "maintaining"} /\ m \in (todo \ granted) \cup doom
  /\ todo' = todo \ {m} /\ doom' = doom \ {m}
  /\ held' \in {held} \cup (IF step = "acting" THEN {want} ELSE {})
  /\ UNCHANGED <<now, core, vms, book, step, asked, view, granted, since,
                 tasks, lock, file, timer, crashes, ghost>>

PassEnds ==
  /\ Alive /\ step \in {"acting", "maintaining"} /\ todo = {} /\ doom = {}
  /\ step' = "idle" /\ since' = 0
  /\ UNCHANGED <<now, core, vms, book, asked, view, todo, doom, granted, held,
                 tasks, lock, file, timer, crashes, ghost>>

-----------------------------------------------------------------------------
(* The lease task.                                                          *)

\* Slip: the task does not wait for a timer's pass to end.
TakeLockUnwaited ==
  /\ task = "locking"
  /\ lock' = IF lock = "free" /\ LockOpens THEN "agent" ELSE lock
  /\ task' = "idle" /\ nextCheck' = now
  /\ UNCHANGED <<now, core, vms, book, loop, queue, stopping, file, timer, crashes, ghost>>

TakeLock ==
  /\ task = "locking"
  /\ IF LockOpens THEN lock = "free" /\ lock' = "agent" ELSE UNCHANGED lock
  /\ task' = "idle" /\ nextCheck' = now
  /\ UNCHANGED <<now, core, vms, book, loop, queue, stopping, file, timer, crashes, ghost>>

CheckBegins ==
  /\ task = "idle" /\ nextCheck <= now
  /\ task' = "checking" /\ queue' = Expired(now)
  /\ nextCheck' = now + WriteEvery
  /\ UNCHANGED <<now, core, vms, book, loop, stopping, lock, file, timer, crashes, ghost>>

\* stop_leased: the guest its node does not call stopped is stopped.
StopLeased(m) ==
  /\ task = "checking" /\ stopping = {} /\ m \in queue
  /\ up' = up \ {m} /\ stopping' = {m}
  /\ UNCHANGED <<now, core, gone, book, loop, task, queue, nextCheck,
                 lock, file, timer, crashes, ghost>>

\* Slip: a lease that went while its stop was awaited is marked all the same.
MarkAnyway(m) ==
  /\ task = "checking" /\ m \in stopping
  /\ stopped' = stopped \cup {m}
  /\ stopping' = {} /\ queue' = queue \ {m}
  /\ UNCHANGED <<now, core, vms, leases, deadline, loop, task, nextCheck,
                 lock, file, timer, crashes, ghost>>

\* The awaited stop answers: whatever lease the book now holds is marked.
MarkStopped(m) ==
  /\ task = "checking" /\ m \in stopping
  /\ stopped' = stopped \cup (leases \cap {m})
  /\ stopping' = {} /\ queue' = queue \ {m}
  /\ UNCHANGED <<now, core, vms, leases, deadline, loop, task, nextCheck,
                 lock, file, timer, crashes, ghost>>

\* The hypervisor refused: nothing is marked, and the next check asks again.
StopFails(m) ==
  /\ StopsMayFail /\ task = "checking" /\ stopping = {} /\ m \in queue
  /\ queue' = queue \ {m}
  /\ UNCHANGED <<now, core, vms, book, loop, task, stopping, nextCheck,
                 lock, file, timer, crashes, ghost>>

\* The check ends by writing the file, whole, under its name.
WriteFile ==
  /\ task = "checking" /\ queue = {}
  /\ fileIds' = leases /\ fileUntil' = deadline /\ fileAt' = now
  /\ durable' = durable \cup (owed \cap leases)
  /\ task' = "idle"
  /\ UNCHANGED <<now, core, vms, book, loop, queue, stopping, nextCheck, lock,
                 timer, crashes, owed, owedUntil>>

-----------------------------------------------------------------------------
(* The agent's process.                                                     *)

Crash ==
  /\ Alive /\ crashes < MaxCrashes
  /\ crashes' = crashes + 1
  /\ leases' = {} /\ deadline' = Zero /\ stopped' = {}
  /\ step' = "idle" /\ asked' = 0 /\ view' = NoView /\ held' = NoView
  /\ todo' = {} /\ doom' = {} /\ granted' = {} /\ since' = 0
  /\ task' = "down" /\ queue' = {} /\ stopping' = {} /\ nextCheck' = 0
  /\ lock' = IF lock = "agent" THEN "free" ELSE lock
  /\ UNCHANGED <<now, core, vms, file, timer, ghost>>

\* Slip: a lease that ran out while the agent was down is not resumed.
StartDropsExpired ==
  /\ task = "down"
  /\ leases' = {m \in fileIds : fileUntil[m] > now}
  /\ deadline' = [m \in Machines |-> IF m \in leases' THEN fileUntil[m] ELSE 0]
  /\ task' = "locking"
  /\ UNCHANGED <<now, core, vms, stopped, loop, queue, stopping, nextCheck,
                 lock, file, timer, crashes, ghost>>

\* lease::spawn: the file's leases resumed, unstopped, before the first view.
Start ==
  /\ task = "down"
  /\ leases' = fileIds /\ deadline' = fileUntil
  /\ task' = "locking"
  /\ UNCHANGED <<now, core, vms, stopped, loop, queue, stopping, nextCheck,
                 lock, file, timer, crashes, ghost>>

-----------------------------------------------------------------------------
(* The host timer: onv_lease_expire::pass.                                  *)

Overdue == {m \in fileIds : fileUntil[m] <= now}

\* The verdicts that stop nothing.
TimerDefers ==
  /\ nextRun <= now /\ lock # "timer"
  /\ \/ fileAt = -1
     \/ lock = "agent"
     \/ now - fileAt < StaleAfter
     \/ Overdue = {}
  /\ nextRun' = now + TimerEvery
  /\ UNCHANGED <<now, core, vms, book, loop, tasks, lock, file, due, crashes, ghost>>

\* The lock taken, the file old: its leases past their time are stopped.
TimerActs ==
  /\ nextRun <= now /\ lock = "free"
  /\ fileAt # -1 /\ now - fileAt >= StaleAfter /\ Overdue # {}
  /\ lock' = "timer" /\ due' = Overdue /\ nextRun' = now + TimerEvery
  /\ UNCHANGED <<now, core, vms, book, loop, tasks, file, crashes, ghost>>

TimerStops(m) ==
  /\ lock = "timer" /\ m \in due
  /\ due' = due \ {m}
  /\ up' = up \ {m} \/ (StopsMayFail /\ UNCHANGED up)
  /\ UNCHANGED <<now, core, gone, book, loop, tasks, lock, file, nextRun, crashes, ghost>>

TimerEnds ==
  /\ lock = "timer" /\ due = {}
  /\ lock' = "free"
  /\ UNCHANGED <<now, core, vms, book, loop, tasks, file, timer, crashes, ghost>>

-----------------------------------------------------------------------------
(* The machines, and time.                                                  *)

\* A guest powers itself off, or its node loses it.
PowerOff(m) ==
  /\ m \in up /\ up' = up \ {m}
  /\ UNCHANGED <<now, core, gone, book, loop, tasks, lock, file, timer, crashes, ghost>>

\* Nothing is late: no deadline of the agent, the timer or a call is now.
NothingLate ==
  /\ step \in {"asked", "answered"} => now < asked + AnswerTime
  /\ step = "acting" => now < since + PassTime
  /\ step = "maintaining" => now < since + CallTime
  /\ task = "locking" => LockOpens /\ lock # "free"
  /\ task = "idle" => now < nextCheck
  /\ task = "checking" => now < nextCheck - WriteEvery + CallTime
  /\ lock = "timer" => now < nextRun - TimerEvery + CallTime
  /\ lock # "timer" => now < nextRun

Tick ==
  /\ now < MaxTime /\ NothingLate
  /\ now' = now + 1
  /\ UNCHANGED <<core, vms, book, loop, tasks, lock, file, timer, crashes, ghost>>

CoreStep == CoreAnswers \/ \E m \in Machines : CoreAbsent(m) \/ CoreUnnames(m) \/ CoreLists(m)
LoopStep ==
  \/ Ask \/ Receive \/ Unreachable \/ Refused \/ PassEnds
  \/ \E m \in Machines : MaintainStarts(m) \/ ReadAgain(m) \/ PassStarts(m) \/ Leave(m)
  \/ \E m \in Machines, proven \in BOOLEAN : Destroy(m, proven)
TaskStep ==
  \/ TakeLock \/ CheckBegins \/ WriteFile \/ Crash \/ Start
  \/ \E m \in Machines : StopLeased(m) \/ MarkStopped(m) \/ StopFails(m)
TimerStep == TimerDefers \/ TimerActs \/ TimerEnds \/ \E m \in Machines : TimerStops(m)
HostStep == Tick \/ \E m \in Machines : PowerOff(m)

Next == CoreStep \/ LoopStep \/ TaskStep \/ TimerStep \/ HostStep

Spec == Init /\ [][Next]_vars

-----------------------------------------------------------------------------
(* Properties.                                                              *)

Time == 0 .. MaxTime + T + WriteEvery + TimerEvery
PerMachine == [Machines -> Time]

\* Every variable of the agent, the timer, the file and Core has its type.
TypeOK ==
  /\ now \in 0 .. MaxTime /\ crashes \in 0 .. MaxCrashes
  /\ want \in [Machines -> Want] /\ listed \subseteq Machines /\ supAt \in PerMachine
  /\ up \subseteq Machines /\ gone \subseteq Machines
  /\ leases \subseteq Machines /\ deadline \in PerMachine /\ stopped \subseteq leases
  /\ step \in {"idle", "asked", "answered", "acting", "maintaining"}
  /\ asked \in 0 .. MaxTime /\ since \in 0 .. MaxTime
  /\ view \in Views \cup {NoView} /\ held \in [Machines -> Want] \cup {NoView}
  /\ step = "answered" <=> view # NoView
  /\ todo \subseteq Machines /\ doom \subseteq Machines \ todo /\ granted \subseteq todo
  /\ step # "acting" => granted = {}
  /\ step \notin {"acting", "maintaining"} => todo = {} /\ doom = {}
  /\ task \in {"down", "locking", "idle", "checking"} /\ (~Alive => leases = {})
  /\ queue \subseteq Machines /\ stopping \subseteq queue /\ nextCheck \in Time
  /\ task # "checking" => queue = {}
  /\ lock \in {"free", "agent", "timer"}
  /\ fileIds \subseteq Machines /\ fileUntil \in PerMachine /\ fileAt \in -1 .. MaxTime
  /\ due \subseteq Machines /\ nextRun \in Time
  /\ owed \subseteq Machines /\ owedUntil \in PerMachine /\ durable \subseteq owed

\* lease.rs and the timer's crate: "The two never act at once."  The lease
\* task's checks and the timer's pass exclude each other.
NeverBoth == ~(task \in {"idle", "checking"} /\ lock = "timer")

\* However late an answer arrives, and whatever the agent resumes from the
\* file, no lease of a machine Core let go of, in the book or in the file,
\* runs past T from the moment Core let it go.
NoLeaseOutlivesItsView ==
  \A m \in Machines : want[m] # "running" =>
    /\ m \in leases => deadline[m] <= supAt[m] + T
    /\ m \in fileIds => fileUntil[m] <= supAt[m] + T

\* The bound the timer's crate derives: a leased machine is down within the
\* task's period, the file's staleness and the timer's period of its deadline.
Budget == WriteEvery + StaleAfter + TimerEvery
StoppedInTime(m) == m \in up => now <= owedUntil[m] + Budget

\* A lease that reached the file is kept, whether the agent lives, dies or
\* restarts: its machine is not up past its deadline plus the bound, until
\* Core releases it.
WrittenLeaseIsKept == \A m \in durable : StoppedInTime(m)

\* The same of every lease the agent took on, written yet or not.
TakenLeaseIsKept == \A m \in owed : StoppedInTime(m)

\* Neither maintenance nor a pass starts a machine whose lease ran out.
NeverStartedPastItsLease ==
  [][\A m \in up' \ up : m \in leases => now < deadline[m]]_vars

\* While the agent lives, a lease it holds is never shortened: a reading older
\* than the one applied changes nothing.
NeverMovedBack ==
  [][\A m \in leases \cap leases' : Alive /\ Alive' => deadline'[m] >= deadline[m]]_vars
=============================================================================
