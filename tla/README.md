# omnuv-provider: a TLA+ model of the provider agent

The agent (`onv-provider`) runs on one Proxmox host or cluster. It asks Core, the
marketplace, for a *desired-state* view of the buyers' machines and inference
workers, brings the hypervisor to it, and reports what it saw. Core sells, counts
and frees cards and disks on the strength of what the agent says, so the
correctness of the agent is mostly about **two parties agreeing on one machine
while calls fail, answers are late and the agent is restarted**.

This directory models that: TLA+ modules translated from the source, TLC runs of
small instances, and TLAPS proofs. Line numbers below and in `PROJECT.json` are of
this commit. Two subsystems carry the agent's promises about a machine and are both
checked and proved about: the **run lease** and **one machine's life**. The **link
with Core** (sessions, restore mode, the view kept over a restart) is checked against
an abstract specification it refines, which is proved as is its other safety. Fifteen
smaller **parts of a host** are checked by one run, one at a time; what they promise of
safety is proved, too.

## 1. Inventory

| part (source) | state it keeps | operations | hard behaviour | what makes it correct | module |
|---|---|---|---|---|---|
| reconcile loop (`src/agent.rs` 3787-4466) | the view held (memory), a pass in progress | a pass: fetch, keep, settle the journal, build / converge / delete each machine and worker, report | acts late in a pass on an old view; re-reads before each act; half a pass fails | it never acts on what Core no longer says, and reports only what it saw | several, each its machines |
| run lease (`src/lease.rs`, `onv-agent-lib/src/run_lease.rs`) | the book of leases, `run-lease.json`, the lock | apply a view, check every 30 s, stop, mark, resume at start | late answers; a view applied while a stop is awaited; a crash before the file is written | a machine Core may build elsewhere is not running here | `RunLease` |
| host timer (`onv-lease-expire`, `leased.rs`) | none; reads the file, takes the lock | stop every lease past its deadline when the agent is not there | starts while an agent starts; stale file | it acts only when the agent does not | `RunLease` |
| create and its journal (`src/instance.rs` 172-1445, `pending.rs`) | `pending/` records: Cloning, Abandoned | clone, claim, configure, start; settle; roll back | a crash between any two calls; a lost answer; a number given to somebody else | one clone per machine; nobody else's guest touched; no machine lost | `MachineLife` |
| delete, licence, proof (`src/teardown.rs`, `instance.rs` 1576-1662) | tombstones, the hour's destroys | licence, tombstone, destroy, prove on a later listing | a crash between destroy and tombstone; a withdrawn delete; twins and copies | "deleted" is said only of what is gone, and is said in the end | `MachineLife` |
| maintenance (`instance.rs` 1211) | none | start what should run, from the view held, while Core is away | a stale view | never a machine that may run elsewhere | `RunLease`, `MachineLife`, `CoreLink` |
| held view (`src/heldview.rs`) | the view on disk | keep, load at boot, retire | restart without Core; a lease file lost | no start past a lease, none beside the loop | `CoreLink` |
| restore mode (`onv-core-link/src/restore.rs`) | the head: revision, mode, armed | arm, observe, ended | Core's ledger restored from a backup; death around a mode change | a ledger gone back licenses nothing, and is told | `RestoreHead`, `CoreLink` |
| session, heartbeat (`src/session.rs`, `onv-core-link/src/session.rs`) | the session | handshake, heartbeat, handshake again | lapse, takeover, revocation, beside a pass | no act under a session Core ended | `CoreLink` |
| report (`onv-core-link/src/report.rs`, `agent.rs` 4409, `survey.rs`) | generation, sequence, period | a report a pass | lost, late and overtaken reports; half a pass | Core never reads absence into an incomplete pass | `Report` |
| card and room on offer (`src/proxmox.rs`, `disclosure.rs`) | none | survey, place, start gate | the owner acts between two reads; unreadable guests | a card has one holder | `Offer` |
| workers (`src/worker.rs`) | like a machine's, snippet, route | build, converge, re-boot for arguments, delete | as the machine; half a refresh | one or none; serves as asked | `Worker` |
| telemetry (`src/workload.rs`, `onv-workloadd`) | the last report, reads without progress | report; read; drop | two loops and no shared clock; probes of any length; passes between polls | shown a bounded number of reads; a living one dropped only when late or read in haste | `Telemetry` |
| residues (`src/teardown.rs`) | tombstones' volumes | prove, retry, check | a number, and a volume's name, given again | no volume in use removed; closed is gone | `Residue` |
| ports (`onv-hostnet/src/opening.rs`) | the book, `opening.json` | reserve, observe, release, sweep, apply | failed writes; a death between file and table | a port is one machine's | `Opening` |
| segments (`src/sdn.rs`) | the hypervisor's vnets | ensure, reap | names two networks want; applies that stop half way | a machine on its own network's bridge | `Segments` |
| image mirror (`src/images.rs`, `onv-images`) | artefacts, templates | download, verify, import, retire | a transfer resumed over a republication | what is reported held is whole | `Images` |
| scrub (`src/scrub.rs`, `onv-scrub`) | its clones, the shared journal | a pass per card | the loop settles its records beside it | a card is sold clean | `Scrub` |
| first boot, install watch, stream devices (`onv-generators`, `installwatch.rs`, `stream_devices.rs`) | status file, watch | write, run, read, look sooner | re-runs; half-written files | "installed" is one whole install | `FirstBoot` |
| first-boot files (`snippets.rs`) | files by machine | write, keep, remove, sweep | a machine being made names none yet | never lost, never left | `Sweep` |
| reboots, passwords (`reboots.rs`, `passwords.rs`) | a record a machine | once per token | a lost answer, a death after the call | at most once, and told | `Upkeep` |
| certificate (`guest/onv-certificate.sh`) | token, key, chain, fingerprint | trade, fetch, install, reload | two runs; cut short anywhere | the last one issued is served | `Certificate` |
| tunnel and console (`onv-tunnel`, `src/console.rs`) | tasks, inputs, handles | dial, open, input, end, cancel | three tasks of a console over two tables | what is let go of is closed | `Tunnel` |
| join and leave (`src/join.rs`) | the host's objects and secrets | two lists of steps | stop anywhere, run again, in any order | a host that serves, or that nothing needs | `Join` |
| supervision (`onv-core-link/src/supervise.rs`) | none | the process ends with its tasks | — | nothing half alive | in `RunLease`, `CoreLink` |
| configuration, names, audit, TLS, packaging | none a step changes | — | — | — | not modelled |

How they meet: Core and the agent exchange HTTP requests (the view with its lease
header; the report). The loop, the lease task, the heartbeat, the mirror and the
scrub are tasks of one process sharing mutexes (`held`, the lease book, the restore
head). The host timer is another process and meets the agent in a file and a lock
only. All of them meet the hypervisor, whose guests, numbers and tasks the host's
owner shares. Across a restart there is only the disk: the journal, the tombstones,
the held view, the restore head, `run-lease.json`, `opening.json`.

`PROJECT.json` lists every component with its status, and every hazard at its line.

## 2. The modules

| module | what it is |
|---|---|
| `RunLease` | the lease: Core's side, the pass and maintenance, the lease task, the file and lock, the host timer, one clock |
| `MCRunLease` | its finite instance |
| `RunLease_proofs` | the TLAPS proofs about it |
| `MachineLife` | one machine: journal, build, gates, delete, tombstone, proof, against Core, the hypervisor and the owner |
| `MCMachineLife` | its finite instance |
| `MachineLife_proofs` | the proofs of its type and its safety properties |
| `RestoreHead` | the functions of `restore.rs` on one head |
| `RestoreGate` | what restore mode promises, in one page |
| `CoreLink` | one agent and Core: session, heartbeat, view, restore, held view, over deaths |
| `MCCoreLink`, `CoreLink_proofs` | its finite instance, its proofs |
| `Opening`, `Scrub`, `Images`, `Segments`, `Worker`, `Tunnel`, `Offer`, `Residue`, `Join`, `Telemetry`, `FirstBoot`, `Upkeep`, `Certificate`, `Report`, `Sweep` | a part of the host each |
| `Opening_proofs`, `Segments_proofs`, `Worker_proofs`, `Upkeep_proofs` | the proofs about those four |
| `MCHost` | the host: one instance of each of the fifteen, made finite by `host.cfg` |
| `Host_proofs` | the proofs about the host, and of the parts with no module of proofs of their own |

Definitions marked *Slip* in the modules are wrong variants used by the mutant
runs: each names a bug the code could have (several it once had, by its own
comments) and shows that a property would notice it. They are no part of the
specifications.

### RunLease

*State and code.* `leases`, `deadline`, `stopped` are the `Book` of `lease.rs`;
`fileIds`/`fileUntil`/`fileAt` are `run-lease.json`; `lock` is the `flock` of
`open_lock`; `task` is the lease task (`down`, `locking`, `idle`, `checking`)
and `queue`/`stopping` are the loop of `check` and the stop it awaits; the loop's
variables are one reconcile pass with its view, the moment it asked and the moment
of each read. Time is one clock, `now`; deadlines are moments on it.

*Steps.* Core answers a view with a length (`CoreAnswers`), or the answer is late
(`Receive` happens any time up to `AnswerTime` later; the lease counts from the
moment of asking, `Asked::now`). `Renew` is `apply`: leased machines get the later
of the old and new deadline, released ones are dropped. `CheckBegins`,
`StopLeased`, `MarkStopped`, `StopFails` and `WriteFile` are `check`, one await at a
time. `TimerDefers`, `TimerActs`, `TimerStops`, `TimerEnds` are the timer's `pass`.
`Crash` and `Start` lose memory and the lock and resume the file.

*Bounds.* One machine: machines meet only inside sequential loops. One unit of time
is about half a minute. `MaxTime` (8 in `lease_prompt`, 3 in `lease_any`) lets a
lease of length 2 be given, renewed, run out, and be stopped by either party;
`MaxCrashes` is 1. `T` is the promised longest length.

*What the runs show.*
- `lease_prompt`: calls are instantaneous, the agent may die once. A machine whose
  lease reached the file is down within `WriteEvery + StaleAfter + TimerEvery` of its
  deadline (`WrittenLeaseIsKept`) and nothing starts one past its deadline
  (`NeverStartedPastItsLease`).
- `lease_any`: calls take time and fail, lengths change, a view may be applied in
  the middle of a check. Task and timer never act at once (`NeverBoth`), no lease of
  a machine Core let go outlives that moment by more than `T`
  (`NoLeaseOutlivesItsView`), none is ever shortened (`NeverMovedBack`).
- `lease_mark_race` (violation): a view renews a lease while its stop is awaited;
  the answer marks the *renewed* lease as stopped and nobody stops the machine again.
- `lease_unwritten` (violation): a lease taken and not yet written dies with the agent.

`NeverStartedPastItsLease` is checked where a loop of calls takes no time
(`CallTime = 0`); with `CallTime = 1` maintenance, which filters once before its
loop, can start a machine whose lease ran out inside it (a hazard, `agent.rs` 3866).

### MachineLife

*State and code.* `guest[v]` is what stands at a VMID: whether it carries the
machine's tags (`claim`), the clone call's description and pool (`stamp`), whether
this agent's clone call made it (`mine`), whether it was configured (`conf`) and
runs (`up`). `task[v]` is the number's last clone task. `journal[v]` is the record of
`pending.rs`: `asked` is a Cloning record without a task id, `cloning` with one,
`abandoned` a rollback owed. `tomb` is the tombstone: `decided` before the destroy,
`destroyed` with `destroyed_at`, `proven` with `proven_at`. `view` is the pass's view
and the copy kept on disk, `held` the view in memory. `pc` walks through the pass; a
state between two steps is a point where the code awaits a call. `reported` and
`concluded` are what Core was told.

*Steps.* `Fetch`; `Settle*` are the table of `recover_pending`, a disjunct a line;
`Undo*` are `abandon_clone`; `Dispatch` is the match on the intent with its
re-reads; `Ensure*`, `Gate`, `StartFound` converge a machine that is here; `Build`
to `BuildStart` are the create; `CreateFails` leads to its rollback; `Delete*`,
`Licence`, `Doom`, `Destroy`, `Entomb`, `Prove` are `delete_instance` and `tear_down`;
`ReportStatus` ends the pass. `Crash` may come before any step.

*Environment.* Core changes its intent at any time, sends the machine as built once
a report with a number arrived or at its create horizon, and concludes on "deleted"
and "lost". The owner creates, copies and removes guests, but never takes the number
a call of the agent is about to name (no API lets the agent check and act at once).
A clone's guest may appear late in the listing. Core here holds no restores, so a
tombstone is met by the pass and not by restore mode.

*Bounds.* Two numbers: a second clone beside a first, a copy beside the machine, a
number reused. Two faults: the hard cases (a lost answer and then a failed
rollback; a crash and then an unread listing) are pairs. Two acts of the owner: a
clone removed and its number taken. The run visits some 590 000 states.

*Fairness.* `WF(AgentStep)`: the service manager restarts the agent and a pass goes
on; every failing step costs one of the bounded faults, so fairness never relies on a
call that fails for ever succeeding. `WF(CloneStep)`: Proxmox ends a clone task. Core,
the owner and maintenance have none.

*What the runs show.* `life`:
- `OneMachine`: this agent's clones, standing or running, are never two.
- `WhatCoreConcludesIsSo`: after "deleted" or "lost" nothing of it stands or comes.
- `OthersKept`: a guest without the stamp is never tagged, started, stopped or
  destroyed, even at a number the journal names.
- `NeverRebuilt`: no clone after a tombstone or after Core concluded.
- `ReportedIsKept`: what Core was told of is destroyed only under a tombstone or by a
  rollback owed before.
- `AbsentEnds`: a deleted machine is proven gone, withdrawn, or in the operator's
  hands (`Stuck`: an unclaimed clone, or a copy, carries its stamp).

The other three each show the code doing what a comment of it denies:
- `life_late_clone`: a record without a task id is dropped because the listing does
  not show the clone yet, and a second one is made.
- `life_half_made`: a guest claimed and not configured is taken as the machine.
- `life_shell_adopted`: the shell of a failed rollback, found by its claim, is
  reported as built and then rolled back.

In `life` a listing cannot miss a running clone (`LateClones = FALSE`); the first of
these runs is exactly that assumption dropped.

### RestoreHead, RestoreGate, CoreLink

*State and code.* `head` and `armed` are `restore::State`, `headFile` the file beside
it; `RestoreHead` has `arm`, `observe`, `active`, `to_tell` and the boot rule as
functions of one head. `mine` is a session held, `sess` whose session Core honours.
`heldRev`/`heldWant` are the view in memory, `viewFile` `held-view.json`, `lease` and
`leaseFile` the book and `run-lease.json` of the one machine. `pc` is the main task:
`retire`, `shake` (the handshake loop), `joined` (answered, a boot pass perhaps in
flight), then the loop's `idle`, `keep`, `acts`. `rev` and `want` are Core's ledger,
`hold` that Core holds this provider in a restore, `holds` that this Core knows how to.

*Steps.* `Start` and `Retire` are the start and what it does to a view whose lease file
was not resumed; `ShakeUnreachable` and `BootStarts` the boot pass; `Handshake`,
`Rehandshake` and `Finish` the session; `Heartbeat` carries the evidence; `ReadView`,
`KeepView` and `Reread` are a pass: the restore check, the copy on disk, the re-read
(`seen_now`) and the act. `Maintain` is the pass without Core. Core edits its ledger, is
restored from a backup, holds and releases the provider, loses sessions, gives them to
another agent, revokes a token, and is replaced by one that holds no restores.

*Abstract specification.* `RestoreGate` has three variables: a gate (free, evidence
seen, named by Core), whether the Core last handshaken with binds, and the guest. Only
Core ends a restore and only one it named; a guest changes only with the gate free.
`CoreLink!Gate` is its instance and `NoActInARestore == Gate!Spec` a property of the run:
every step of the agent and of Core is a step of the gate or none of its business.
`gate` is a history variable written from what Core *said*, never read by the agent, so
that an agent that misreads a head, or forgets one, fails the refinement.

*Bounds.* Two revisions (one to have acted on and one to go back to), two providers (an
enrolment anew), three faults: a death, a lost file and a second death; a restore around
a death and a lapsed session.

*Fairness.* Weak for what the process does by itself (`Start` by the service manager's
`Restart=always`, `Retire`, `BootStarts`, `Finish`, `StopForGood`) and for the lease of a
session nobody carries running out at Core, which the wait for a held provider counts on.
Strong for `Handshake`, `Rehandshake` and `Heartbeat`: each is retried for ever, and Core
and the network, that may refuse any one, do not refuse them all.

*What the runs show.* `link`: `NoActInARestore`; `NoFalseAlarm` (no order of views,
deletes, deaths and enrolments makes a restore up); `EvidenceIsTold` (what was noticed
reaches Core, over deaths and lost sessions); `LostLeasesStartNothing` (a lease that was on
disk and ran out is never started past, two starts after its file was lost);
`BootNeverRacesTheLoop`. `link_unreadable` (violation): a head that cannot be read is held
as a restore with no provider, and the first handshake drops it with its mode.

### The parts of a host

Each module below shares no variable with another and is a specification of its own.
`MCHost` puts them together: a behaviour picks one `component`, which moves under its own
fairness, so one run asks all their questions and no product of their states is built.
The components with a property of the end have variables of their own and stay as they
began while another moves; those with safety only (Offer, Residue, Join, Telemetry,
FirstBoot, Upkeep) take turns at one set of variables, `v1` to `v16`, through `INSTANCE
... WITH`, and their properties speak when it is their turn. Nothing is lost by that:
where two parts meet in the code (the journal that scrub and loop share, the mirror and
the owner's guest at one number, the reconcile loop and the tunnel's routes), both sides
are in one module. What a module takes as external is in its header. The bounds are
constants of `MCHost`, each given in `host.cfg` and with a budget of its own, shared by
everything that may fail. What is proved of `MCHost` holds for every value of them.
`MCHost` instantiates four of the parts through the modules of their proofs, which declare
nothing but lemmas and theorems.

- **Opening** (2 machines, 2 ports, one failed write, one death or edit of agent.yaml).
  `round` walks a pass; `book` is the memory, `json` the file, `table` what the kernel
  holds. `Applier` is `onv-opening`, a process of its own: every change of the file wakes
  it (`woken`), and some time later it replaces the whole table with `Translated`; a file
  that repeats a port, or names one out of the range, is refused whole and the table
  removed. That systemd runs it whenever it was woken, and again for a change written
  while it ran, is assumed (`WF` of `Applier`). `PortOfOne`: two machines that stand never
  name one port. `GoneIsClosed`: a machine gone for good leaves the kernel's table, unless
  a write failed. `lapsed` names the two cases in which the code gives a port twice
  knowingly: a record settled after its port was dropped, and a machine made while the
  file could not be written.
- **Scrub** (2 numbers, three attempts in all, one fault). The card task and the
  reconcile loop run interleaved on one journal. `SoldCardIsClean`: the tenant never meets
  a scrub guest configured with its card, and an attempt is recorded clean only on that
  attempt's own word. `EveryScrubEnds`. A settle in the middle of a scrub counts as the
  fault: it does all that a failing call does, and comes at any point.
- **Images** (2 digests, one republication, two troubles). A file is the set of sources
  its bytes came from, so a transfer resumed over a republication is visible.
  `HeldIsWhole`; `MirrorSettles`: the owner's guest at the number is never taken, and the
  provider comes to hold what Core published. Weak fairness of the pass and of the
  mirror's task.
- **Segments** (two networks, three names, two of them wanted by both; two mishaps).
  `OwnSegment`: a machine is plugged into a live segment of its own network, through
  reaps, applies that stop half way and deaths; `WantedIsPlugged`. Fair: passes, and a
  reload that was asked for.
- **Worker** (2 numbers, two sets of arguments, two breaks). The create and its journal
  again, with what is its own: no sanctioned restart but a re-boot for new arguments, a
  route while it serves, and Core's concluding on "lost". `OneWorkerOrNone`,
  `ServesAsAsked`. The operator removes what only the operator may; clones end; a worker
  comes to serve, if it booted with arguments at all. The code fails in two cases.
  `SyncFails` is FALSE here; `worker_stale_args` (violation) sets it: a refresh that failed,
  or was cut short by the agent's death, after its snippet was written is never made again.
  And `worker.rs` 792-820 claims a worker in one call and configures it in a later one: an
  agent that dies between them leaves a guest whose record is dropped as a complete machine's
  (`instance.rs` 1378), which is started as the template made it, and which no refresh
  reaches, since its snippet was written before the clone. It never serves. That death is in
  the model, `halfMade` is the history of it, and `ServesAsAsked` promises nothing after it;
  `OneWorkerOrNone` still holds. `life_half_made` shows the same gap of a machine's create.
- **Tunnel** (2 ids, 2 connections). A console is three tasks over two tables.
  `LetGoCloses`: Core can end every task of its connection, a console that is over holds no
  input, and what was cancelled, cut or lost with its connection is closed at the
  hypervisor, at the latest when the machine next speaks. Fair: the tasks, which the
  runtime schedules; not Core, the buyer or the machine.
- **Offer** (2 machines, the owner's guest, one glitch). A survey reads guests one at a
  time while the owner starts, stops and configures theirs. `OneHolder`: a card is offered
  past, or placed on, only if no other guest held it all the while the guests were read, and
  never configured into two of Core's machines. Safety only.
- **Residue** (2 machines at one number, two hitches). `ResidueIsOwn`: a residue that was
  closed is gone, and no look removes a volume in use, although the number, and so the
  volume's name, is given again.
- **Join** (unbounded: the state is finite). Both commands as lists of steps, each
  failing or cut anywhere, in any order, beside the service. `ServesOrLeft`: a leave that
  Core took cuts no machine off, and a join that ended whole leaves agent and timer with
  the standing tokens' secrets.
- **Telemetry** (a report each 2 ticks and 2 of probing, a poll of 1 tick, three reads to
  be stuck, passes at any time). `CheckedTimings` is the check of `timings.rs` as it is,
  `ReportEvery =< Patience`, where `Patience` is `StuckAfter` polls; nothing else is assumed
  of the durations. `ShownWhileItMoves`: what a worker says is shown for `StuckAfter` reads at
  most after it was written; and while its reporter lives and is heard (its last write
  succeeded and looks different) it is dropped only if its next report is due and has not
  come for the whole patience, or a read without progress came sooner than a poll (`hasty`).
  Both exceptions occur in the run, and both are short of what the comment of the check says
  (`timings.rs` 264-266: a report moves between the reads that could call it stuck, and reads
  come at least a poll apart). The check leaves out the probes, after which the reporter
  sleeps: with the defaults, 15 s and two probes of 10 s each, a report may come 35 s
  after the last, past three reads of 10 s, and a living reporter is read as a dead one.
  And Core's nudges, and the follow-ups of a delete's proof or of an install, bring passes
  that read again sooner than a poll (`agent.rs` 1058-1061).
- **FirstBoot** (a GPU machine of each kind, containers on Linux). `DoneIsDone`: "done" is
  said only after one run whose every step ended well, except for joining the overlay;
  over drives rewritten, reboots and half-written files; a login is said whole.
- **Upkeep** (2 tokens, 2 ticks, 1 password). `RebootedOnce`: Proxmox is asked once a
  token; a token is echoed only of a guest that booted since, give or take a pass.
- **Certificate** (a timer's run and first boot's, 2 certificates, 2 lapses).
  `CertificateServed`: the front comes to serve the last one. Fair: each run, as systemd
  starts the one and first boot repeats the other.
- **Report** (2 machines, one standing at first; periods 2 to 3; 2 reports on the wire, 2
  edits, 1 hitch). `CoreIsTold`: nothing that stands is taken for gone whatever failed, was
  lost or overtaken, and Core comes to know every machine here, the unclaimed ones too.
  Fair: passes, the report task's clock, and a report on its way arriving.
- **Sweep** (a machine and a worker, 3 edits, 2 hitches). `BootFilesFollow`: no machine
  loses a file its configuration names before a delete of it began, and in the end what
  is wanted has its file and what is not has left none. Fair: passes.

`CoreIsTold` and `BootFilesFollow` speak of the end, so Core's edits and the failures are
finite there; every failure is one of a bounded budget, and fairness never asks a call
that always fails to succeed.

## 3. What is proved

`RunLease_proofs`, for every set of machines, every length and every duration:

- `TypeCorrect`: `Spec => []TypeOK`.
- `LockExclusion`: `Spec => [](LockOpens => NeverBoth)`: under the assumption that
  the lock file can be opened. The inductive fact is `LockHeld`: while the task is
  past `locking`, the lock is the agent's. The timer acts only while the lock is its
  own, and a crash frees the agent's, so nothing weaker is preserved by `Crash` and
  `TimerActs` together.
- `LeaseBounded`: `Spec => []NoLeaseOutlivesItsView`. The property speaks of the book
  only and is not inductive: a deadline comes from a view in the loop's hand, from the
  file after a restart, or from an answer on its way. `Bounded` puts the same bound on
  all of them, by the last moment Core could still have named the machine leased
  (`Latest`), and is preserved by every action since a lease counts from the asking.
- `LeaseNeverShortened`: `Spec => NeverMovedBack`: an action property, whose one hard
  step is `Renew`'s maximum.
- `StartedInsideItsLease`: `Timely => (Spec => NeverStartedPastItsLease)`. `Timely` is
  what `lease_prompt` runs with: a loop of calls takes no time, a pass is shorter than
  every lease, an answer no later than a pass, and the lock opens. `Clocks` (no party's
  next moment is past) and `Startable` (what is to be started has a lease past the end of
  the pass, or of the instant) are the invariant.
- `WrittenLeaseEnds`, `WrittenLeaseKept`: `Prompt => (Spec => [](now <= DownBy(m)))` for
  a machine that runs on a lease the file has, from which `WrittenLeaseIsKept` follows for
  at most one death. `Prompt` adds to `Timely` that no view is applied in the middle of a
  check, no stop fails, and Core lists no machine again that it had unlisted: the races of
  `lease_mark_race` dropped. This is the bound `onv-lease-expire` derives in its comment,
  and it takes all of `Inductive`: the two above; `Heard`, an answer names no more than
  Core still lists; `FileFollows`, how book and file differ; `Stops`, a stopped machine is
  down and a check has every expired one before it; `DurableKept`, what the file knows;
  and `InTime`, who stops the machine next and by when: the living agent at its next look,
  or the timer at its next run once the file is stale. Each death may cost one more run.

`MachineLife_proofs`, for every set of numbers and every
bound on faults and on the owner's acts. Every safety property that the run `life`
checks is proved, each from an invariant that is kept by every step:

- `TypeCorrect`: `Spec => []TypeOK`. `TypeOK` says that nothing of a pass is kept
  between passes, so it needs `NothingLeft`: no record is left to settle when the pass
  reports.
- `OthersAreKept`: `Spec => OthersKept`, from `Stamps`: a guest that is claimed, that
  a clone call made, or that a running clone has shown carries the stamp, and so does
  the guest the pass is at. The one exception is a rollback met in the journal
  (`undoSettle`), whose number may be anybody's by now; `abandon_clone` reads the stamp
  there, and without that guard the property is false (`UndoWhatever` shows it).
- `NothingRebuilt`: `Spec => NeverRebuilt`, from `History`: what the pass knew of the
  tombstone and of Core's word when it took its view still holds when its clone call
  goes out, because Core never takes `built` back and concludes only on a report.
- `OneMachineEver`: `LateClones = FALSE` and `Spec` give `[]OneMachine`. `OneMachine`
  alone is not inductive: a build adds a clone, and must find none. `Recorded` ties
  every running clone to the listing or to the journal, `Stamps` every one in the
  listing to a claim or a stamp, so a build that finds no claim, no stamp and no record
  finds nothing (`NothingLeftOfIt`). `Tasks` carries `Recorded` through the destroys:
  whatever the agent destroys or forgets, its clone has ended. The assumption is the one
  `life_late_clone` drops.
- `ConclusionsAreSo`: under the same assumption `[]WhatCoreConcludesIsSo`, from
  `OverIsSo`: it already holds when the pass says "gone" or "lost", before Core hears it.
- `ReportedKept`: `Spec => ReportedIsKept`, from `Told`: what is reported is claimed and
  its clone is over, a number being built was not reported, and a destroy has its
  tombstone.

Only clone calls add to what stands of a machine (`MadeStep`); that lemma lets the last
invariants look at two actions in place of fifty.

`CoreLink_proofs`, for every set of providers, every last revision and every number of
faults:

- `TypeCorrect`: `[]TypeOK`, in four parts (Core, files, process, the rest).
- `BootIsWaitedFor`: `[]BootNeverRacesTheLoop`, which is inductive as it stands.
- `NoFalseAlarms`: `[]NoFalseAlarm`, from two strengthenings. `HeadsAgree`: a living
  agent's head is its file's, and one that is armed is of the provider the token is for.
  `LedgerFollowed`: while the ledger was never restored, no revision the agent holds, in
  its head or in its view, is ahead of it, and what the agent tore down is not wanted.
- `OutIsNotStarted`: `Spec => LostLeasesStartNothing`. `OutIsKnown` says how a lease that
  ran out on disk goes on being known: as run out, in the file and in the book; or the
  file is lost and no living agent is past its start; or no view, in hand or on disk,
  would start a machine. The middle case is why the view is retired before the first
  write.
- `ImplementsGate`: `~HeadsTear /\ Spec => NoActInARestore`, the refinement of
  `RestoreGate`. `GateFollowed` ties the two: a head of the provider the agent is
  enrolled as says what the gate says, a head of another says nothing yet, and the bit
  kept beside the head lets a boot pass act only if the gate is free or nothing binds.
  Each step is then a step of the gate or leaves its variables alone. The assumption is
  the one `link_unreadable` drops.

Of the parts of a host, four have a module of proofs; each states `TypeCorrect` and its
safety under the assumption the module makes on its constants:

- `Opening_proofs.OnePortEach`: `[]PortOfOne`. The property speaks of what stands; the
  invariant `BookIsTrue` is about the books in memory and on disk: each gives a port once
  (`OneEach`) and names every machine that stands (`BookNames`), but for those that `lapsed`
  tells of; and the sweep of a pass misses none (`PassKnows`).
- `Segments_proofs.OwnSegmentOnly`: `[]OwnSegment`. `InHand` says what a turn carries at
  each step; `Plugging`, that the segment in hand is the network's own, or free until it is
  applied, and that a reap has nothing plugged into what it is about to remove.
- `Worker_proofs.OneOrNone`: `[]OneWorkerOrNone`. As in `MachineLife`, one worker is not
  inductive; `Knows` says of each step what it relies on: the clone in hand and its record
  (`NumberInHand`), that a create began from nothing (`FromNothing`), what "lost" and
  "gone" mean before Core hears them (`WordIsSo`), and that nothing of the worker comes
  back once it did (`Through`).
- `Upkeep_proofs.OneReboot`: `[]RebootedOnce`. `TokensGrow`: a
  token asked for is the record's or older than any to come, so it is not asked for again;
  `DoneHappened`: of a record that is done, the guest that runs booted since, give or take
  the slack and the length of a pass.

`Host_proofs`, for `MCHost` with any constants that `HostAssumption` allows, which is the
conjunction of its parts' assumptions. A part moves or is as it was (`OwnParts`,
`TurnParts`), so the four theorems carry over (`PortsOfOne`, `SegmentsOwn`, `WorkerIsOne`,
`RebootsOnce`); the others are proved here over the host's own variables:

- `MirrorHoldsWhole`: `[]HeldIsWhole`, from `ImportFollows`: while an import runs its file
  has the bytes of its digest and nothing else, and from its disk on a template has the
  bytes its marker names.
- `ShownWhileAlive`: `[]ShownWhileItMoves`, for every interval, poll and patience that the
  code's check admits, however long the probes take and whenever passes come. One clock is
  the reporter's and the other counts reads; `ReadsFollow` says how far they drift: while
  reads are a poll apart, reads times `ReadEvery` never pass the report's age. So a reporter
  is counted out only at an age of the whole patience, and the code's check then says that
  its next report is due. That it has come by then is not true, and not proved.
- `HostServesOrLeft`: `[]ServesOrLeft`, from `JoinGives`, which secrets a join has given at
  each of its steps, and `LeaveKnows`: past its look at the pools a leave meets only
  machines Core still sells, and one that Core took meets none.
- `InstalledIsWhole`: `[]DoneIsDone`, from `RunFollows`: a run has every step before its own
  behind it, the overlay's excepted, and the file says `ok` only after a whole one.
- `OfferHasOneHolder`: `[]OneHolder`. `SurveyTells`: a guest that held the card through all
  of a survey is shown in it, is among what it could not read, or the survey is incomplete.
  `BuildKnows`: what a create may rely on at each step, up to the configuration; `OneCarries`:
  one machine carries the card.
- `ResiduesAreOwn`: `[]ResidueIsOwn`. A volume's name is of the guest's number and comes
  again. `VolumesAreNamed`: a volume is of the machine that stands or is named by the
  tombstone of one that left it, and a machine has one at most; `LookKnows`: what is true
  at each step of a look of the volume in hand; `ResiduesAreLeft`: a residue whose volume
  still stands is known to be left. A number is free for a new machine by counting:
  there are as many as machines, and this one has no volume (`FirstIsFree`).
- `CardIsSoldClean`: `[]SoldCardIsClean`. `AsksForward`: what is recorded, held or in hand
  is of no later attempt than Core's; `CardGiven`: one scrub guest has the card, and the
  one that runs, or that said it is clean, has it; `CleanIsSaid`: a clean outcome is
  the word of a guest of its own attempt; `ConcludedIsFree`: once an attempt is known to be
  clean the card is out of every guest and none is being made, which a settle of the
  journal in the middle of a scrub must not undo.
- `OwnersGuestIsKept`: what `MirrorSettles` says of every step (`OwnersStand`): an import's calls ask for a guest of
  its own or for none, and `ImagesAssumption` keeps the owner's apart from both.
- `ConsolesAreReached`, `StandingIsNotGone`, `FilesAreWhole`: what `LetGoCloses`,
  `CoreIsTold` and `BootFilesFollow` say of every state, as `[]` of it. `Tunnelling`: who is
  told to abort was let go of, and an input is held only by a console past its insertion.
  `GoneHaveEnded`: what is said gone, in the pass, on the wire or in Core's ledger, has ended
  for good: no later view wants it, no pass under way would build it. `SweepSaw`: a pass that
  calls its view complete has looked since its workers were done, so that the mark of an
  earlier look is never taken for this one's; `PassWrote`: what a create wrote stays until
  its configuration names it. In this host no worker is of the old naming (`Old` is empty).
- `TypeCorrect`: `[]TypeOK` of the whole host. It gathers the invariants of all parts
  (`PartsKeep`, `TurnKeeps`), since several types rest on one. Its proof found that
  `Report` could begin with a period Core cannot say, unless `Ceiling \in Words`, which
  `ReportAssumption` now asks.

The auxiliary invariants of `OfferHasOneHolder`, `ResiduesAreOwn` and `CardIsSoldClean` are
those of the modules, named there, and each was checked by TLC before it was proved.

Assumptions on the constants are named in the modules that declare them and evaluated
by the runs. Every invariant a passing run checks, and every action property, is stated by a
theorem or implied by one. Only model-checked: what speaks of the end and rests on
fairness, which the prover cannot do: `AbsentEnds`, `EvidenceIsTold`, `GoneIsClosed`,
`EveryScrubEnds`, `WantedIsPlugged`, `ServesAsAsked`, `CertificateServed` and the liveness
in `MirrorSettles`, `LetGoCloses`, `CoreIsTold` and `BootFilesFollow`.

## 4. What is not modelled, and why

Whole components, each with its reason in `PROJECT.json`: configuration, names, timings,
audit, TLS, packaging. They parse, format and log.

Beside a component:

- `MachineLife`: the hour's cap on destroys of running machines, which is one of the ways a
  destroy fails (a hazard without a property); the reaping of tombstones, twelve-digit twins, placement among nodes
  (its outcome, `Unplaceable`, is there). A clone request delayed on the wire past its
  being given up. A second agent on the same token. The owner acting between the agent's
  check of a number and its call on it: no API of the hypervisor closes that window.
  A withdrawn delete that has removed its reboot and password records and its network
  file (a hazard without a property).
- `RunLease`: the timer's dry run and token, two machines, a lock file that cannot be
  opened at all. A clock that is moved: the code takes monotonic moments, except for the
  file, whose age is a wall clock's.
- `CoreLink`: a head that cannot be saved; protocol negotiation; the report of a
  restore, which is `Report`'s.
- `Report`: two starts in one second, which would share a generation; systemd's ten
  seconds between starts rule it out. A period made shorter is heeded only after the tick
  of the longer one.
- `Opening`: an unreadable file, a node offline while guests are listed. `Segments`: more
  than one node, a vnet changed by hand. `Sweep`: machines on a node the sweep does not
  observe; the Windows metadata file, which goes with the network's. `Upkeep`: a record
  that cannot be read, which the code takes for none. `FirstBoot`: an install cut by a
  power loss, which the agent follows as running for ever. `Join`: an agent that runs
  already, which the command's `enable --now` does not restart. `Tunnel`: full channels.
- The whole pass over all items at once: each module has the machines it needs, and what
  items share (the journal, a view, a number) is in it.

## 5. Plan

What is left, in order:

1. `Machine`, the abstract machine (absent, building, built, deleted, lost, as Core sees
   it), which `MachineLife` implements by a refinement mapping on `guest`, `tomb` and
   `concluded`.
2. `MachineLife` composed with `RunLease` for two providers, so that "never running
   twice" is a property of the whole.
3. The reaping of tombstones in `MachineLife`, and the delete's other records.
