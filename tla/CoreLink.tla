------------------------------ MODULE CoreLink ------------------------------
(***************************************************************************)
(* One provider agent and Core (src/src/agent.rs, heldview.rs,             *)
(* crates/onv-core-link): the handshake and its session, the heartbeat,    *)
(* the view and the re-read before an act, restore mode, maintenance from  *)
(* the view in memory, and at start from the view and the lease file kept  *)
(* on disk, over deaths of the agent.                                      *)
(*                                                                         *)
(* Core is external: a ledger with a revision, which a person may restore  *)
(* from a backup.  One machine stands for all; its build and destroy are   *)
(* one step here and MachineLife's subject.  An answer is taken at the     *)
(* moment it is made, except that the ledger may move between any two      *)
(* calls.                                                                  *)
(***************************************************************************)
EXTENDS RestoreHead

CONSTANTS
  Enrolled,      \* the provider the host was first enrolled as
  MaxRev,        \* bound: Core's last revision
  MaxFaults,     \* bound: faults, below
  HeadsTear      \* whether restore-head.json may be found unreadable

ASSUME BoundsAssumption ==
  /\ MaxRev \in Nat \ {0} /\ MaxFaults \in Nat
  /\ HeadsTear \in BOOLEAN /\ Enrolled \in Providers

Wants == {"Running", "Absent"}
NoRevision == 0                    \* "no view in hand", "no body"

VARIABLES
  rev, want,                       \* Core's ledger
  hold,                            \* whether Core holds this provider in a restore
  holds,                           \* whether this Core holds restores at all
  provider,                        \* the provider the token is for
  sess,                            \* whose session Core honours
  wentBack,                        \* history: the ledger was restored
  headFile, viewFile, leaseFile,   \* restore-head.json, held-view.json, run-lease.json
  torn,                            \* a tombstone: this agent tore the machine down
  guest,                           \* the machine on this host
  pc,                              \* the agent: where its main task is
  head, armed,                     \* restore::State
  mine,                            \* session::Session: a session is held
  heldRev, heldWant,               \* the view in memory
  lease, resumed,                  \* lease::Book, and what the resume found
  boot,                            \* the boot task's pass in flight
  faults,
  gate, binding, acted,            \* history: RestoreGate's state
  outKnown                         \* history: a lease on disk ran out

core == <<rev, want, hold, holds, provider, sess, wentBack>>
disk == <<headFile, viewFile, leaseFile, torn>>
proc == <<pc, head, armed, mine, heldRev, heldWant, lease, resumed, boot>>
hist == <<gate, binding, acted, outKnown>>
vars == <<core, disk, guest, proc, faults, hist>>

(* run-lease.json and the book: no lease of this machine, one that runs,   *)
(* one that ran out.  "lost": the file is missing or refused.              *)
Leases == {"none", "runs", "out"}

TypeOK ==
  /\ rev \in 1 .. MaxRev /\ want \in Wants
  /\ hold \in BOOLEAN /\ holds \in BOOLEAN
  /\ provider \in Providers /\ wentBack \in BOOLEAN
  /\ sess \in {"none", "mine", "other", "revoked"}
  /\ headFile \in Heads /\ viewFile \in Wants \cup {"none"}
  /\ leaseFile \in Leases \cup {"lost"} /\ torn \in BOOLEAN
  /\ guest \in {"none", "down", "up"}
  /\ pc \in {"dead", "stopped", "retire", "shake", "joined", "idle", "keep", "acts"}
  /\ head \in Heads /\ armed \in BOOLEAN /\ mine \in BOOLEAN
  /\ heldRev \in 0 .. MaxRev /\ heldWant \in Wants
  /\ lease \in Leases /\ resumed \in BOOLEAN
  /\ boot \in {"idle", "starting"} /\ faults \in 0 .. MaxFaults
  /\ gate \in {"free", "seen", "named"} /\ binding \in BOOLEAN
  /\ acted \in 0 .. MaxRev /\ outKnown \in BOOLEAN

Loop == {"idle", "keep", "acts"}
Alive == pc \notin {"dead", "stopped"}

Init ==
  /\ rev = 1 /\ want = "Running"
  /\ hold = FALSE /\ holds = TRUE /\ provider = Enrolled
  /\ sess = "none" /\ wentBack = FALSE
  /\ headFile = NoHead /\ viewFile = "none" /\ leaseFile = "lost"
  /\ torn = FALSE /\ guest = "none"
  /\ pc = "dead" /\ head = NoHead /\ armed = FALSE /\ mine = FALSE
  /\ heldRev = NoRevision /\ heldWant = "Absent"
  /\ lease = "none" /\ resumed = FALSE /\ boot = "idle" /\ faults = 0
  /\ gate = "free" /\ binding = FALSE /\ acted = 0 /\ outKnown = FALSE

---------------------------------------------------------------------------
(* Core, external.  Absent is final; a revision only increases, but for a  *)
(* restore, after which the ledger is the backup's.                        *)
Edit(w) ==
  /\ rev < MaxRev /\ (want = "Absent" => w = "Absent")
  /\ rev' = rev + 1 /\ want' = w
  /\ UNCHANGED <<hold, holds, provider, sess, wentBack>>
RestoreLedger ==
  /\ wentBack' = TRUE
  /\ rev' \in 1 .. rev - 1
  /\ want' = "Running" \/ (want = "Absent" /\ rev' > 1 /\ want' = want)
  /\ UNCHANGED <<hold, holds, provider, sess>>
HoldProvider ==
  /\ holds /\ hold' = TRUE
  /\ UNCHANGED <<rev, want, holds, provider, sess, wentBack>>
EndHold ==
  /\ hold /\ hold' = FALSE
  /\ UNCHANGED <<rev, want, holds, provider, sess, wentBack>>
SwitchRestores ==
  /\ holds' = ~holds /\ hold' = FALSE
  /\ UNCHANGED <<rev, want, provider, sess, wentBack>>
\* A session runs out or is lost; another agent takes over; the token is
\* revoked.
Lapse == sess \in {"mine", "other"} /\ sess' = "none"
Takeover == sess = "none" /\ mine /\ sess' = "other"
Revoke == mine /\ sess' = "revoked"
Session ==
  /\ Lapse \/ Takeover \/ Revoke
  /\ UNCHANGED <<rev, want, hold, holds, provider, wentBack>>

\* A fault is spent on a restore, a switch, another agent or a revoked
\* token, a session lost under the agent that holds it, a death, a lost file.
Fault == faults < MaxFaults /\ faults' = faults + 1
CoreMoves ==
  /\ \/ \E w \in Wants : Edit(w) /\ UNCHANGED faults
     \/ (HoldProvider \/ EndHold) /\ UNCHANGED faults
     \/ (RestoreLedger \/ SwitchRestores \/ (Session /\ mine)) /\ Fault
  /\ UNCHANGED <<disk, guest, proc, hist>>
\* The takeover lease of a session no agent here carries runs out.
TakeoverLeaseEnds ==
  /\ ~mine /\ Session
  /\ UNCHANGED <<disk, guest, proc, faults, hist>>

\* How Core answers an authenticated call, when it can be reached.
Answer ==
  IF sess = "mine" /\ mine THEN "ok"
  ELSE IF sess = "other" /\ mine THEN "superseded"
  ELSE "refused"
---------------------------------------------------------------------------
\* What the process held is gone with it.
Forgets ==
  /\ head' = NoHead /\ armed' = FALSE /\ mine' = FALSE
  /\ heldRev' = NoRevision /\ heldWant' = "Absent"
  /\ lease' = "none" /\ resumed' = FALSE /\ boot' = "idle"

(* The start: restore::load, lease::spawn's resume, and the held view      *)
(* retired, before the lease task's first write, when the lease file was   *)
(* not resumed.                                                            *)
Start ==
  /\ pc = "dead"
  /\ pc' = IF leaseFile = "lost" THEN "retire" ELSE "shake"
  /\ head' = headFile
  /\ lease' = IF leaseFile = "lost" THEN "none" ELSE leaseFile
  /\ resumed' = (leaseFile # "lost")
  /\ UNCHANGED <<core, disk, guest, armed, mine, heldRev, heldWant, boot,
                 faults, hist>>

\* Slip: the view is kept beside a lease file that was not resumed.
RetireNothing(v) == v
Retired(v) == "none"
Retire ==
  /\ pc = "retire" /\ pc' = "shake" /\ viewFile' = Retired(viewFile)
  /\ UNCHANGED <<core, headFile, leaseFile, torn, guest, head, armed, mine,
                 heldRev, heldWant, lease, resumed, boot, faults, hist>>

\* The lease task's write: only what the book holds.
WriteLeases ==
  /\ Alive /\ pc # "retire" /\ leaseFile # lease /\ leaseFile' = lease
  /\ UNCHANGED <<core, headFile, viewFile, torn, guest, proc, faults, hist>>

(* A lease runs out, in the book and, by the same clock, on disk; the      *)
(* lease task, or the host timer, stops the machine (RunLease).            *)
\* Slip: a lease that ran out reads as a file that is not there.
RunsOutLost(l) == IF l = "runs" THEN "lost" ELSE l
RunsOut(l) == IF l = "runs" THEN "out" ELSE l
LeaseRunsOut ==
  /\ boot = "idle" /\ "runs" \in {lease, leaseFile}
  /\ lease' = RunsOut(lease) /\ leaseFile' = RunsOut(leaseFile)
  /\ outKnown' = (outKnown \/ leaseFile = "runs")
  /\ guest' = IF guest = "up" THEN "down" ELSE guest
  /\ UNCHANGED <<core, headFile, viewFile, torn, pc, head, armed, mine,
                 heldRev, heldWant, resumed, boot, faults, gate, binding, acted>>

(* A boot pass (heldview::pass), each time a handshake finds Core          *)
(* unreachable: every gate, then starts only.                              *)
BootMayStart ==
  /\ resumed /\ ~HeldAtBoot(head)
  /\ viewFile = "Running" /\ lease # "out"
ShakeUnreachable ==
  /\ pc = "shake" /\ boot = "idle" /\ BootMayStart
  /\ boot' = "starting"
  /\ UNCHANGED <<core, disk, guest, pc, head, armed, mine, heldRev, heldWant,
                 lease, resumed, faults, hist>>
BootStarts ==
  /\ boot = "starting" /\ boot' = "idle"
  /\ guest' = IF guest = "down" THEN "up" ELSE guest
  /\ UNCHANGED <<core, disk, pc, head, armed, mine, heldRev, heldWant,
                 lease, resumed, faults, hist>>
\* heldview::read refuses a view older than heldViewMaxAge: as none.
ViewAges ==
  /\ viewFile = "Running" /\ viewFile' = "none"
  /\ UNCHANGED <<core, headFile, leaseFile, torn, guest, proc, faults, hist>>

(* The handshake.  A provider another session holds is waited for; a       *)
(* revoked token is final.  Its answer replaces the session and arms or    *)
(* disarms restore detection, which keeps the bit beside the head.         *)
OnDisk == headFile # NoHead
HeardHandshake ==
  /\ sess' = "mine" /\ mine' = TRUE
  /\ armed' = holds
  /\ head' = Arm(head, holds, provider, OnDisk)
  /\ headFile' = Arm(head, holds, provider, OnDisk)
Handshake ==
  /\ pc = "shake" /\ sess = "none"
  /\ HeardHandshake /\ pc' = "joined"
  /\ binding' = (binding /\ holds)       \* it binds the loop, from Finish
  /\ UNCHANGED <<rev, want, hold, holds, provider, wentBack, viewFile,
                 leaseFile, torn, guest, heldRev, heldWant, lease, resumed,
                 boot, faults, gate, acted, outKnown>>
\* Boot::finish: a boot pass in flight finishes before the loop decides.
\* Slip: the task is left behind.
BootLeftBehind == TRUE
BootFinished == boot = "idle"
Finish ==
  /\ pc = "joined" /\ BootFinished /\ pc' = "idle"
  /\ binding' = armed
  /\ UNCHANGED <<core, disk, guest, head, armed, mine, heldRev, heldWant,
                 lease, resumed, boot, faults, gate, acted, outKnown>>
\* 401 or 426 on a heartbeat, 426 on a view: the handshake again, beside
\* whatever the loop is doing.
Rehandshake ==
  /\ pc \in Loop /\ Answer = "refused" /\ sess = "none"
  /\ HeardHandshake /\ binding' = holds
  /\ UNCHANGED <<rev, want, hold, holds, provider, wentBack, viewFile,
                 leaseFile, torn, guest, pc, heldRev, heldWant, lease, resumed,
                 boot, faults, gate, acted, outKnown>>
\* stop_for_good, exit 3: a handshake refused for good, or a session another
\* agent took over, read by the heartbeat or the loop.  systemd leaves it.
StopForGood ==
  /\ \/ pc = "shake" /\ sess = "revoked" /\ BootFinished
     \/ pc \in Loop /\ sess = "revoked"
     \/ pc \in Loop /\ Answer = "superseded"
  /\ pc' = "stopped" /\ Forgets
  /\ UNCHANGED <<core, disk, guest, faults, hist>>
\* A heartbeat Core takes, with the evidence every call carries until Core
\* names the restore back.
Heartbeat ==
  /\ pc \in Loop /\ Answer = "ok" /\ ToTell(armed, head) /\ holds /\ ~hold
  /\ hold' = TRUE
  /\ UNCHANGED <<rev, want, holds, provider, sess, wentBack, disk,
                 guest, proc, faults, hist>>
---------------------------------------------------------------------------
(* The view, read against the head.  The pass reads the view in hand when  *)
(* Core answers `unchanged`, so its answer always has a body.              *)
Unchanged == heldRev = rev
GateAfter(unchanged, wantedAgain) ==
  IF ~armed THEN gate
  ELSE IF hold THEN "named"
  ELSE IF gate = "named" THEN "free"
  ELSE IF gate = "free" /\ ~unchanged /\ (rev < acted \/ wantedAgain) THEN "seen"
  ELSE gate
ActedAfter(unchanged, wantedAgain) ==
  IF ~armed \/ unchanged THEN acted
  ELSE IF ~hold /\ gate = "named" THEN rev
  ELSE IF gate = "free" /\ GateAfter(unchanged, wantedAgain) \in {"free", "named"}
          /\ rev >= acted /\ ~wantedAgain THEN rev
  ELSE acted
SeenAs(unchanged, wantedAgain) ==
  /\ head' = IF armed THEN Observe(head, unchanged, rev, hold, wantedAgain) ELSE head
  /\ headFile' = IF armed /\ head' # head THEN head' ELSE headFile
  /\ gate' = GateAfter(unchanged, wantedAgain)
  /\ acted' = ActedAfter(unchanged, wantedAgain)

ReadView ==
  /\ pc = "idle" /\ Answer = "ok"
  /\ heldRev' = rev /\ heldWant' = IF Unchanged THEN heldWant ELSE want
  /\ lease' = IF heldWant' = "Running" THEN "runs" ELSE lease
  /\ outKnown' = FALSE
  /\ SeenAs(FALSE, torn /\ heldWant' = "Running")
  /\ pc' = IF Active(armed, head') THEN "idle" ELSE "keep"
  /\ UNCHANGED <<core, viewFile, leaseFile, torn, guest, armed, mine, resumed,
                 boot, faults, binding>>

\* heldview::write: after the restore check, before any act.
KeepView ==
  /\ pc = "keep" /\ pc' = "acts" /\ viewFile' = heldWant
  /\ UNCHANGED <<core, headFile, leaseFile, torn, guest, head, armed, mine,
                 heldRev, heldWant, lease, resumed, boot, faults, hist>>

(* The re-read just before an act (seen_now), and the act.  Tombstones are *)
(* the pass's to read.  No act on a restore, nor on a full view older than *)
(* the one held, nor on an intent the fresh view no longer says.           *)
Agreed == ~Active(armed, head') /\ (Unchanged \/ rev >= heldRev)
FreshWant == IF Unchanged THEN heldWant ELSE want
\* A machine torn down leaves a tombstone, and no lease to run out.
Perform(g, t, l) == guest' = g /\ torn' = t /\ lease' = l
Nothing == UNCHANGED <<guest, torn, lease>>
StillAgreed ==
  \/ /\ FreshWant = heldWant /\ heldWant = "Running" /\ ~torn
     /\ guest \in {"none", "down"} /\ Perform("up", torn, lease)
  \/ /\ FreshWant = heldWant /\ heldWant = "Absent"
     /\ guest # "none" /\ Perform("none", TRUE, "none")
  \/ Nothing
Reread ==
  /\ pc = "acts" /\ Answer = "ok" /\ pc' = "idle"
  /\ SeenAs(Unchanged, FALSE)
  /\ heldRev' = IF Agreed THEN rev ELSE heldRev
  /\ heldWant' = IF Agreed THEN FreshWant ELSE heldWant
  /\ IF Agreed THEN StillAgreed ELSE Nothing
  /\ UNCHANGED <<core, viewFile, leaseFile, armed, mine, resumed, boot,
                 faults, binding, outKnown>>
\* The re-read could not be asked, or was refused: nothing is done.
NotReread ==
  /\ pc = "acts" /\ pc' = "idle"
  /\ UNCHANGED <<core, disk, guest, head, armed, mine, heldRev, heldWant,
                 lease, resumed, boot, faults, hist>>

(* Core unreachable: a machine the view in hand wants running is started   *)
(* again, never in a restore, never past its lease.                        *)
Maintain ==
  /\ pc = "idle" /\ ~Active(armed, head)
  /\ heldRev # NoRevision /\ heldWant = "Running" /\ lease # "out"
  /\ guest = "down" /\ guest' = "up"
  /\ UNCHANGED <<core, disk, proc, faults, hist>>
---------------------------------------------------------------------------
(* Deaths: a crash or a reboot leaves the session to lapse; a stop between *)
(* passes releases it.                                                     *)
Dies ==
  /\ Fault /\ pc' = "dead" /\ Forgets
Crash ==
  /\ Alive /\ Dies
  /\ UNCHANGED <<core, disk, guest, hist>>
Terminate ==
  /\ pc = "idle" /\ Dies
  /\ sess' \in IF Answer = "ok" THEN {"none", "mine"} ELSE {sess}
  /\ UNCHANGED <<rev, want, hold, holds, provider, wentBack, disk,
                 guest, hist>>
\* What a dead agent may find when it starts again.
FileLost ==
  /\ pc = "dead" /\ Fault
  /\ \/ leaseFile # "lost" /\ leaseFile' = "lost" /\ UNCHANGED headFile
     \/ HeadsTear /\ headFile' = UnreadableHead /\ UNCHANGED leaseFile
  /\ UNCHANGED <<core, viewFile, torn, guest, proc, hist>>
GuestFails ==
  /\ guest = "up" /\ guest' = "down"
  /\ UNCHANGED <<core, disk, proc, faults, hist>>
\* An operator enrols the host again: a new provider of Core's, with a
\* machine and a ledger revision of its own.
Enrol(p) ==
  /\ pc \in {"dead", "stopped"} /\ provider = Enrolled /\ p # Enrolled
  /\ Fault
  /\ provider' = p /\ rev' = 1 /\ want' = "Running"
  /\ hold' = FALSE /\ sess' = "none"
  /\ torn' = FALSE /\ guest' = "none" /\ pc' = "dead"
  /\ gate' = "free" /\ binding' = FALSE /\ acted' = 0
  /\ UNCHANGED <<holds, wentBack, headFile, viewFile, leaseFile, head, armed,
                 mine, heldRev, heldWant, lease, resumed, boot, outKnown>>

Agent ==
  \/ Start \/ Retire \/ WriteLeases \/ LeaseRunsOut
  \/ ShakeUnreachable \/ BootStarts \/ ViewAges
  \/ Handshake \/ Finish \/ Rehandshake \/ StopForGood \/ Heartbeat
  \/ ReadView \/ KeepView \/ Reread \/ NotReread \/ Maintain
Faults ==
  \/ Crash \/ Terminate \/ FileLost \/ GuestFails
  \/ \E p \in Providers : Enrol(p)
Next == CoreMoves \/ TakeoverLeaseEnds \/ Agent \/ Faults
(* The agent is scheduled and restarted (Restart=always), retries its      *)
(* handshake and its heartbeat for as long as it lives, and Core answers   *)
(* some of them; of Core's own moves only that a session nobody carries    *)
(* runs out, which the wait for a held provider counts on (3553-3556).     *)
Fairness ==
  /\ WF_vars(Start) /\ WF_vars(Retire) /\ WF_vars(BootStarts) /\ WF_vars(Finish)
  /\ WF_vars(StopForGood) /\ WF_vars(TakeoverLeaseEnds)
  /\ SF_vars(Handshake) /\ SF_vars(Rehandshake) /\ SF_vars(Heartbeat)
Spec == Init /\ [][Next]_vars /\ Fairness

---------------------------------------------------------------------------
(* An agent reads a restore only into a ledger that did go back, or into   *)
(* Core's own word: no order of views, re-reads, deaths, handshakes and    *)
(* enrolments makes one up (restore.rs 177-253; a false alarm idles the    *)
(* whole provider until a person ends it).                                 *)
NoFalseAlarm == head.mode = "detected" /\ armed => wentBack

(* No start from the held view races the loop's own decisions: a pass in   *)
(* flight when the handshake succeeds is waited for (Boot::finish).        *)
BootNeverRacesTheLoop == boot = "starting" => pc \in {"shake", "joined"}

(* A machine whose lease was on disk and ran out is never picked by a boot *)
(* pass, not even two starts after the lease file was lost and rewritten   *)
(* from an empty book (heldview::retire).                                  *)
LostLeasesStartNothing ==
  [][boot = "idle" /\ boot' = "starting" => ~outKnown]_vars

(* The abstract promise: nothing is done to a guest from the answer that   *)
(* shows a restore until Core ends it.                                     *)
Gate == INSTANCE RestoreGate
NoActInARestore == Gate!Spec

(* A restore noticed here is told to Core until Core holds this provider,  *)
(* over deaths of the agent and of its session; unless Core stops holding  *)
(* restores, or stops this agent.                                          *)
EvidenceIsTold ==
  (gate = "seen" /\ binding) ~>
    (gate # "seen" \/ hold \/ ~holds \/ pc = "stopped")

(* Restore mode is left only when Core ends it: a head found armed for a   *)
(* restore, an unreadable one among them, is not turned into an empty one  *)
(* by anything else the same provider's agent does (restore.rs 22-23,      *)
(* 94-95).                                                                 *)
CoreEnds == head.mode = "named" /\ ~hold
ModeEndsOnlyByCore ==
  [][head.mode # "none" /\ head.provider \in {NoProvider, provider} /\ Alive'
       => head'.mode # "none" \/ CoreEnds]_vars
=============================================================================
