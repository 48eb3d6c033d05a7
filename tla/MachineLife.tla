----------------------------- MODULE MachineLife -----------------------------
(***************************************************************************)
(* One machine's life on one provider: the build with its clone journal    *)
(* (instance.rs, pending.rs), the settling of that journal at the top of   *)
(* every pass, the start gates, and the delete with its licence, its       *)
(* tombstone and its proof (teardown.rs), under an agent that may die at   *)
(* any step, calls that fail and answers that are lost.                    *)
(*                                                                         *)
(* The agent is one task walking through a pass, `pc`; between any two of  *)
(* its steps Core, the hypervisor and the host's owner may act.  Core and  *)
(* the hypervisor are external: what the agent asks of them and what its   *)
(* comments say they do.  Core here does not hold restores, so a           *)
(* tombstone is met by the pass itself and not by restore mode.            *)
(***************************************************************************)
EXTENDS Integers, FiniteSets

CONSTANTS
  VMIDs,          \* the numbers the hypervisor gives out
  None,           \* no guest, no number, no view
  LateClones,     \* whether a clone still running may be missing from a listing
                  \* made to settle its record
  RollbacksFail,  \* whether taking a clone away again may fail
  MaxFaults,      \* bound: crashes, failing calls and lost answers together
  MaxOwnerActs    \* bound: what the host's owner does

\* `claim`: it carries the machine's tags.  `stamp`: its description and pool
\* are the machine's.  `mine`: this agent's clone call made it.  `conf`: it was
\* given its cores, disk, drive and networks.
Guest == [claim : BOOLEAN, stamp : BOOLEAN, mine : BOOLEAN, conf : BOOLEAN, up : BOOLEAN]
Intent == {"running", "stopped", "absent", "gone"}
View == [want : Intent, built : BOOLEAN]

ASSUME NoneAssumption == None \notin Guest \cup VMIDs \cup View
ASSUME BoundsAssumption == MaxFaults \in Nat /\ MaxOwnerActs \in Nat
ASSUME SwitchesAssumption == {LateClones, RollbacksFail} \subseteq BOOLEAN

VARIABLES
  want, built,        \* Core: its intent, and whether it sends the machine as built
  reported, concluded,\* Core: the numbers it was told of, and "deleted" or "lost"
  guest, task,        \* the hypervisor: what stands, and each number's last clone
  journal, tomb,      \* the agent's disk: clone records, and the tombstone
  held,               \* the view held in memory, renewed by every read
  pc, view, at, todo, say, \* the agent's pass; `view` is also the one on disk
  faults, acts

core == <<want, built, reported, concluded>>
disk == <<journal, tomb>>
pass == <<view, at, todo, say>>
vars == <<core, guest, task, disk, held, pc, pass, faults, acts>>

Init ==
  /\ want = "running" /\ built = FALSE /\ reported = {} /\ concluded = {}
  /\ guest = [v \in VMIDs |-> None] /\ task = [v \in VMIDs |-> "none"]
  /\ journal = [v \in VMIDs |-> "none"] /\ tomb = "none"
  /\ held = None /\ pc = "idle" /\ view = None /\ at = None /\ todo = {} /\ say = "nothing"
  /\ faults = 0 /\ acts = 0

-----------------------------------------------------------------------------
(* What a listing shows.                                                    *)

Standing == {v \in VMIDs : guest[v] # None}
Claimed  == {v \in Standing : guest[v].claim}            \* claimed_guests
Stamped  == {v \in Standing : guest[v].stamp /\ ~guest[v].claim} \* stamped_guests
Made     == {v \in Standing : guest[v].mine}
Cloning  == {v \in VMIDs : task[v] = "running"}
Owed     == {v \in VMIDs : journal[v] # "none"}
\* A slip, for the mutant runs: the journal is not asked.
UnsettledHere == Stamped
Unsettled == Owed \cup Stamped                           \* owed_or_stamped
\* A slip: a tombstone counts once its delete is proven.
BuiltAgainProven == tomb = "proven"
BuiltAgain == tomb # "none"
\* A running clone that has not reached the listing yet.
Unseen(v) == task[v] = "running" /\ guest[v] = None

\* What a change of one field leaves of a guest.
Tagged(g) == [claim |-> TRUE, stamp |-> g.stamp, mine |-> g.mine, conf |-> g.conf, up |-> g.up]
Equipped(g) == [claim |-> g.claim, stamp |-> g.stamp, mine |-> g.mine, conf |-> TRUE, up |-> g.up]
Powered(g, b) == [claim |-> g.claim, stamp |-> g.stamp, mine |-> g.mine, conf |-> g.conf, up |-> b]

Fault == faults < MaxFaults /\ faults' = faults + 1
Report(s) == pc' = "report" /\ say' = s /\ todo' = {}

-----------------------------------------------------------------------------
(* Core, external.                                                          *)

CoreStops == want = "running" /\ want' = "stopped"
CoreStarts == want = "stopped" /\ want' = "running"
CoreDeletes == want \in {"running", "stopped"} /\ want' = "absent"
\* "The buyer's Absent could have been withdrawn since."
CoreWithdraws == want = "absent" /\ want' = "running"

CoreIntent ==
  /\ CoreStops \/ CoreStarts \/ CoreDeletes \/ CoreWithdraws
  /\ UNCHANGED <<built, reported, concluded, guest, task, disk, held, pc, pass, faults, acts>>

\* From a create's horizon Core sends the machine as built.
CoreHorizon ==
  /\ want \in {"running", "stopped"} /\ ~built /\ built' = TRUE
  /\ UNCHANGED <<want, reported, concluded, guest, task, disk, held, pc, pass, faults, acts>>

-----------------------------------------------------------------------------
(* The hypervisor's clone tasks, the owner and the guests, external.        *)

\* The clone's guest appears, untagged, with what the clone call wrote.
CloneShows(v) ==
  /\ Unseen(v)
  /\ guest' = [guest EXCEPT ![v] =
        [claim |-> FALSE, stamp |-> TRUE, mine |-> TRUE, conf |-> FALSE, up |-> FALSE]]
  /\ UNCHANGED <<core, task, disk, held, pc, pass, faults, acts>>

CloneEnds(v) ==
  /\ task[v] = "running"
  /\ \/ guest[v] # None /\ task' = [task EXCEPT ![v] = "ok"] /\ UNCHANGED <<guest, faults>>
     \/ Fault /\ task' = [task EXCEPT ![v] = "failed"] /\ guest' = [guest EXCEPT ![v] = None]
  /\ UNCHANGED <<core, disk, held, pc, pass, acts>>

\* The owner's own guest takes a free number, never the one a call of the agent
\* is about to name.
OwnerCreates(v) ==
  /\ acts < MaxOwnerActs /\ v # at /\ v \notin Standing \cup Cloning
  /\ guest' = [guest EXCEPT ![v] =
        [claim |-> FALSE, stamp |-> FALSE, mine |-> FALSE, conf |-> TRUE, up |-> FALSE]]
  /\ acts' = acts + 1
  /\ UNCHANGED <<core, task, disk, held, pc, pass, faults>>

\* A copy carries the tags and the description of what it copies.
OwnerCopies(v, w) ==
  /\ acts < MaxOwnerActs /\ v \in Claimed \ Cloning /\ w # at /\ w \notin Standing \cup Cloning
  /\ guest' = [guest EXCEPT ![w] =
        [claim |-> TRUE, stamp |-> guest[v].stamp, mine |-> FALSE,
         conf |-> guest[v].conf, up |-> FALSE]]
  /\ acts' = acts + 1
  /\ UNCHANGED <<core, task, disk, held, pc, pass, faults>>

OwnerRemoves(v) ==
  /\ acts < MaxOwnerActs /\ v \in Standing \ Cloning
  /\ guest' = [guest EXCEPT ![v] = None] /\ reported' = reported \ {v}
  /\ acts' = acts + 1
  /\ UNCHANGED <<want, built, concluded, task, disk, held, pc, pass, faults>>

PowersOff(v) ==
  /\ v \in Claimed /\ guest[v].up
  /\ guest' = [guest EXCEPT ![v] = Powered(guest[v], FALSE)]
  /\ UNCHANGED <<core, task, disk, held, pc, pass, faults, acts>>

-----------------------------------------------------------------------------
(* The pass begins.                                                         *)

\* The view, held and kept; then every clone record is settled.
Fetch ==
  /\ pc = "idle"
  /\ view' = [want |-> want, built |-> built] /\ held' = view'
  /\ todo' = Owed /\ at' = None /\ say' = "nothing"
  /\ pc' = "settle"
  /\ UNCHANGED <<core, guest, task, disk, faults, acts>>

\* Core cannot be reached: a machine meant to run, found by its claim and its
\* stamp, alone, and stopped, is started from the view held.
Maintain(v) ==
  /\ pc = "idle" /\ Fault
  /\ held # None /\ held.want = "running"
  /\ Claimed = {v} /\ guest[v].stamp /\ ~guest[v].up
  /\ guest' = [guest EXCEPT ![v] = Powered(guest[v], TRUE)]
  /\ UNCHANGED <<core, task, disk, held, pc, pass, acts>>

-----------------------------------------------------------------------------
(* abandon_clone: a clone is taken away again.  The record says so first.   *)

Abandon(v, back) ==
  /\ journal' = [journal EXCEPT ![v] = "abandoned"]
  /\ at' = v /\ pc' = back

\* A slip: whatever stands at the number is destroyed.
UndoWhatever ==
  /\ pc \in {"undoSettle", "undoCreate"} /\ at \in Standing
  /\ guest' = [guest EXCEPT ![at] = None] /\ reported' = reported \ {at}
  /\ journal' = [journal EXCEPT ![at] = "none"]
  /\ UNCHANGED faults

\* Destroyed, and seen to be: the record goes.
UndoDone ==
  /\ pc \in {"undoSettle", "undoCreate"} /\ at \in Standing /\ guest[at].stamp
  /\ guest' = [guest EXCEPT ![at] = None] /\ reported' = reported \ {at}
  /\ journal' = [journal EXCEPT ![at] = "none"]
  /\ UNCHANGED faults

\* Another stamp: not this agent's to take, and the record goes.
UndoNotMine ==
  /\ pc \in {"undoSettle", "undoCreate"} /\ at \in Standing /\ ~guest[at].stamp
  /\ journal' = [journal EXCEPT ![at] = "none"]
  /\ UNCHANGED <<guest, reported, faults>>

\* No configuration to read (nothing stands there, or a fault): still owed.
UndoUnread ==
  /\ pc \in {"undoSettle", "undoCreate"}
  /\ IF at \in Standing THEN RollbacksFail /\ Fault ELSE UNCHANGED faults
  /\ UNCHANGED <<guest, reported, journal>>

\* The destroy failed after the stop, or its end or its volumes could not be
\* seen: still owed.
UndoFails ==
  /\ pc \in {"undoSettle", "undoCreate"} /\ at \in Standing /\ guest[at].stamp
  /\ RollbacksFail /\ Fault
  /\ \/ guest' = [guest EXCEPT ![at] = Powered(guest[at], FALSE)] /\ UNCHANGED reported
     \/ guest' = [guest EXCEPT ![at] = None] /\ reported' = reported \ {at}
  /\ UNCHANGED journal

Undo ==
  /\ UndoDone \/ UndoNotMine \/ UndoUnread \/ UndoFails
  /\ IF pc = "undoSettle" THEN pc' = "settle" /\ UNCHANGED <<todo, say>> ELSE Report("nothing")
  /\ at' = None
  /\ UNCHANGED <<want, built, concluded, task, tomb, held, view, acts>>

-----------------------------------------------------------------------------
(* recover_pending: each record is settled, in a disjunct per line of its   *)
(* table.                                                                   *)

\* A record that proves no ended clone: without a task, or its task failed.
Proven(v) == journal[v] = "cloning" /\ task[v] = "ok"

Forgets(v) ==
  /\ journal' = [journal EXCEPT ![v] = "none"]
  /\ UNCHANGED <<guest, at, pc>>

\* A slip: the record of a number where nothing stands is kept.
SettleNothingKept(v) == v \notin Standing /\ UNCHANGED <<journal, guest, at, pc>>

\* Nothing stands there: nothing was made, or a rollback took.  With LateClones
\* FALSE the listing waits for the running clone it cannot have missed.
SettleNothing(v) ==
  /\ v \notin Standing
  /\ journal[v] = "cloning" => task[v] # "running"
  /\ journal[v] = "asked" => LateClones \/ ~Unseen(v)
  /\ Forgets(v)

\* The rollback is asked for again.
SettleAgain(v) ==
  /\ journal[v] = "abandoned" /\ v \in Standing
  /\ Abandon(v, "undoSettle") /\ UNCHANGED guest

\* The clone still runs: kept, and asked again next pass.
SettleLater(v) ==
  /\ journal[v] = "cloning" /\ task[v] = "running"
  /\ UNCHANGED <<journal, guest, at, pc>>

\* A slip: a claimed machine is a leftover too.
SettleUndoes(v) ==
  /\ journal[v] = "cloning" /\ task[v] # "running" /\ v \in Claimed
  /\ Abandon(v, "undoSettle") /\ UNCHANGED guest

\* It carries the claim: a machine, and not a leftover.
SettleKept(v) ==
  /\ journal[v] = "asked" \/ (journal[v] = "cloning" /\ task[v] # "running")
  /\ v \in Claimed
  /\ Forgets(v)

\* Unclaimed, and this agent cannot prove it made it: left for the operator.
SettleLeft(v) ==
  /\ journal[v] = "asked" \/ (journal[v] = "cloning" /\ task[v] # "running")
  /\ v \in Standing \ Claimed /\ ~(Proven(v) /\ guest[v].stamp)
  /\ Forgets(v)

\* Unclaimed, its clone task ended well, its stamp on it: claimed, then undone.
SettleTakes(v) ==
  /\ Proven(v) /\ v \in Stamped
  /\ guest' = [guest EXCEPT ![v] = Tagged(guest[v])]
  /\ Abandon(v, "undoSettle")

Settle(v) ==
  /\ pc = "settle" /\ v \in todo
  /\ \/ SettleNothing(v) \/ SettleAgain(v) \/ SettleLater(v)
     \/ SettleKept(v) \/ SettleLeft(v) \/ SettleTakes(v)
  /\ todo' = todo \ {v}
  /\ UNCHANGED <<core, task, tomb, held, view, say, faults, acts>>

\* A read that fails settles nothing: the record waits for the next pass.  So it
\* does when the claim fails, which may yet have been written.
SettleFails(v) ==
  /\ pc = "settle" /\ v \in todo /\ Fault
  /\ todo' = todo \ {v}
  /\ \/ UNCHANGED guest
     \/ Proven(v) /\ v \in Stamped /\ guest' = [guest EXCEPT ![v] = Tagged(guest[v])]
  /\ UNCHANGED <<core, task, disk, held, pc, view, at, say, acts>>

-----------------------------------------------------------------------------
(* The pass's turn for the machine, the journal settled.                    *)

Dispatching == pc = "settle" /\ todo = {}

\* still_wanted, still_running, still_absent: Core's view read again, and held.
Fresh == [want |-> want, built |-> built]
ReadAgain(ok, then, else) ==
  /\ held' = Fresh
  /\ IF ok THEN pc' = then /\ UNCHANGED <<todo, say>> ELSE Report(else)

\* Not in the view, or wanted under an id this agent tore down.
Refuse ==
  /\ Dispatching
  /\ view.want = "gone" \/ (view.want # "absent" /\ BuiltAgain)
  /\ Report("nothing") /\ UNCHANGED held

\* Never seen built: a fresh view must still want it, and still not say built.
Consider ==
  /\ Dispatching
  /\ view.want \in {"running", "stopped"} /\ ~BuiltAgain
  /\ IF view.built THEN pc' = "ensure" /\ UNCHANGED <<held, todo, say>>
     ELSE ReadAgain(want \in {"running", "stopped"} /\ ~built, "ensure", "nothing")

Dispatch ==
  /\ \/ Refuse
     \/ Consider
     \/ Dispatching /\ view.want = "absent" /\ pc' = "delete" /\ UNCHANGED <<held, todo, say>>
  /\ UNCHANGED <<core, guest, task, disk, view, at, faults, acts>>

\* A read that fails where nothing was seen yet: nothing is done or said.
LookFails ==
  /\ Dispatching \/ pc \in {"ensure", "delete", "doomed", "destroy", "prove"}
  /\ Fault /\ Report("nothing")
  /\ UNCHANGED <<core, guest, task, disk, held, view, at, acts>>

-----------------------------------------------------------------------------
(* ensure_instance_gated: the machine that is here.                         *)

\* the_guest, asked before owed_or_stamped.
Found(v) == pc = "ensure" /\ Claimed = {v} /\ guest[v].stamp

\* Found, and as it should be, or with something in the way of converging it.
EnsureSeen(v) ==
  /\ Found(v) /\ Report("seen")
  /\ IF guest[v].up = (view.want = "running") THEN UNCHANGED faults ELSE Fault
  /\ UNCHANGED guest

EnsureStop(v) ==
  /\ Found(v) /\ view.want = "stopped" /\ guest[v].up /\ Report("seen")
  /\ guest' = [guest EXCEPT ![v] = Powered(guest[v], FALSE)]
  /\ UNCHANGED faults

EnsureStart(v) ==
  /\ Found(v) /\ view.want = "running" /\ ~guest[v].up /\ pc' = "gate"
  /\ UNCHANGED <<guest, todo, say, faults>>

Ensure(v) ==
  /\ EnsureSeen(v) \/ EnsureStop(v) \/ EnsureStart(v)
  /\ at' = v
  /\ UNCHANGED <<core, task, disk, held, view, acts>>

\* The start gate.  A start that fails leaves the machine seen as it was.
Gate ==
  /\ pc = "gate" /\ ReadAgain(want = "running", "starting", "seen")
  /\ UNCHANGED <<core, guest, task, disk, view, at, faults, acts>>

GateFails ==
  /\ pc \in {"gate", "starting"} /\ Fault /\ Report("seen")
  /\ UNCHANGED <<core, guest, task, disk, held, view, at, acts>>

StartFound ==
  /\ pc = "starting" /\ Report("seen")
  /\ guest' = IF at \in Standing THEN [guest EXCEPT ![at] = Powered(guest[at], TRUE)] ELSE guest
  /\ UNCHANGED <<core, task, disk, held, view, at, faults, acts>>

-----------------------------------------------------------------------------
(* ensure_instance_gated: no machine is here.                               *)

NotFound == pc = "ensure" /\ Claimed = {}

\* Several claim it, or one with another stamp: not looked at.
NotLookedAt ==
  /\ pc = "ensure" /\ Claimed # {} /\ ~\E v \in VMIDs : Found(v)
  /\ Report("nothing")
  /\ UNCHANGED <<core, guest, task, disk, held, view, at, faults, acts>>

\* owed_or_stamped, before "lost" as before a build.
Waits ==
  /\ NotFound /\ Unsettled # {} /\ Report("nothing")
  /\ UNCHANGED <<core, guest, task, disk, held, view, at, faults, acts>>

\* A slip: "lost" is said before what is owed or stamped is asked.
SaysLostFirst ==
  /\ NotFound /\ view.built /\ Report("lost")
  /\ UNCHANGED <<core, guest, task, disk, held, view, at, faults, acts>>

SaysLost ==
  /\ NotFound /\ Unsettled = {} /\ view.built /\ Report("lost")
  /\ UNCHANGED <<core, guest, task, disk, held, view, at, faults, acts>>

\* The next free number, and the record, on disk before the clone is asked for.
Build(v) ==
  /\ NotFound /\ Unsettled = {} /\ ~view.built
  /\ v \notin Standing \cup Cloning
  /\ at' = v /\ journal' = [journal EXCEPT ![v] = "asked"] /\ pc' = "post"
  /\ UNCHANGED <<core, guest, task, tomb, held, view, todo, say, faults, acts>>

\* No node has room for it, or no number is free.
Unplaceable ==
  /\ NotFound /\ Unsettled = {} /\ ~view.built /\ Report("nothing")
  /\ UNCHANGED <<core, guest, task, disk, held, view, at, faults, acts>>

PostAccepted ==
  /\ pc = "post" /\ pc' = "posted"
  /\ task' = [task EXCEPT ![at] = "running"]
  /\ UNCHANGED <<core, guest, disk, held, view, at, todo, say, faults, acts>>

Answered ==
  /\ pc = "posted" /\ pc' = "cloning"
  /\ journal' = [journal EXCEPT ![at] = "cloning"]
  /\ UNCHANGED <<core, guest, task, tomb, held, view, at, todo, say, faults, acts>>

\* Refused; its answer lost; its end not seen within the polls: the record stays.
GivesUp ==
  /\ pc \in {"post", "posted"} \/ (pc = "cloning" /\ task[at] = "running")
  /\ Fault /\ Report("nothing")
  /\ UNCHANGED <<core, guest, task, disk, held, view, at, acts>>

CloneDone ==
  /\ pc = "cloning" /\ task[at] = "ok" /\ pc' = "claim"
  /\ UNCHANGED <<core, guest, task, disk, held, view, at, todo, say, faults, acts>>

\* The machine's tags alone, first.
Claim ==
  /\ pc = "claim" /\ at \in Standing /\ pc' = "configure"
  /\ guest' = [guest EXCEPT ![at] = Tagged(guest[at])]
  /\ UNCHANGED <<core, task, disk, held, view, at, todo, say, faults, acts>>

\* Cores, drive, networks, and the disk's size.
Configure ==
  /\ pc = "configure" /\ at \in Standing /\ pc' = "complete"
  /\ guest' = [guest EXCEPT ![at] = Equipped(guest[at])]
  /\ UNCHANGED <<core, task, disk, held, view, at, todo, say, faults, acts>>

\* The machine is complete, so the record goes, before its start.
Complete ==
  /\ pc = "complete"
  /\ journal' = [journal EXCEPT ![at] = "none"]
  /\ IF view.want = "running" THEN pc' = "buildGate" /\ UNCHANGED <<todo, say>> ELSE Report("seen")
  /\ UNCHANGED <<core, guest, task, tomb, held, view, at, faults, acts>>

\* The start gate again: the clone ran for minutes.
BuildGate ==
  /\ pc = "buildGate"
  /\ \/ ReadAgain(want = "running", "buildStart", "seen") /\ UNCHANGED faults
     \/ Fault /\ Report("seen") /\ UNCHANGED held
  /\ UNCHANGED <<core, guest, task, disk, view, at, acts>>

BuildStart ==
  /\ pc = "buildStart" /\ at \in Standing /\ Report("seen")
  /\ guest' = [guest EXCEPT ![at] = Powered(guest[at], TRUE)]
  /\ UNCHANGED <<core, task, disk, held, view, at, faults, acts>>

\* A failed clone, or any later call that fails: the clone is taken away again.
CreateFails ==
  /\ \/ pc = "cloning" /\ task[at] = "failed" /\ UNCHANGED faults
     \/ pc \in {"claim", "configure", "buildStart"} /\ at \notin Standing /\ UNCHANGED faults
     \/ pc \in {"claim", "configure", "buildStart"} /\ at \in Standing /\ Fault
  /\ Abandon(at, "undoCreate")
  /\ UNCHANGED <<core, guest, task, tomb, held, view, todo, say, acts>>

-----------------------------------------------------------------------------
(* delete_instance, its licence, its destroy and its proof.                 *)

Entombs(t) == tomb' = t /\ UNCHANGED journal

\* A clone or a rollback owed, or several guests with the claim: not gone.
DeleteWaits ==
  /\ pc = "delete"
  /\ \/ Owed # {}
     \/ tomb \in {"none", "decided"} /\ Claimed # {}
        /\ ~\E v \in VMIDs : Claimed = {v} /\ guest[v].stamp
  /\ Report("nothing")
  /\ UNCHANGED <<core, guest, task, disk, held, view, at, faults, acts>>

\* Destroyed on an earlier pass, or nothing here carries the claim.
DeleteOwesProof ==
  /\ pc = "delete" /\ Owed = {} /\ pc' = "prove"
  /\ \/ tomb \in {"destroyed", "proven"} /\ UNCHANGED disk
     \/ tomb \in {"none", "decided"} /\ Claimed = {} /\ Entombs("destroyed")
  /\ UNCHANGED <<core, guest, task, held, view, at, todo, say, faults, acts>>

\* The one guest the licence names.
Licence(v) ==
  /\ pc = "delete" /\ Owed = {} /\ tomb \in {"none", "decided"}
  /\ Claimed = {v} /\ guest[v].stamp
  /\ at' = v /\ pc' = "doomed"
  /\ UNCHANGED <<core, guest, task, disk, held, view, todo, say, faults, acts>>

\* Core's view read again, and the tombstone before the destroy.
Doom ==
  /\ pc = "doomed" /\ ReadAgain(want = "absent", "destroy", "nothing")
  /\ IF want = "absent" THEN Entombs("decided") ELSE UNCHANGED disk
  /\ UNCHANGED <<core, guest, task, view, at, faults, acts>>

Destroy ==
  /\ pc = "destroy" /\ at \in Standing /\ pc' = "destroyed"
  /\ guest' = [guest EXCEPT ![at] = None] /\ reported' = reported \ {at}
  /\ UNCHANGED <<want, built, concluded, task, disk, held, view, at, todo, say, faults, acts>>

\* Refused by the hour's cap, stopped and not destroyed, destroyed without its
\* end being seen, or no longer there.
DestroyFails ==
  /\ pc = "destroy" /\ Report("nothing")
  /\ \/ at \notin Standing /\ UNCHANGED <<guest, reported, faults>>
     \/ at \in Standing /\ Fault /\ UNCHANGED reported
        /\ \E up \in {FALSE, guest[at].up} : guest' = [guest EXCEPT ![at] = Powered(guest[at], up)]
     \/ at \in Standing /\ Fault /\ reported' = reported \ {at}
        /\ guest' = [guest EXCEPT ![at] = None]
  /\ UNCHANGED <<want, built, concluded, task, disk, held, view, at, acts>>

Entomb ==
  /\ pc = "destroyed" /\ Entombs("destroyed") /\ Report("nothing")
  /\ UNCHANGED <<core, guest, task, held, view, at, faults, acts>>

\* Proven only on a listing that finds neither its claim nor its stamp.
Prove ==
  /\ pc = "prove"
  /\ IF Claimed \cup Stamped = {} THEN Entombs("proven") /\ Report("gone")
                                  ELSE UNCHANGED disk /\ Report("nothing")
  /\ UNCHANGED <<core, guest, task, held, view, at, faults, acts>>

-----------------------------------------------------------------------------
(* The pass ends with its report, which may be lost.                        *)

Heard ==
  /\ built' = (built \/ say = "seen")
  /\ reported' = IF say = "seen" THEN reported \cup ({at} \cap Standing) ELSE reported
  /\ want' = IF say = "gone" THEN "gone" ELSE want
  /\ concluded' = concluded \cup (IF say = "gone" THEN {"deleted"} ELSE {})
                           \cup (IF say = "lost" THEN {"lost"} ELSE {})

\* A slip: the pass's number is kept after its report.
ReportKeepsNumber ==
  /\ pc = "report" /\ pc' = "idle" /\ say' = "nothing"
  /\ \/ Heard /\ UNCHANGED faults
     \/ Fault /\ UNCHANGED core
  /\ UNCHANGED <<guest, task, disk, held, view, at, todo, acts>>

ReportStatus ==
  /\ pc = "report" /\ pc' = "idle" /\ at' = None /\ say' = "nothing"
  /\ \/ Heard /\ UNCHANGED faults
     \/ Fault /\ UNCHANGED core
  /\ UNCHANGED <<guest, task, disk, held, view, todo, acts>>

\* The agent dies; what Core and the hypervisor were doing goes on.
Crash ==
  /\ pc # "down" /\ Fault /\ pc' = "down"
  /\ at' = None /\ todo' = {} /\ say' = "nothing"
  /\ UNCHANGED <<core, guest, task, disk, held, view, acts>>

\* It starts with the view kept on disk, or with none.
Start ==
  /\ pc = "down" /\ pc' = "idle"
  /\ held' \in {view, None}
  /\ UNCHANGED <<core, guest, task, disk, view, at, todo, say, faults, acts>>

-----------------------------------------------------------------------------
Create == \E v \in VMIDs : Build(v)
Making == PostAccepted \/ Answered \/ GivesUp \/ CloneDone \/ Claim \/ Configure
            \/ Complete \/ BuildGate \/ BuildStart \/ CreateFails
Settling == \E v \in VMIDs : Settle(v) \/ SettleFails(v)
Ensuring == (\E v \in VMIDs : Ensure(v)) \/ Gate \/ GateFails \/ StartFound
              \/ NotLookedAt \/ Waits \/ SaysLost \/ Unplaceable
Deleting == (\E v \in VMIDs : Licence(v)) \/ DeleteWaits \/ DeleteOwesProof \/ Doom
              \/ Destroy \/ DestroyFails \/ Entomb \/ Prove

AgentStep == Start \/ Fetch \/ Settling \/ Undo \/ Dispatch \/ LookFails
               \/ Ensuring \/ Create \/ Making \/ Deleting \/ ReportStatus
\* What may or may not happen.
WorldStep == CoreIntent \/ CoreHorizon \/ Crash
               \/ \E v \in VMIDs : Maintain(v) \/ OwnerCreates(v) \/ OwnerRemoves(v) \/ PowersOff(v)
                                     \/ \E w \in VMIDs : OwnerCopies(v, w)
CloneStep == \E v \in VMIDs : CloneShows(v) \/ CloneEnds(v)

Next == AgentStep \/ WorldStep \/ CloneStep

\* The agent is restarted when it dies and its pass goes on; a clone ends.
Fairness == WF_vars(AgentStep) /\ WF_vars(CloneStep)
Spec == Init /\ [][Next]_vars /\ Fairness

-----------------------------------------------------------------------------
(* Properties.                                                              *)

PCs == {"down", "idle", "settle", "undoSettle", "undoCreate", "ensure", "gate", "starting",
        "post", "posted", "cloning", "claim", "configure", "complete", "buildGate", "buildStart",
        "delete", "doomed", "destroy", "destroyed", "prove", "report"}

\* Every variable has its type, and between passes nothing of a pass is kept.
TypeOK ==
  /\ want \in Intent /\ built \in BOOLEAN
  /\ reported \subseteq VMIDs /\ concluded \subseteq {"deleted", "lost"}
  /\ guest \in [VMIDs -> Guest \cup {None}]
  /\ task \in [VMIDs -> {"none", "running", "ok", "failed"}]
  /\ journal \in [VMIDs -> {"none", "asked", "cloning", "abandoned"}]
  /\ tomb \in {"none", "decided", "destroyed", "proven"}
  /\ held \in View \cup {None}
  /\ pc \in PCs /\ view \in View \cup {None} /\ at \in VMIDs \cup {None}
  /\ todo \subseteq VMIDs /\ say \in {"nothing", "seen", "gone", "lost"}
  /\ pc \in {"down", "idle"} => at = None /\ todo = {} /\ say = "nothing"
  /\ faults \in 0..MaxFaults /\ acts \in 0..MaxOwnerActs

\* One clone at a time for one machine: what this agent's clones made, and the
\* clones still running, are never two, whatever was lost on the way.
OneMachine == Cardinality(Made \cup Cloning) <= 1

\* What Core concludes is so: once the agent said "deleted" or "lost", and Core
\* ended the machine's claim or its clock on it, nothing of it stands or comes.
WhatCoreConcludesIsSo == concluded # {} => Made \cup Cloning = {}

\* A guest without the machine's stamp is somebody else's: the agent never
\* starts, stops, tags or destroys one, even at a number its journal names.
OthersKept ==
  [][\A v \in Standing :
       ~guest[v].stamp /\ acts' = acts => guest'[v] = guest[v]]_vars

\* A machine torn down here, or that Core concluded lost, is not cloned again.
NeverRebuilt ==
  [][\A v \in VMIDs :
       task[v] # "running" /\ task'[v] = "running" => tomb = "none" /\ concluded = {}]_vars

\* A machine Core was told of is destroyed only under its tombstone or by a
\* rollback already owed, and no rollback is decided once Core was told.
ReportedIsKept ==
  [][\A v \in reported \cap Made :
       /\ guest'[v] = None /\ acts' = acts => tomb # "none" \/ journal[v] = "abandoned"
       /\ journal'[v] = "abandoned" => journal[v] = "abandoned"]_vars

\* The same without the rollback owed: "a machine reported built that is then
\* rolled back is reported lost for ever".
ReportedIsNotRolledBack ==
  [][\A v \in reported \cap Made :
       guest'[v] = None /\ acts' = acts => tomb # "none"]_vars

\* Only a machine that is configured is started: "a complete machine is one
\* that is configured".
StartsOnlyComplete ==
  [][\A v \in Made : ~guest[v].up /\ guest'[v] # None /\ guest'[v].up => guest[v].conf]_vars

\* Where the code leaves the machine to the operator: a guest that carries its
\* stamp without its claim, or a copy that carries both.
Stuck == \E v \in Standing : guest[v].stamp /\ (~guest[v].claim \/ ~guest[v].mine)

\* A machine the buyer deleted is proven gone to Core, or the operator is told
\* what stands in the way, unless the buyer withdraws.
AbsentEnds == want = "absent" ~> (want # "absent" \/ Stuck)

=============================================================================
