------------------------------- MODULE Worker -------------------------------
(***************************************************************************)
(* An inference worker (src/src/worker.rs, and reconcile_workers and       *)
(* seen_now in agent.rs): built once from a clone, started, kept at the    *)
(* arguments Core sends by rewriting its first boot and rebooting it, and  *)
(* routed to while it serves.  From its create's horizon Core sends it as  *)
(* built, and concludes it lost on the agent's word.                       *)
(*                                                                         *)
(* One worker, at one of two numbers.  Core, the hypervisor, the operator  *)
(* and the serving program are external.  A delete is one step: the proof  *)
(* it rests on is MachineLife's.                                           *)
(***************************************************************************)
EXTENDS Naturals, FiniteSets

CONSTANTS
  NoGuest, NoView,
  MaxConf,      \* bound: the arguments Core sends, 1 .. MaxConf
  SyncFails,    \* whether a refresh of the first boot may fail or be cut short
  MaxBreaks     \* bound: failing calls, lost answers, deaths

Numbers == 1 .. 2
Confs == 1 .. MaxConf
Wants == {"running", "stopped", "absent"}
Views == [want : Wants, built : BOOLEAN, conf : Confs]
\* `claim`: tagged, not only stamped.  `drive`: the arguments on its cloud-init
\* drive, Unset while no snippet is configured.  `args`: those it last booted with.
Unset == 0
Guests == [claim : BOOLEAN, runs : BOOLEAN, drive : Confs \cup {Unset},
           args : Confs \cup {Unset}, serves : BOOLEAN]

WorkerAssumption ==
  /\ NoGuest \notin Guests /\ NoView \notin Views
  /\ MaxConf \in Nat \ {0} /\ SyncFails \in BOOLEAN /\ MaxBreaks \in Nat

VARIABLES
  order, concluded, heardGone,   \* Core: its view, and what it concluded
  vm, cloning, snippet,          \* the hypervisor and the snippet directory
  owed,                          \* pending.rs: the worker's records on disk
  step, view, number, word,      \* the pass: its step, view, guest, and report
  route,                         \* the tunnel's endpoint map names it
  breaks,
  halfMade                       \* history: the agent died between a claim and its configuration

workerCore == <<order, concluded, heardGone>>
workerHost == <<vm, cloning, snippet, owed>>
workerPass == <<step, view, number, word>>
workerVars == <<workerCore, workerHost, workerPass, route, breaks, halfMade>>

Creating == {"record", "clone", "seen", "claim", "equip", "start", "undo"}
Words == {"none", "ready", "offline", "waiting", "lost", "gone", "error"}

TypeOK ==
  /\ order \in Views /\ concluded \in BOOLEAN /\ heardGone \in BOOLEAN
  /\ vm \in [Numbers -> Guests \cup {NoGuest}]
  /\ cloning \in [Numbers -> {"none", "running", "ok", "failed"}]
  /\ snippet \in Confs \cup {Unset}
  /\ owed \in [Numbers -> {"none", "asked", "cloning", "abandoned"}]
  /\ step \in Creating \cup {"idle", "settle", "turn", "found", "sync", "reboot", "look", "report"}
  /\ view \in Views \cup {NoView} /\ number \in Numbers \cup {0} /\ word \in Words
  /\ route \in BOOLEAN /\ breaks \in 0 .. MaxBreaks /\ halfMade \in BOOLEAN

Init ==
  /\ order \in {[want |-> w, built |-> FALSE, conf |-> 1] : w \in Wants \ {"absent"}}
  /\ concluded = FALSE /\ heardGone = FALSE
  /\ vm = [k \in Numbers |-> NoGuest] /\ cloning = [k \in Numbers |-> "none"]
  /\ snippet = Unset /\ owed = [k \in Numbers |-> "none"]
  /\ step = "idle" /\ view = NoView /\ number = 0 /\ word = "none"
  /\ route = FALSE /\ breaks = 0 /\ halfMade = FALSE

Break == breaks < MaxBreaks /\ breaks' = breaks + 1
There == {k \in Numbers : vm[k] # NoGuest}
Claimed == {k \in There : vm[k].claim}
Stamped == There \ Claimed
Owed == {k \in Numbers : owed[k] # "none"}

-----------------------------------------------------------------------------
(* Core, the guest and the operator, external.                              *)

\* Another state or other arguments asked for, a create past its horizon.
Orders ==
  /\ order.want # "absent"
  /\ \/ \E w \in Wants \ {order.want} : order' = [order EXCEPT !.want = w]
     \/ order.conf < MaxConf /\ order' = [order EXCEPT !.conf = @ + 1]
     \/ ~order.built /\ order' = [order EXCEPT !.built = TRUE]
  /\ UNCHANGED <<concluded, heardGone, workerHost, workerPass, route, breaks, halfMade>>

CloneEnds(k) ==
  /\ cloning[k] = "running"
  /\ \/ cloning' = [cloning EXCEPT ![k] = "ok"] /\ UNCHANGED <<vm, breaks>>
     \/ /\ Break /\ cloning' = [cloning EXCEPT ![k] = "failed"]
        /\ vm' = [vm EXCEPT ![k] = NoGuest]
  /\ UNCHANGED <<workerCore, snippet, owed, workerPass, route, halfMade>>

Serves(k) ==
  /\ k \in There /\ vm[k].runs /\ vm[k].args # Unset /\ ~vm[k].serves
  /\ vm' = [vm EXCEPT ![k].serves = TRUE]
  /\ UNCHANGED <<workerCore, cloning, snippet, owed, workerPass, route, breaks, halfMade>>

\* A clone nothing here can prove its own is the operator's to remove.
OperatorRemoves(k) ==
  /\ k \in Stamped /\ owed[k] = "none" /\ cloning[k] # "running"
  /\ vm' = [vm EXCEPT ![k] = NoGuest] /\ cloning' = [cloning EXCEPT ![k] = "none"]
  /\ UNCHANGED <<workerCore, snippet, owed, workerPass, route, breaks, halfMade>>

-----------------------------------------------------------------------------
(* A pass: its view, and the records settled (recover_pending).             *)

Reports(w) == step' = "report" /\ word' = w /\ number' = 0

Fetch ==
  /\ step = "idle" /\ step' = "settle" /\ view' = order /\ word' = "none" /\ number' = 0
  /\ UNCHANGED <<workerCore, workerHost, route, breaks>>

Drops(k) == owed' = [owed EXCEPT ![k] = "none"] /\ UNCHANGED <<vm, cloning>>
Destroys(k) ==
  /\ vm' = [vm EXCEPT ![k] = NoGuest] /\ cloning' = [cloning EXCEPT ![k] = "none"]
Settles(k) ==
  \/ owed[k] = "asked" /\ Drops(k) /\ UNCHANGED breaks
  \/ owed[k] = "cloning" /\ (k \notin There \/ k \in Claimed) /\ Drops(k) /\ UNCHANGED breaks
  \/ /\ owed[k] = "cloning" /\ k \in Stamped /\ cloning[k] = "ok"
     /\ owed' = [owed EXCEPT ![k] = "abandoned"] /\ vm' = [vm EXCEPT ![k].claim = TRUE]
     /\ UNCHANGED <<cloning, breaks>>
  \/ owed[k] = "abandoned" /\ k \notin There /\ Drops(k) /\ UNCHANGED breaks
  \/ /\ owed[k] = "abandoned" /\ k \in There /\ Destroys(k)
     /\ owed' = [owed EXCEPT ![k] = "none"] /\ UNCHANGED breaks
Settle(k) ==
  /\ step = "settle" /\ Settles(k)
  /\ UNCHANGED <<workerCore, snippet, workerPass, route>>
Unsettled(k) == owed[k] # "none" /\ ~(owed[k] = "cloning" /\ cloning[k] = "running")
Settled ==
  /\ step = "settle" /\ step' = "turn"
  /\ IF \E k \in Numbers : Unsettled(k) THEN Break ELSE UNCHANGED breaks
  /\ UNCHANGED <<workerCore, workerHost, view, number, word, route>>

-----------------------------------------------------------------------------
(* Its turn.                                                                *)

\* delete_inference_worker: not while anything is owed; proven gone, or not.
Delete ==
  /\ step = "turn" /\ view.want = "absent"
  /\ IF Owed # {} THEN Reports("error") /\ UNCHANGED <<vm, cloning, snippet, breaks>>
     ELSE \/ /\ snippet' = Unset /\ UNCHANGED breaks
             /\ vm' = [k \in Numbers |-> IF k \in Claimed THEN NoGuest ELSE vm[k]]
             /\ cloning' = [k \in Numbers |-> IF k \in Claimed THEN "none" ELSE cloning[k]]
             /\ Reports("gone")
          \/ Break /\ snippet' = Unset /\ UNCHANGED <<vm, cloning>> /\ Reports("error")
  /\ UNCHANGED <<workerCore, owed, view, route>>

\* A slip: a clone without its claim is nothing.
ClaimedOnly == Claimed
Clones == Claimed \cup Stamped

\* A slip: what is not claimed is not there.
NothingClaimed == Claimed = {}
\* Nothing claimed, nothing owed, nothing stamped.
NothingHere == Claimed = {} /\ Owed = {} /\ Clones = {}

\* Held here, owed for, or carrying its stamp; or nowhere, and sent as built.
Look ==
  /\ step = "turn" /\ view.want # "absent"
  /\ \/ \E k \in Claimed : step' = "found" /\ number' = k /\ UNCHANGED word
     \/ Claimed = {} /\ ~NothingHere /\ Reports("waiting")
     \/ NothingHere /\ IF view.built THEN Reports("lost")
                       ELSE step' = "look" /\ UNCHANGED <<number, word>>
  /\ UNCHANGED <<workerCore, workerHost, view, route, breaks>>

\* Its power state could not be read, or the claimed guests could not be listed:
\* not looked at, and not reported.
NotLooked ==
  /\ step = "turn" /\ view.want # "absent" /\ Break /\ Reports("none")
  /\ UNCHANGED <<workerCore, workerHost, view, route>>

\* start_gate, then the start; a shutdown.
Boots(g) == [g EXCEPT !.runs = TRUE, !.args = g.drive, !.serves = FALSE]
Halts(g) == [g EXCEPT !.runs = FALSE, !.serves = FALSE]
Power ==
  /\ step = "found" /\ UNCHANGED number
  /\ LET g == vm[number] IN
     \/ /\ ~g.runs /\ view.want = "running" /\ order.want = "running"
        /\ vm' = [vm EXCEPT ![number] = Boots(g)]
     \/ g.runs /\ view.want = "stopped" /\ vm' = [vm EXCEPT ![number] = Halts(g)]
     \/ g.runs = (view.want = "running") /\ UNCHANGED vm
     \/ ~g.runs /\ view.want = "running" /\ order.want # "running" /\ UNCHANGED vm
  /\ step' = IF view.want = "running" THEN "sync" ELSE "report"
  /\ word' = IF view.want = "running" THEN word ELSE "offline"
  /\ UNCHANGED <<workerCore, cloning, snippet, owed, view, route, breaks>>
PowerFails ==
  /\ step = "found" /\ vm[number].runs # (view.want = "running")
  /\ Break /\ Reports("error")
  /\ UNCHANGED <<workerCore, workerHost, view, route>>

\* sync_cloud_init: a snippet that is what it would write is up to date.
\* A slip: it only looks at the guest's first boot, once.
SyncedOnce == snippet # Unset
UpToDate == snippet = view.conf
Works == IF SyncFails /\ breaks < MaxBreaks THEN BOOLEAN ELSE {TRUE}
Broken(ok) == breaks' = IF ok THEN breaks ELSE breaks + 1
\* The drive made again: of the snippet, if the guest is configured with it.
Regenerated(g) == IF g.drive = Unset THEN g ELSE [g EXCEPT !.drive = view.conf]
Sync ==
  /\ step = "sync"
  /\ \/ UpToDate /\ step' = "report" /\ UNCHANGED <<vm, snippet, breaks>>
     \/ /\ ~UpToDate /\ snippet' = view.conf
        /\ \E ok \in Works :
             /\ vm' = IF ok THEN [vm EXCEPT ![number] = Regenerated(@)] ELSE vm
             /\ step' = IF ok /\ vm[number].runs THEN "reboot" ELSE "report"
             /\ Broken(ok)
  /\ UNCHANGED <<workerCore, cloning, owed, view, number, word, route>>
Reboot ==
  /\ step = "reboot" /\ step' = "report"
  /\ \E ok \in Works :
       vm' = (IF ok THEN [vm EXCEPT ![number] = Boots(@)] ELSE vm) /\ Broken(ok)
  /\ UNCHANGED <<workerCore, cloning, snippet, owed, view, number, word, route>>

-----------------------------------------------------------------------------
(* Its create.                                                              *)

\* still_wanted: a fresh view, just before the build.
StillWanted == order.want \in {"running", "stopped"} /\ ~order.built
BuildGate ==
  /\ step = "look"
  /\ \/ /\ StillWanted /\ snippet' = view.conf
        /\ \E k \in Numbers \ There : step' = "record" /\ number' = k
        /\ UNCHANGED <<word, breaks>>
     \/ ~StillWanted /\ Reports("none") /\ UNCHANGED <<snippet, breaks>>
     \/ StillWanted /\ Break /\ snippet' \in {snippet, view.conf} /\ Reports("error")
  /\ UNCHANGED <<workerCore, vm, cloning, owed, view, route>>

Record ==
  /\ step = "record" /\ step' = "clone" /\ owed' = [owed EXCEPT ![number] = "asked"]
  /\ UNCHANGED <<workerCore, vm, cloning, snippet, view, number, word, route, breaks>>

Appears ==
  /\ cloning' = [cloning EXCEPT ![number] = "running"]
  /\ vm' = [vm EXCEPT ![number] =
        [claim |-> FALSE, runs |-> FALSE, drive |-> Unset, args |-> Unset, serves |-> FALSE]]
\* Refused, or its answer lost: the record stays, without the task.
Clone ==
  /\ step = "clone"
  /\ \/ /\ Appears /\ owed' = [owed EXCEPT ![number] = "cloning"] /\ step' = "seen"
        /\ UNCHANGED <<number, word, breaks>>
     \/ Break /\ (Appears \/ UNCHANGED <<vm, cloning>>) /\ Reports("error") /\ UNCHANGED owed
  /\ UNCHANGED <<workerCore, snippet, view, route>>

GivesUp == step' = "undo" /\ owed' = [owed EXCEPT ![number] = "abandoned"]
Seen ==
  /\ step = "seen"
  /\ \/ cloning[number] = "ok" /\ step' = "claim" /\ UNCHANGED <<owed, number, word, breaks>>
     \/ cloning[number] = "failed" /\ GivesUp /\ UNCHANGED <<number, word, breaks>>
     \/ Break /\ Reports("error") /\ UNCHANGED owed
  /\ UNCHANGED <<workerCore, vm, cloning, snippet, view, route>>

Claim ==
  /\ step = "claim" /\ step' = "equip" /\ vm' = [vm EXCEPT ![number].claim = TRUE]
  /\ UNCHANGED <<owed, word, number>>
\* Complete: the record goes, before the start.
Equip ==
  /\ step = "equip" /\ step' = "start" /\ vm' = [vm EXCEPT ![number].drive = snippet]
  /\ owed' = [owed EXCEPT ![number] = "none"] /\ UNCHANGED <<word, number>>
Start ==
  /\ step = "start" /\ vm' = [vm EXCEPT ![number] = Boots(@)] /\ Reports("waiting")
  /\ UNCHANGED owed
Finish ==
  /\ Claim \/ Equip \/ Start
  /\ UNCHANGED <<workerCore, cloning, snippet, view, route, breaks>>
FinishFails ==
  /\ step \in {"claim", "equip", "start"} /\ Break /\ GivesUp
  /\ UNCHANGED <<workerCore, vm, cloning, snippet, view, number, word, route>>

\* abandon_clone: undone, or left with its record.
Undo ==
  /\ step = "undo" /\ Reports("error")
  /\ \/ Destroys(number) /\ owed' = [owed EXCEPT ![number] = "none"] /\ UNCHANGED breaks
     \/ Break /\ UNCHANGED <<vm, cloning, owed>>
  /\ UNCHANGED <<workerCore, snippet, view, route>>

-----------------------------------------------------------------------------
(* What the pass says: the state observed now, the map, then the report.    *)

\* worker_state, and the endpoint only when it serves.
Observed ==
  IF word # "none" \/ number = 0 THEN word
  ELSE IF vm[number].serves THEN "ready" ELSE "waiting"

\* A worker that is not reported keeps what the map has.
Routed(w) == IF w = "none" THEN route ELSE w = "ready"

\* Core hears it, or does not.  It concludes on the words only from a view
\* that carried its question.
Heard(w) ==
  /\ concluded' = (concluded \/ (w = "lost" /\ view.built))
  /\ heardGone' = (heardGone \/ (w = "gone"))
  /\ order' = IF w = "lost" /\ view.built THEN [order EXCEPT !.want = "absent"]
              ELSE IF w = "ready" THEN [order EXCEPT !.built = TRUE] ELSE order
Report ==
  /\ step = "report"
  /\ route' = Routed(Observed)
  /\ \/ Heard(Observed) /\ UNCHANGED breaks
     \/ Break /\ UNCHANGED workerCore
  /\ step' = "idle" /\ view' = NoView /\ number' = 0 /\ word' = "none"
  /\ UNCHANGED workerHost

\* After the claim and before the configuration, it leaves a guest whose record
\* is dropped and which is started as the template made it.
Dies ==
  /\ Break /\ (step = "reboot" => SyncFails)
  /\ halfMade' = (halfMade \/ step = "equip")
  /\ step' = "idle" /\ view' = NoView /\ number' = 0 /\ word' = "none" /\ route' = FALSE
  /\ UNCHANGED <<workerCore, workerHost>>

-----------------------------------------------------------------------------
Agent ==
  /\ \/ Fetch \/ Settled \/ Delete \/ Look \/ NotLooked \/ Power \/ PowerFails \/ Sync \/ Reboot
     \/ BuildGate \/ Record \/ Clone \/ Seen \/ Finish \/ FinishFails \/ Undo \/ Report
     \/ \E k \in Numbers : Settle(k)
  /\ UNCHANGED halfMade

Next ==
  \/ Agent \/ Orders \/ Dies
  \/ \E k \in Numbers : CloneEnds(k) \/ Serves(k) \/ OperatorRemoves(k)

\* Passes come round, clones end, a worker comes to serve, and the operator
\* removes what only the operator may.
Fairness ==
  /\ WF_workerVars(Agent)
  /\ \A k \in Numbers :
       /\ WF_workerVars(CloneEnds(k)) /\ WF_workerVars(Serves(k))
       /\ WF_workerVars(OperatorRemoves(k))

Spec == Init /\ [][Next]_workerVars /\ Fairness

-----------------------------------------------------------------------------
(* Never two of one worker, over creates cut short, lost answers and deaths.*)
OneWorker == Cardinality(There) =< 1

(* Once Core has concluded it lost on the agent's word, nothing of it is on *)
(* the host, and nothing will be.                                           *)
LostIsLost == concluded => There = {}

(* Once Core heard it gone, the tunnel routes nothing to it.                *)
GoneIsNotRouted == heardGone => ~route

(* What Core may count on: one worker, none once it is said lost, and no    *)
(* way to one said gone.                                                    *)
OneWorkerOrNone == OneWorker /\ LostIsLost /\ GoneIsNotRouted

(* A worker that stays asked to run comes to serve, and with the arguments  *)
(* Core sent last, unless the agent died between its claim and its          *)
(* configuration, which nothing makes good.                                 *)
ServesAsAsked ==
  <>[](order.want = "running" /\ ~halfMade) =>
    <>[](\E k \in Claimed : vm[k].serves /\ vm[k].args = order.conf /\ route)
=============================================================================
