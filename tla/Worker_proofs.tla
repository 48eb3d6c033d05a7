--------------------------- MODULE Worker_proofs ---------------------------
(***************************************************************************)
(* What holds of an inference worker for every range of arguments and any  *)
(* number of breaks, whether or not a refresh may fail: its type, and that *)
(* there is one worker, none once it is said lost, and no way to one said  *)
(* gone.                                                                   *)
(***************************************************************************)
EXTENDS Worker, FiniteSetTheorems, TLAPS

-----------------------------------------------------------------------------
(* What a pass knows at each of its steps.                                  *)

\* A guest stands exactly while its clone runs or has ended well; it is claimed
\* only once it has.
CloneThere ==
  /\ \A k \in Numbers : k \in There <=> cloning[k] \in {"running", "ok"}
  /\ \A k \in Claimed : cloning[k] = "ok"

\* The guest in hand: none before a turn; the one being made, its record beside
\* it until it is complete; or one that is claimed.
Creates == {"record", "clone", "seen", "claim", "equip", "undo"}
Handles == {"equip", "start", "found", "sync", "reboot"}
NumberInHand ==
  /\ step \in {"idle", "settle", "turn", "look"} => number = 0
  /\ step \in Creates => number \in Numbers
  /\ step \in Handles => number \in Claimed
  /\ step \in {"seen", "claim"} => owed[number] = "cloning"
  /\ step = "claim" => number \in There /\ cloning[number] = "ok"
  /\ step = "report" => number = 0 \/ number \in Claimed

\* A create begins from nothing here, and nothing appears before its own clone.
FromNothing ==
  /\ step \in {"look", "record"} => There = {} /\ Owed = {}
  /\ step = "clone" => There = {}

\* What the pass is about to say of a worker lost, or gone, is so.
WordIsSo ==
  /\ word = "none" \/ step = "report"
  /\ word # "ready"
  /\ word = "lost" => There = {} /\ Owed = {}
  /\ word = "gone" => Claimed = {} /\ Owed = {} /\ view.want = "absent"

\* Core asks for a worker's end once, and does not take it back.
ViewBehind ==
  /\ view = NoView <=> step = "idle"
  /\ view # NoView /\ view.want = "absent" => order.want = "absent"

\* Core is through with the worker: no pass makes, finds or claims it again.
Through ==
  concluded \/ heardGone =>
    /\ order.want = "absent" /\ step \in {"idle", "settle", "turn", "report"}
    /\ view # NoView => view.want = "absent"
    /\ number = 0 /\ Claimed = {} /\ Owed = {}

\* At most one guest stands.
AtMostOne == \A j, k \in There : j = k

Knows == CloneThere /\ NumberInHand /\ FromNothing /\ WordIsSo /\ ViewBehind /\ Through
           /\ AtMostOne /\ LostIsLost /\ GoneIsNotRouted

-----------------------------------------------------------------------------
(* Every variable has its type.                                             *)

LEMMA GuestTypes ==
  ASSUME NEW g \in Guests
  PROVE  /\ Boots(g) \in Guests /\ Halts(g) \in Guests
         /\ [g EXCEPT !.claim = TRUE] \in Guests /\ [g EXCEPT !.serves = TRUE] \in Guests
         /\ \A d \in Confs \cup {Unset} : [g EXCEPT !.drive = d] \in Guests
  BY DEF Guests, Boots, Halts

\* The guest in hand is one that stands.
LEMMA InHandStands ==
  ASSUME TypeOK, NumberInHand, step \in Handles \cup {"claim"}
  PROVE  number \in Numbers /\ vm[number] \in Guests
  BY DEF TypeOK, NumberInHand, Handles, Creates, Claimed, There

LEMMA BreakType == WorkerAssumption /\ TypeOK /\ Break => breaks' \in 0 .. MaxBreaks
  BY DEF WorkerAssumption, TypeOK, Break

LEMMA BrokenType ==
  ASSUME WorkerAssumption, TypeOK, NEW ok \in Works, Broken(ok) PROVE breaks' \in 0 .. MaxBreaks
<1>1. ok \/ breaks < MaxBreaks
  BY DEF Works
<1> QED BY <1>1 DEF WorkerAssumption, TypeOK, Broken

LEMMA WordTypes ==
  /\ {"none", "ready", "offline", "waiting", "lost", "gone", "error"} \subseteq Words
  /\ {"record", "clone", "seen", "claim", "equip", "start", "undo"} \subseteq Creating
  BY DEF Words, Creating

LEMMA TypeInit == WorkerAssumption /\ Init => TypeOK
<1>1. WorkerAssumption => 1 \in Confs
  BY DEF WorkerAssumption, Confs
<1> SUFFICES ASSUME WorkerAssumption, Init PROVE TypeOK
  OBVIOUS
<1>2. order \in Views
  <2>1. PICK w \in Wants : order = [want |-> w, built |-> FALSE, conf |-> 1]
    BY DEF Init
  <2> QED BY <1>1, <2>1 DEF Views
<1>3. breaks \in 0 .. MaxBreaks
  BY DEF WorkerAssumption, Init
<1> QED BY <1>2, <1>3, WordTypes DEF Init, TypeOK

LEMMA TypeStep == WorkerAssumption /\ TypeOK /\ NumberInHand /\ ViewBehind /\ [Next]_workerVars => TypeOK'
<1> SUFFICES ASSUME WorkerAssumption, TypeOK, NumberInHand, ViewBehind, [Next]_workerVars PROVE TypeOK'
  OBVIOUS
<1> USE WordTypes
<1>h. halfMade' \in BOOLEAN
  <2>1. halfMade' = halfMade \/ (Dies /\ halfMade' = (halfMade \/ step = "equip"))
    BY DEF Next, Agent, Orders, CloneEnds, Serves, OperatorRemoves, Dies, workerVars
  <2> QED BY <2>1 DEF TypeOK
<1>1. CASE UNCHANGED workerVars
  BY <1>1 DEF workerVars, TypeOK, workerCore, workerHost, workerPass
\* Core and the guests.
<1>2. CASE Orders
  <2>1. order' \in Views
    <3>1. order \in Views
      BY DEF TypeOK
    <3>2. ASSUME NEW w \in Wants PROVE [order EXCEPT !.want = w] \in Views /\ [order EXCEPT !.built = TRUE] \in Views
      BY <3>1 DEF Views
    <3>3. order.conf < MaxConf => [order EXCEPT !.conf = @ + 1] \in Views
      <4>1. order.conf < MaxConf => order.conf + 1 \in Confs
        BY <3>1 DEF Views, Confs, WorkerAssumption
      <4> QED BY <3>1, <4>1 DEF Views
    <3> QED BY <1>2, <3>2, <3>3 DEF Orders, Wants
  <2> QED BY <1>2, <2>1 DEF Orders, TypeOK, workerHost, workerPass
<1>3. ASSUME NEW k \in Numbers, CloneEnds(k) \/ OperatorRemoves(k) PROVE TypeOK'
  BY <1>3, BreakType DEF CloneEnds, OperatorRemoves, TypeOK, workerCore, workerPass
<1>4. ASSUME NEW k \in Numbers, Serves(k) PROVE TypeOK'
  <2>1. vm[k] \in Guests
    BY <1>4 DEF Serves, There, TypeOK
  <2>2. vm' \in [Numbers -> Guests \cup {NoGuest}]
    BY <1>4, <2>1, GuestTypes DEF Serves, TypeOK
  <2> QED BY <1>4, <2>2 DEF Serves, TypeOK, workerCore, workerPass
\* The pass, before and after its turn.
<1>5. CASE Fetch \/ Settled \/ Dies
  BY <1>5, <1>h, BreakType DEF Fetch, Settled, Dies, TypeOK, workerCore, workerHost
<1>6. ASSUME NEW k \in Numbers, Settle(k) PROVE TypeOK'
  <2>1. vm' \in [Numbers -> Guests \cup {NoGuest}] /\ cloning' \in [Numbers -> {"none", "running", "ok", "failed"}]
    <3>1. k \in Stamped => vm[k] \in Guests
      BY DEF Stamped, There, TypeOK
    <3> QED BY <1>6, <3>1, GuestTypes DEF Settle, Settles, Drops, Destroys, TypeOK
  <2>2. owed' \in [Numbers -> {"none", "asked", "cloning", "abandoned"}]
    BY <1>6 DEF Settle, Settles, Drops, TypeOK
  <2> QED BY <1>6, <1>h, <2>1, <2>2 DEF Settle, Settles, TypeOK, workerCore, workerPass
<1>7. CASE Report
  <2>1. order' \in Views
    <3>1. ASSUME NEW w PROVE [order EXCEPT !.want = "absent"] \in Views /\ [order EXCEPT !.built = TRUE] \in Views
      BY DEF TypeOK, Views, Wants
    <3> QED BY <1>7, <3>1 DEF Report, Heard, TypeOK, workerCore
  <2>2. route' \in BOOLEAN
    BY <1>7 DEF Report, Routed, TypeOK
  <2>3. concluded' \in BOOLEAN /\ heardGone' \in BOOLEAN
    BY <1>7 DEF Report, Heard, TypeOK, workerCore
  <2> QED BY <1>7, <1>h, <2>1, <2>2, <2>3, BreakType DEF Report, TypeOK, workerHost
\* Its turn.
<1>8. CASE Delete
  BY <1>8, <1>h, BreakType DEF Delete, Reports, TypeOK, workerCore
<1>9. CASE Look \/ NotLooked \/ PowerFails
  BY <1>9, <1>h, BreakType DEF Look, NotLooked, PowerFails, Reports, Claimed, There, TypeOK, workerCore, workerHost
<1>10. CASE Power
  <2>1. vm' \in [Numbers -> Guests \cup {NoGuest}]
    BY <1>10, InHandStands, GuestTypes DEF Power, Handles, TypeOK
  <2> QED BY <1>10, <1>h, <2>1 DEF Power, TypeOK, workerCore
<1>11. CASE Sync
  <2>1. view.conf \in Confs
    BY <1>11 DEF Sync, ViewBehind, TypeOK, Views
  <2>2. number \in Numbers /\ vm[number] \in Guests
    BY <1>11, InHandStands DEF Sync, Handles
  <2>3. Regenerated(vm[number]) \in Guests
    BY <2>1, <2>2, GuestTypes DEF Regenerated
  <2>4. vm' \in [Numbers -> Guests \cup {NoGuest}]
    BY <1>11, <2>2, <2>3 DEF Sync, TypeOK
  <2> QED BY <1>11, <1>h, <2>1, <2>4, BrokenType DEF Sync, TypeOK, workerCore
<1>12. CASE Reboot
  <2>1. vm' \in [Numbers -> Guests \cup {NoGuest}]
    BY <1>12, InHandStands, GuestTypes DEF Reboot, Handles, TypeOK
  <2> QED BY <1>12, <1>h, <2>1, BrokenType DEF Reboot, TypeOK, workerCore
\* Its create.
<1>13. CASE BuildGate
  <2>1. view.conf \in Confs
    BY <1>13 DEF BuildGate, ViewBehind, TypeOK, Views
  <2> QED BY <1>13, <1>h, <2>1, BreakType DEF BuildGate, Reports, TypeOK, workerCore
<1>14. CASE Record \/ Seen \/ FinishFails
  BY <1>14, <1>h, BreakType DEF Record, Seen, FinishFails, GivesUp, Reports, TypeOK, workerCore
<1>15. CASE Clone
  <2>1. [claim |-> FALSE, runs |-> FALSE, drive |-> Unset, args |-> Unset, serves |-> FALSE] \in Guests
    BY DEF Guests
  <2> QED BY <1>15, <1>h, <2>1, BreakType DEF Clone, Appears, Reports, TypeOK, workerCore
<1>16. CASE Finish
  <2>1. vm' \in [Numbers -> Guests \cup {NoGuest}]
    <3>1. number \in Numbers /\ vm[number] \in Guests
      BY <1>16, InHandStands DEF Finish, Claim, Equip, Start, Handles
    <3>2. snippet \in Confs \cup {Unset}
      BY DEF TypeOK
    <3>3. /\ Boots(vm[number]) \in Guests /\ [vm[number] EXCEPT !.claim = TRUE] \in Guests
          /\ [vm[number] EXCEPT !.drive = snippet] \in Guests
      BY <3>1, <3>2, GuestTypes
    <3> QED BY <1>16, <3>1, <3>3 DEF Finish, Claim, Equip, Start, TypeOK
  <2> QED BY <1>16, <1>h, <2>1 DEF Finish, Claim, Equip, Start, Reports, TypeOK, workerCore
<1>17. CASE Undo
  BY <1>17, <1>h, BreakType DEF Undo, Destroys, Reports, TypeOK, workerCore
<1> QED
  BY <1>1, <1>2, <1>3, <1>4, <1>5, <1>6, <1>7, <1>8, <1>9, <1>10, <1>11, <1>12, <1>13, <1>14, <1>15,
     <1>16, <1>17
  DEF Next, Agent

-----------------------------------------------------------------------------
(* How the guests move: who stands, and who of them is claimed.             *)

Same == There' = There /\ Claimed' = Claimed

LEMMA SameGuests == UNCHANGED vm => Same
  BY DEF Same, There, Claimed

LEMMA GuestClaims ==
  ASSUME NEW g \in Guests
  PROVE  /\ Boots(g).claim = g.claim /\ Halts(g).claim = g.claim
         /\ \A d : [g EXCEPT !.drive = d].claim = g.claim
         /\ [g EXCEPT !.claim = TRUE].claim = TRUE /\ [g EXCEPT !.serves = TRUE].claim = g.claim
         /\ g.claim \in BOOLEAN
  BY DEF Guests, Boots, Halts

\* A step at the guest in hand keeps it, and its claim; the create's adds that.
LEMMA HandledGuests ==
  ASSUME WorkerAssumption, TypeOK, NumberInHand, ViewBehind, Power \/ Sync \/ Reboot \/ Finish
  PROVE  There' = There /\ Claimed' = (IF step = "claim" THEN Claimed \cup {number} ELSE Claimed)
<1>1. number \in Numbers /\ vm[number] \in Guests
  BY InHandStands DEF Power, Sync, Reboot, Finish, Claim, Equip, Start, Handles
<1> DEFINE g == vm[number]
<1>a. /\ Boots(g) \in Guests /\ Halts(g) \in Guests /\ [g EXCEPT !.claim = TRUE] \in Guests
      /\ \A d \in Confs \cup {Unset} : [g EXCEPT !.drive = d] \in Guests
  BY <1>1, GuestTypes
<1>b. /\ Boots(g).claim = g.claim /\ Halts(g).claim = g.claim /\ [g EXCEPT !.claim = TRUE].claim = TRUE
      /\ \A d : [g EXCEPT !.drive = d].claim = g.claim
      /\ g.claim \in BOOLEAN
  BY <1>1, GuestClaims
<1>2. /\ \A k \in Numbers : k # number => vm'[k] = vm[k]
      /\ vm'[number] \in Guests
      /\ vm'[number].claim = (g.claim \/ step = "claim")
  <2>1. CASE Power
    BY <1>1, <2>1, <1>a, <1>b DEF Power, TypeOK
  <2>2. CASE Sync
    <3>1. view.conf \in Confs
      BY <2>2 DEF Sync, ViewBehind, TypeOK, Views
    <3>2. Regenerated(g) \in Guests /\ Regenerated(g).claim = g.claim
      BY <1>1, <3>1, <1>a, <1>b DEF Regenerated
    <3> QED BY <1>1, <2>2, <3>2, <1>b DEF Sync, TypeOK
  <2>3. CASE Reboot
    BY <1>1, <2>3, <1>a, <1>b DEF Reboot, TypeOK
  <2>4. CASE Finish
    <3>1. snippet \in Confs \cup {Unset}
      BY DEF TypeOK
    <3>2. [vm[number] EXCEPT !.drive = snippet] \in Guests /\ [vm[number] EXCEPT !.drive = snippet].claim = vm[number].claim
      BY <3>1, <1>a, <1>b
    <3> QED BY <1>1, <2>4, <3>2, <1>a, <1>b DEF Finish, Claim, Equip, Start, TypeOK
  <2> QED BY <2>1, <2>2, <2>3, <2>4
<1>3. \A k \in Numbers : vm'[k] = NoGuest <=> vm[k] = NoGuest
  BY <1>1, <1>2 DEF WorkerAssumption
<1>4. There' = There
  BY <1>3 DEF There
<1>5. number \in There
  BY <1>1 DEF There, WorkerAssumption
<1>6. \A k \in There : vm'[k].claim <=> (vm[k].claim \/ (step = "claim" /\ k = number))
  <2>1. \A k \in There : k \in Numbers
    BY DEF There
  <2>2. vm'[number].claim <=> (vm[number].claim \/ step = "claim")
    BY <1>1, <1>2, <1>b
  <2>3. \A k \in Numbers : k # number => (vm'[k].claim <=> vm[k].claim)
    BY <1>2
  <2> QED BY <2>1, <2>2, <2>3
<1>7. Claimed' = {k \in There : vm'[k].claim}
  BY <1>4 DEF Claimed
<1> QED BY <1>4, <1>5, <1>6, <1>7 DEF Claimed

LEMMA ServingGuests ==
  ASSUME WorkerAssumption, TypeOK, NEW k \in Numbers, Serves(k) PROVE Same
<1>1. vm[k] \in Guests
  BY DEF Serves, There, TypeOK
<1>2. /\ \A j \in Numbers : j # k => vm'[j] = vm[j]
      /\ vm'[k] \in Guests /\ vm'[k].claim = vm[k].claim
  BY <1>1, GuestTypes, GuestClaims DEF Serves, TypeOK
<1>3. There' = There
  BY <1>1, <1>2 DEF There, WorkerAssumption
<1>4. Claimed' = {j \in There : vm'[j].claim}
  BY <1>3 DEF Claimed
<1> QED BY <1>2, <1>3, <1>4 DEF Same, Claimed, There

LEMMA GoneGuests ==
  ASSUME TypeOK, NEW k \in Numbers, vm' = [vm EXCEPT ![k] = NoGuest]
  PROVE  There' = There \ {k} /\ Claimed' = Claimed \ {k}
<1>1. vm'[k] = NoGuest /\ \A j \in Numbers : j # k => vm'[j] = vm[j]
  BY DEF TypeOK
<1>2. There' = There \ {k}
  BY <1>1 DEF There
<1>3. Claimed' = {j \in There \ {k} : vm'[j].claim}
  BY <1>2 DEF Claimed
<1> QED BY <1>1, <1>2, <1>3 DEF Claimed, There

LEMMA AppearedGuest ==
  ASSUME WorkerAssumption, TypeOK, number \in Numbers, Appears
  PROVE  There' = There \cup {number} /\ Claimed' = Claimed \ {number}
<1>1. /\ vm'[number] = [claim |-> FALSE, runs |-> FALSE, drive |-> Unset, args |-> Unset, serves |-> FALSE]
      /\ \A j \in Numbers : j # number => vm'[j] = vm[j]
  BY DEF Appears, TypeOK
<1>2. [claim |-> FALSE, runs |-> FALSE, drive |-> Unset, args |-> Unset, serves |-> FALSE] \in Guests
  BY DEF Guests
<1>3. vm'[number] # NoGuest /\ ~vm'[number].claim
  <2>1. vm'[number] \in Guests /\ vm'[number].claim = FALSE
    BY <1>1, <1>2
  <2> QED BY <2>1 DEF WorkerAssumption
<1>4. There' = There \cup {number}
  BY <1>1, <1>3 DEF There
<1>5. Claimed' = {j \in There \cup {number} : vm'[j].claim}
  BY <1>4 DEF Claimed
<1> QED BY <1>1, <1>3, <1>4, <1>5 DEF Claimed, There

\* What a record's settling does to the guests.
LEMMA SettledGuests ==
  ASSUME WorkerAssumption, TypeOK, NEW k \in Numbers, Settle(k)
  PROVE  \/ Same /\ UNCHANGED cloning
         \/ /\ There' = There /\ Claimed' = Claimed \cup {k} /\ k \in There
            /\ UNCHANGED cloning /\ cloning[k] = "ok"
         \/ There' = There \ {k} /\ Claimed' = Claimed \ {k} /\ Destroys(k)
<1>1. CASE Drops(k)
  BY <1>1, SameGuests DEF Drops
<1>2. CASE /\ k \in Stamped /\ cloning[k] = "ok" /\ vm' = [vm EXCEPT ![k].claim = TRUE] /\ UNCHANGED cloning
  <2>1. vm[k] \in Guests /\ k \in There
    BY <1>2 DEF Stamped, There, TypeOK
  <2>2. /\ \A j \in Numbers : j # k => vm'[j] = vm[j]
        /\ vm'[k] \in Guests /\ vm'[k].claim = TRUE
    BY <1>2, <2>1, GuestTypes, GuestClaims DEF TypeOK
  <2>3. There' = There
    BY <2>1, <2>2 DEF There, WorkerAssumption
  <2>4. Claimed' = {j \in There : vm'[j].claim}
    BY <2>3 DEF Claimed
  <2>5. Claimed' = Claimed \cup {k}
    BY <2>1, <2>2, <2>4 DEF Claimed, There
  <2> QED BY <1>2, <2>1, <2>3, <2>5
<1>3. CASE Destroys(k)
  BY <1>3, GoneGuests DEF Destroys
<1> QED BY <1>1, <1>2, <1>3 DEF Settle, Settles

\* A delete takes what is claimed, or leaves all of it.
LEMMA DeletedGuests ==
  ASSUME TypeOK, Delete
  PROVE  \/ Same /\ UNCHANGED cloning /\ word' = "error"
         \/ /\ There' = There \ Claimed /\ Claimed' = {} /\ Owed = {} /\ word' = "gone"
            /\ cloning' = [k \in Numbers |-> IF k \in Claimed THEN "none" ELSE cloning[k]]
<1>1. CASE UNCHANGED <<vm, cloning>> /\ word' = "error"
  BY <1>1, SameGuests
<1>2. CASE /\ vm' = [k \in Numbers |-> IF k \in Claimed THEN NoGuest ELSE vm[k]]
           /\ cloning' = [k \in Numbers |-> IF k \in Claimed THEN "none" ELSE cloning[k]]
           /\ Owed = {} /\ Reports("gone")
  <2>1. \A k \in Numbers : vm'[k] = IF k \in Claimed THEN NoGuest ELSE vm[k]
    BY <1>2
  <2>2. There' = There \ Claimed
    BY <2>1 DEF There
  <2>3. Claimed' = {k \in There \ Claimed : vm'[k].claim}
    BY <2>2 DEF Claimed
  <2>4. Claimed' = {}
    BY <2>1, <2>3 DEF Claimed, There
  <2> QED BY <1>2, <2>2, <2>4 DEF Reports
<1> QED BY <1>1, <1>2 DEF Delete, Reports

-----------------------------------------------------------------------------
(* What every step does to the guests, at once.                             *)

\* The steps that leave the guests as they are.
Quiet ==
  \/ Orders \/ Fetch \/ Settled \/ Look \/ NotLooked \/ PowerFails \/ BuildGate \/ Record \/ Seen
  \/ FinishFails \/ Report \/ Dies \/ UNCHANGED workerVars
\* The steps at the guest in hand.
Handling == Power \/ Sync \/ Reboot \/ Finish
\* A guest is gone: its clone failed, the operator took it, or it was undone.
Leaves(k) ==
  /\ There' = There \ {k} /\ Claimed' = Claimed \ {k}
  /\ cloning' \in {[cloning EXCEPT ![k] = "failed"], [cloning EXCEPT ![k] = "none"]}

LEMMA QuietGuests == Quiet => Same /\ UNCHANGED cloning
<1> SUFFICES ASSUME Quiet PROVE UNCHANGED <<vm, cloning>>
  BY SameGuests
<1> QED
  BY DEF Quiet, Orders, Fetch, Settled, Look, NotLooked, PowerFails, BuildGate, Record, Seen, FinishFails, Report,
         Dies, workerVars, workerHost

LEMMA GuestsMove ==
  ASSUME WorkerAssumption, TypeOK, NumberInHand, ViewBehind, [Next]_workerVars
  PROVE  \/ Quiet
         \/ Handling
         \/ \E k \in Numbers : Serves(k) \/ CloneEnds(k) \/ OperatorRemoves(k) \/ Settle(k)
         \/ Delete \/ Clone \/ Undo
  BY DEF Next, Agent, Quiet, Handling

LEMMA EndedClone ==
  ASSUME TypeOK, NEW k \in Numbers, CloneEnds(k)
  PROVE  \/ Same /\ cloning[k] = "running" /\ cloning' = [cloning EXCEPT ![k] = "ok"]
         \/ Leaves(k) /\ cloning[k] = "running"
  BY SameGuests, GoneGuests DEF CloneEnds, Leaves

LEMMA OperatorsGuest ==
  ASSUME TypeOK, NEW k \in Numbers, OperatorRemoves(k)
  PROVE  Leaves(k) /\ k \notin Claimed /\ owed[k] = "none"
  BY GoneGuests DEF OperatorRemoves, Leaves, Stamped

LEMMA UndoneGuest ==
  ASSUME TypeOK, NumberInHand, Undo
  PROVE  (Same /\ UNCHANGED cloning) \/ Leaves(number)
<1>1. number \in Numbers
  BY DEF Undo, NumberInHand, Creates
<1> QED BY <1>1, SameGuests, GoneGuests DEF Undo, Destroys, Leaves

LEMMA ClonedGuest ==
  ASSUME WorkerAssumption, TypeOK, NumberInHand, Clone
  PROVE  /\ number \in Numbers
         /\ \/ Same /\ UNCHANGED cloning
            \/ /\ There' = There \cup {number} /\ Claimed' = Claimed \ {number}
               /\ cloning' = [cloning EXCEPT ![number] = "running"]
<1>1. number \in Numbers
  BY DEF Clone, NumberInHand, Creates
<1> QED BY <1>1, SameGuests, AppearedGuest DEF Clone, Appears

\* Only a clone adds a guest; only a create's claim, and the settling of a
\* record, add a claim; only a create owes a record.
LEMMA OnlyClonesAdd ==
  ASSUME WorkerAssumption, TypeOK, NumberInHand, ViewBehind, [Next]_workerVars, step # "clone"
  PROVE  There' \subseteq There
<1>1. CASE Quiet
  BY <1>1, QuietGuests DEF Same
<1>2. CASE Handling
  BY <1>2, HandledGuests DEF Handling
<1>3. ASSUME NEW k \in Numbers, Serves(k) \/ CloneEnds(k) \/ OperatorRemoves(k) \/ Settle(k) PROVE There' \subseteq There
  BY <1>3, ServingGuests, EndedClone, OperatorsGuest, SettledGuests DEF Same, Leaves
<1>4. CASE Delete \/ Undo
  BY <1>4, DeletedGuests, UndoneGuest DEF Same, Leaves
<1>5. ~Clone
  BY DEF Clone
<1> QED BY <1>1, <1>2, <1>3, <1>4, <1>5, GuestsMove

LEMMA OnlyOwedClaimed ==
  ASSUME WorkerAssumption, TypeOK, NumberInHand, ViewBehind, [Next]_workerVars, Owed = {}
  PROVE  Claimed' \subseteq Claimed
<1>1. CASE Quiet
  BY <1>1, QuietGuests DEF Same
<1>2. CASE Handling
  <2>1. step = "claim" => number \in Owed
    BY DEF NumberInHand, Creates, Owed
  <2> QED BY <1>2, <2>1, HandledGuests DEF Handling
<1>3. ASSUME NEW k \in Numbers, Serves(k) \/ CloneEnds(k) \/ OperatorRemoves(k) PROVE Claimed' \subseteq Claimed
  BY <1>3, ServingGuests, EndedClone, OperatorsGuest DEF Same, Leaves
<1>4. CASE Delete \/ Undo \/ Clone
  BY <1>4, DeletedGuests, UndoneGuest, ClonedGuest DEF Same, Leaves
<1>5. \A k \in Numbers : ~Settle(k)
  BY DEF Settle, Settles, Owed
<1> QED BY <1>1, <1>2, <1>3, <1>4, <1>5, GuestsMove

LEMMA OnlyCreatesOwe ==
  ASSUME TypeOK, [Next]_workerVars, step \notin Creates \cup {"start"}
  PROVE  Owed' \subseteq Owed
<1>1. UNCHANGED owed \/ \E k \in Numbers : Settle(k)
  BY DEF Creates, Next, Agent, Orders, Fetch, Settled, Delete, Look, NotLooked, Power, PowerFails, Sync, Reboot, BuildGate,
    Record, Clone, Seen, Finish, Claim, Equip, Start, FinishFails, Undo, Report, Dies, CloneEnds, Serves, OperatorRemoves,
    workerVars, workerHost
<1>2. CASE UNCHANGED owed
  BY <1>2 DEF Owed
<1>3. ASSUME NEW k \in Numbers, Settle(k) PROVE Owed' \subseteq Owed
  BY <1>3 DEF Settle, Settles, Drops, Owed, TypeOK
<1> QED BY <1>1, <1>2, <1>3

-----------------------------------------------------------------------------
(* What a pass knows is kept.                                               *)

LEMMA KnowsInit == WorkerAssumption /\ Init => Knows
<1> SUFFICES ASSUME WorkerAssumption, Init PROVE Knows
  OBVIOUS
<1>1. There = {} /\ Claimed = {} /\ Owed = {}
  BY DEF Init, There, Claimed, Owed
<1>2. \A k \in Numbers : cloning[k] = "none"
  BY DEF Init
<1> QED
  BY <1>1, <1>2
  DEF Init, Knows, CloneThere, NumberInHand, Creates, Handles, FromNothing, WordIsSo, ViewBehind, Through,
      AtMostOne, LostIsLost, GoneIsNotRouted

LEMMA CloneThereStep ==
  ASSUME WorkerAssumption, TypeOK, NumberInHand, ViewBehind, CloneThere, [Next]_workerVars
  PROVE  CloneThere'
<1>0. cloning \in [Numbers -> {"none", "running", "ok", "failed"}] /\ Claimed \subseteq There /\ There \subseteq Numbers
  BY DEF TypeOK, Claimed, There
<1>1. ASSUME Same, UNCHANGED cloning PROVE CloneThere'
  BY <1>1 DEF Same, CloneThere
<1>2. ASSUME NEW k \in Numbers, Leaves(k) PROVE CloneThere'
  BY <1>0, <1>2 DEF Leaves, CloneThere
<1>3. CASE Quiet
  BY <1>1, <1>3, QuietGuests
<1>4. CASE Handling
  <2>1. UNCHANGED cloning
    BY <1>4 DEF Handling, Power, Sync, Reboot, Finish
  <2>2. step = "claim" => cloning[number] = "ok"
    BY DEF NumberInHand
  <2> QED BY <1>4, <2>1, <2>2, HandledGuests DEF Handling, CloneThere
<1>5. ASSUME NEW k \in Numbers, Serves(k) \/ CloneEnds(k) \/ OperatorRemoves(k) \/ Settle(k) PROVE CloneThere'
  <2>1. CASE Serves(k)
    BY <1>1, <2>1, ServingGuests DEF Serves
  <2>2. CASE CloneEnds(k)
    <3>1. CASE Same /\ cloning[k] = "running" /\ cloning' = [cloning EXCEPT ![k] = "ok"]
      BY <1>0, <3>1 DEF Same, CloneThere
    <3> QED BY <1>2, <2>2, <3>1, EndedClone
  <2>3. CASE OperatorRemoves(k)
    BY <1>2, <2>3, OperatorsGuest
  <2>4. CASE Settle(k)
    <3>1. CASE There' = There /\ Claimed' = Claimed \cup {k} /\ UNCHANGED cloning /\ cloning[k] = "ok"
      BY <3>1 DEF CloneThere
    <3>2. CASE There' = There \ {k} /\ Claimed' = Claimed \ {k} /\ Destroys(k)
      BY <1>2, <3>2 DEF Destroys, Leaves
    <3> QED BY <1>1, <2>4, <3>1, <3>2, SettledGuests
  <2> QED BY <1>5, <2>1, <2>2, <2>3, <2>4
<1>6. CASE Delete
  <2>1. CASE /\ There' = There \ Claimed /\ Claimed' = {}
             /\ cloning' = [k \in Numbers |-> IF k \in Claimed THEN "none" ELSE cloning[k]]
    BY <1>0, <2>1 DEF CloneThere
  <2> QED BY <1>1, <1>6, <2>1, DeletedGuests
<1>7. CASE Clone
  <2>1. CASE /\ There' = There \cup {number} /\ Claimed' = Claimed \ {number}
             /\ cloning' = [cloning EXCEPT ![number] = "running"]
    BY <1>0, <1>7, <2>1, ClonedGuest DEF CloneThere
  <2> QED BY <1>1, <1>7, <2>1, ClonedGuest
<1>8. CASE Undo
  <2>1. number \in Numbers
    BY <1>8 DEF Undo, NumberInHand, Creates
  <2> QED BY <1>1, <1>2, <1>8, <2>1, UndoneGuest
<1> QED BY <1>3, <1>4, <1>5, <1>6, <1>7, <1>8, GuestsMove

LEMMA NumberStep ==
  ASSUME WorkerAssumption, TypeOK, NumberInHand, ViewBehind, CloneThere, [Next]_workerVars
  PROVE  NumberInHand'
<1>0. /\ cloning \in [Numbers -> {"none", "running", "ok", "failed"}] /\ Claimed \subseteq There /\ There \subseteq Numbers
      /\ owed \in [Numbers -> {"none", "asked", "cloning", "abandoned"}]
  BY DEF TypeOK, Claimed, There
<1> USE DEF NumberInHand, Creates, Handles
\* The step and the number as they were: the guest in hand is still there.
<1>1. ASSUME UNCHANGED <<step, number, owed>>, There \cap {number} \subseteq There', Claimed \cap {number} \subseteq Claimed',
             number \in There => cloning'[number] = cloning[number] \/ cloning[number] # "ok"
      PROVE  NumberInHand'
  BY <1>0, <1>1
<1>2. CASE Orders \/ UNCHANGED workerVars
  <2>1. Same /\ UNCHANGED cloning
    BY <1>2, QuietGuests DEF Quiet
  <2> QED BY <1>1, <1>2, <2>1 DEF Same, Orders, workerVars, workerPass, workerHost
<1>3. CASE Fetch \/ Settled \/ NotLooked \/ PowerFails \/ Record \/ FinishFails \/ Report \/ Dies
  <2>1. Same /\ UNCHANGED cloning
    BY <1>3, QuietGuests DEF Quiet
  <2> QED BY <1>0, <1>3, <2>1 DEF Same, Fetch, Settled, NotLooked, PowerFails, Record, FinishFails, GivesUp, Report, Reports, Dies
<1>4. CASE Look \/ BuildGate \/ Seen
  <2>1. Same /\ UNCHANGED cloning
    BY <1>4, QuietGuests DEF Quiet
  <2>2. CASE Look
    BY <1>0, <2>1, <2>2 DEF Same, Look, Reports
  <2>3. CASE BuildGate
    BY <1>0, <2>1, <2>3 DEF Same, BuildGate, Reports
  <2>4. CASE Seen
    <3>1. CASE step' = "claim"
      <4>1. cloning[number] = "ok" /\ number \in Numbers /\ UNCHANGED <<number, owed>>
        BY <2>4, <3>1 DEF Seen, GivesUp, Reports
      <4>2. number \in There
        BY <4>1 DEF CloneThere
      <4> QED BY <2>1, <2>4, <3>1, <4>1, <4>2 DEF Same, Seen
    <3> QED BY <1>0, <2>1, <2>4, <3>1 DEF Same, Seen, GivesUp, Reports
  <2> QED BY <1>4, <2>2, <2>3, <2>4
<1>5. CASE Handling
  <2>1. There' = There /\ Claimed' = IF step = "claim" THEN Claimed \cup {number} ELSE Claimed
    BY <1>5, HandledGuests DEF Handling
  <2> QED BY <1>0, <1>5, <2>1 DEF Handling, Power, Sync, Reboot, Finish, Claim, Equip, Start, Reports
<1>6. ASSUME NEW k \in Numbers, Serves(k) \/ CloneEnds(k) \/ OperatorRemoves(k) PROVE NumberInHand'
  <2>1. UNCHANGED <<step, number, owed>>
    BY <1>6 DEF Serves, CloneEnds, OperatorRemoves, workerPass
  <2>2. CASE Serves(k)
    BY <1>1, <2>1, <2>2, ServingGuests DEF Serves, Same
  <2>3. CASE CloneEnds(k)
    <3>1. CASE Same /\ cloning[k] = "running" /\ cloning' = [cloning EXCEPT ![k] = "ok"]
      BY <1>0, <1>1, <2>1, <3>1 DEF Same
    <3>2. CASE Leaves(k) /\ cloning[k] = "running"
      <4>1. k \notin Claimed /\ (step = "claim" => number # k)
        BY <3>2 DEF CloneThere
      <4> QED BY <1>0, <2>1, <3>2, <4>1 DEF Leaves
    <3> QED BY <2>3, <3>1, <3>2, EndedClone
  <2>4. CASE OperatorRemoves(k)
    <3>1. Leaves(k) /\ k \notin Claimed /\ owed[k] = "none"
      BY <2>4, OperatorsGuest
    <3>2. step = "claim" => number # k
      BY <3>1
    <3> QED BY <1>0, <2>1, <3>1, <3>2 DEF Leaves
  <2> QED BY <1>6, <2>2, <2>3, <2>4
<1>7. ASSUME NEW k \in Numbers, Settle(k) PROVE NumberInHand'
  BY <1>7 DEF Settle, workerPass
<1>8. CASE Delete \/ Undo
  BY <1>8 DEF Delete, Undo, Reports
<1>9. CASE Clone
  BY <1>0, <1>9, ClonedGuest DEF Clone, Reports
<1> QED BY <1>2, <1>3, <1>4, <1>5, <1>6, <1>7, <1>8, <1>9, GuestsMove DEF Quiet

LEMMA FromNothingStep ==
  ASSUME WorkerAssumption, TypeOK, NumberInHand, ViewBehind, FromNothing, [Next]_workerVars
  PROVE  FromNothing'
<1>1. ASSUME step' \in {"look", "record", "clone"}
      PROVE  \/ step' = "look" /\ Look
             \/ step' = "record" /\ BuildGate
             \/ step' = "clone" /\ Record
             \/ step' = step
  BY <1>1 DEF Next, Agent, Orders, Fetch, Settled, Delete, Look, NotLooked, Power, PowerFails, Sync, Reboot, BuildGate,
    Record, Clone, Seen, Finish, Claim, Equip, Start, FinishFails, GivesUp, Undo, Report, Reports, Dies, CloneEnds, Serves,
    OperatorRemoves, Settle, workerVars, workerPass
<1>2. CASE step' = "look" /\ Look
  <2>1. There = {} /\ Owed = {}
    BY <1>2 DEF Look, NothingHere, Clones, Stamped, Reports
  <2>2. There' \subseteq There /\ Owed' \subseteq Owed
    BY <1>2, OnlyClonesAdd, OnlyCreatesOwe DEF Look, Creates
  <2> QED BY <1>2, <2>1, <2>2 DEF FromNothing
<1>3. CASE step' = "record" /\ BuildGate
  <2>1. There' \subseteq There /\ Owed' \subseteq Owed
    BY <1>3, OnlyClonesAdd, OnlyCreatesOwe DEF BuildGate, Creates
  <2> QED BY <1>3, <2>1 DEF FromNothing, BuildGate
<1>4. CASE step' = "clone" /\ Record
  <2>1. There' \subseteq There
    BY <1>4, OnlyClonesAdd DEF Record
  <2> QED BY <1>4, <2>1 DEF FromNothing, Record
<1>5. CASE step' = step
  <2>1. CASE step = "look" \/ step = "record"
    <3>1. There' \subseteq There
      BY <2>1, OnlyClonesAdd
    <3>2. step = "look" => Owed' \subseteq Owed
      BY OnlyCreatesOwe DEF Creates
    <3>3. step = "record" => UNCHANGED owed
      BY <1>5 DEF Next, Agent, Orders, Fetch, Settled, Delete, Look, NotLooked, Power, PowerFails, Sync, Reboot, BuildGate,
        Record, Clone, Seen, Finish, Claim, Equip, Start, FinishFails, GivesUp, Undo, Report, Reports, Dies, CloneEnds, Serves,
        OperatorRemoves, Settle, workerVars, workerHost
    <3>4. step = "record" => Owed' = Owed
      BY <3>3 DEF Owed
    <3> QED BY <1>5, <2>1, <3>1, <3>2, <3>4 DEF FromNothing
  <2>2. CASE step = "clone"
    <3>1. ~Clone
      BY <1>5, <2>2 DEF Clone, Reports
    <3>2. There' \subseteq There
      <4>1. ~Delete /\ ~Undo /\ ~Handling /\ \A k \in Numbers : ~Settle(k)
        BY <2>2 DEF Delete, Undo, Handling, Power, Sync, Reboot, Finish, Claim, Equip, Start, Settle
      <4> QED
        BY <3>1, <4>1, GuestsMove, QuietGuests, ServingGuests, EndedClone, OperatorsGuest DEF Same, Leaves
    <3> QED BY <1>5, <2>2, <3>2 DEF FromNothing
  <2> QED BY <1>5, <2>1, <2>2 DEF FromNothing
<1> QED BY <1>1, <1>2, <1>3, <1>4, <1>5 DEF FromNothing

LEMMA WordStep ==
  ASSUME WorkerAssumption, TypeOK, NumberInHand, ViewBehind, WordIsSo, [Next]_workerVars
  PROVE  WordIsSo'
<1>0. Claimed \subseteq There
  BY DEF Claimed
\* A word is said on the way to the report, and kept there.
<1>1. (word' = "none" \/ step' = "report") /\ word' # "ready"
  BY DEF WordIsSo, Next, Agent, Orders, Fetch, Settled, Delete, Look, NotLooked, Power, PowerFails, Sync, Reboot, BuildGate,
    Record, Clone, Seen, Finish, Claim, Equip, Start, FinishFails, GivesUp, Undo, Report, Reports, Dies, CloneEnds, Serves,
    OperatorRemoves, Settle, workerVars, workerPass
<1>2. ASSUME word' \in {"lost", "gone"}
      PROVE  \/ word' = "lost" /\ Look /\ NothingHere
             \/ word' = "gone" /\ Delete
             \/ word' = word /\ view' = view /\ step = "report"
  BY <1>2 DEF WordIsSo, Next, Agent, Orders, Fetch, Settled, Delete, Look, NotLooked, Power, PowerFails, Sync, Reboot, BuildGate,
    Record, Clone, Seen, Finish, Claim, Equip, Start, FinishFails, GivesUp, Undo, Report, Reports, Dies, CloneEnds, Serves,
    OperatorRemoves, Settle, workerVars, workerPass
<1>3. CASE word' = "lost" /\ Look /\ NothingHere
  <2>1. There = {} /\ Owed = {}
    BY <1>3 DEF NothingHere, Clones, Stamped
  <2>2. There' \subseteq There /\ Owed' \subseteq Owed
    BY <1>3, OnlyClonesAdd, OnlyCreatesOwe DEF Look, Creates
  <2> QED BY <1>1, <1>3, <2>1, <2>2 DEF WordIsSo
<1>4. CASE word' = "gone" /\ Delete
  <2>1. Claimed' = {} /\ Owed = {}
    BY <1>4, DeletedGuests
  <2>2. Owed' \subseteq Owed /\ view'.want = "absent"
    BY <1>4, OnlyCreatesOwe DEF Delete, Creates
  <2> QED BY <1>1, <1>4, <2>1, <2>2 DEF WordIsSo
<1>5. CASE word' \in {"lost", "gone"} /\ word' = word /\ view' = view /\ step = "report"
  <2>1. There' \subseteq There /\ Owed' \subseteq Owed
    BY <1>5, OnlyClonesAdd, OnlyCreatesOwe DEF Creates
  <2>2. Owed = {} => Claimed' \subseteq Claimed
    BY OnlyOwedClaimed
  <2> QED BY <1>1, <1>5, <2>1, <2>2 DEF WordIsSo
<1> QED BY <1>1, <1>2, <1>3, <1>4, <1>5 DEF WordIsSo

LEMMA ViewStep ==
  ASSUME WorkerAssumption, TypeOK, ViewBehind, [Next]_workerVars PROVE ViewBehind'
<1>1. view' = NoView <=> step' = "idle"
  <2>1. order # NoView
    BY DEF WorkerAssumption, TypeOK
  <2> QED BY <2>1 DEF ViewBehind, Next, Agent, Orders, Fetch, Settled, Delete, Look, NotLooked, Power, PowerFails, Sync, Reboot, BuildGate,
    Record, Clone, Seen, Finish, Claim, Equip, Start, FinishFails, GivesUp, Undo, Report, Reports, Dies, CloneEnds, Serves,
    OperatorRemoves, Settle, workerVars, workerPass
<1>2. order.want = "absent" => order'.want = "absent"
  BY DEF TypeOK, Views, Heard, workerCore, Next, Agent, Orders, Fetch, Settled, Delete, Look, NotLooked, Power, PowerFails, Sync, Reboot, BuildGate,
    Record, Clone, Seen, Finish, Claim, Equip, Start, FinishFails, GivesUp, Undo, Report, Reports, Dies, CloneEnds, Serves,
    OperatorRemoves, Settle, workerVars
<1>3. view' \in {view, order, NoView}
  BY DEF Next, Agent, Orders, Fetch, Settled, Delete, Look, NotLooked, Power, PowerFails, Sync, Reboot, BuildGate,
    Record, Clone, Seen, Finish, Claim, Equip, Start, FinishFails, GivesUp, Undo, Report, Reports, Dies, CloneEnds, Serves,
    OperatorRemoves, Settle, workerVars, workerPass
<1>4. view' = order /\ view' # view => Fetch
  <2>1. order # NoView
    BY DEF WorkerAssumption, TypeOK
  <2> QED BY <2>1 DEF Next, Agent, Orders, Fetch, Settled, Delete, Look, NotLooked, Power, PowerFails, Sync, Reboot, BuildGate,
    Record, Clone, Seen, Finish, Claim, Equip, Start, FinishFails, GivesUp, Undo, Report, Reports, Dies, CloneEnds, Serves,
    OperatorRemoves, Settle, workerVars, workerPass
<1> QED BY <1>1, <1>2, <1>3, <1>4 DEF ViewBehind, Fetch, workerCore

LEMMA ThroughStep ==
  ASSUME WorkerAssumption, TypeOK, NumberInHand, ViewBehind, WordIsSo, Through, [Next]_workerVars
  PROVE  Through'
<1>0. Claimed \subseteq There
  BY DEF Claimed
<1>1. CASE concluded \/ heardGone
  <2>1. /\ order.want = "absent" /\ step \in {"idle", "settle", "turn", "report"}
        /\ view # NoView => view.want = "absent"
        /\ number = 0 /\ Claimed = {} /\ Owed = {}
    BY <1>1 DEF Through
  <2>2. Claimed' = {} /\ Owed' = {}
    BY <2>1, OnlyOwedClaimed, OnlyCreatesOwe DEF Creates
  <2>3. order'.want = "absent"
    BY <2>1 DEF TypeOK, Views, Heard, workerCore, Next, Agent, Orders, Fetch, Settled, Delete, Look, NotLooked, Power, PowerFails, Sync, Reboot, BuildGate,
    Record, Clone, Seen, Finish, Claim, Equip, Start, FinishFails, GivesUp, Undo, Report, Reports, Dies, CloneEnds, Serves,
    OperatorRemoves, Settle, workerVars
  <2>4. view # NoView => ~Look /\ ~NotLooked
    BY <2>1 DEF Look, NotLooked
  <2>5. step = "turn" => view # NoView
    BY DEF ViewBehind
  <2>6. step' \in {"idle", "settle", "turn", "report"} /\ number' = 0
    BY <2>1, <2>4, <2>5 DEF Look, NotLooked, Next, Agent, Orders, Fetch, Settled, Delete, Look, NotLooked, Power, PowerFails, Sync, Reboot, BuildGate,
    Record, Clone, Seen, Finish, Claim, Equip, Start, FinishFails, GivesUp, Undo, Report, Reports, Dies, CloneEnds, Serves,
    OperatorRemoves, Settle, workerVars, workerPass
  <2>7. view' # NoView => view'.want = "absent"
    BY <2>1 DEF Next, Agent, Orders, Fetch, Settled, Delete, Look, NotLooked, Power, PowerFails, Sync, Reboot, BuildGate,
    Record, Clone, Seen, Finish, Claim, Equip, Start, FinishFails, GivesUp, Undo, Report, Reports, Dies, CloneEnds, Serves,
    OperatorRemoves, Settle, workerVars, workerPass
  <2> QED BY <2>2, <2>3, <2>6, <2>7 DEF Through
<1>2. CASE ~(concluded \/ heardGone) /\ (concluded' \/ heardGone')
  <2>1. Report /\ Heard(Observed)
    BY <1>2 DEF workerCore, Next, Agent, Orders, Fetch, Settled, Delete, Look, NotLooked, Power, PowerFails, Sync, Reboot, BuildGate,
    Record, Clone, Seen, Finish, Claim, Equip, Start, FinishFails, GivesUp, Undo, Report, Reports, Dies, CloneEnds, Serves,
    OperatorRemoves, Settle, workerVars
  <2>2. Observed = word /\ word \in {"lost", "gone"} /\ (word = "lost" => view.built)
    BY <1>2, <2>1 DEF Heard, Observed
  <2>3. Claimed = {} /\ Owed = {}
    BY <1>0, <2>2 DEF WordIsSo
  <2>4. Claimed' = {} /\ Owed' = {}
    BY <2>1, <2>3, OnlyOwedClaimed, OnlyCreatesOwe DEF Report, Creates
  <2>5. order'.want = "absent"
    <3>1. CASE word = "lost"
      BY <2>1, <2>2, <3>1 DEF Heard, TypeOK, Views
    <3>2. CASE word = "gone"
      BY <2>1, <2>2, <3>2 DEF Heard, WordIsSo, ViewBehind, Report
    <3> QED BY <2>2, <3>1, <3>2
  <2> QED BY <2>1, <2>4, <2>5 DEF Report, Through
<1>3. CASE ~(concluded' \/ heardGone')
  BY <1>3 DEF Through
<1> QED BY <1>1, <1>2, <1>3

LEMMA OneStep ==
  ASSUME WorkerAssumption, TypeOK, NumberInHand, ViewBehind, FromNothing, AtMostOne, [Next]_workerVars
  PROVE  AtMostOne'
<1>1. CASE There' \subseteq There
  BY <1>1 DEF AtMostOne
<1>2. CASE Clone
  <2>1. There = {}
    BY <1>2 DEF Clone, FromNothing
  <2> QED BY <1>2, <2>1, ClonedGuest DEF Same, AtMostOne
<1>3. CASE step = "clone" /\ ~Clone
  <2>1. ~Delete /\ ~Undo /\ ~Handling /\ \A k \in Numbers : ~Settle(k)
    BY <1>3 DEF Delete, Undo, Handling, Power, Sync, Reboot, Finish, Claim, Equip, Start, Settle
  <2> QED
    BY <1>1, <1>3, <2>1, GuestsMove, QuietGuests, ServingGuests, EndedClone, OperatorsGuest DEF Same, Leaves
<1> QED BY <1>1, <1>2, <1>3, OnlyClonesAdd

LEMMA LostStep ==
  ASSUME WorkerAssumption, TypeOK, NumberInHand, ViewBehind, WordIsSo, Through, LostIsLost, [Next]_workerVars
  PROVE  LostIsLost'
<1>1. CASE concluded
  <2>1. step # "clone"
    BY <1>1 DEF Through
  <2> QED BY <1>1, <2>1, OnlyClonesAdd DEF LostIsLost
<1>2. CASE ~concluded /\ concluded'
  <2>1. Report /\ Heard(Observed)
    BY <1>2 DEF workerCore, Next, Agent, Orders, Fetch, Settled, Delete, Look, NotLooked, Power, PowerFails, Sync, Reboot, BuildGate,
    Record, Clone, Seen, Finish, Claim, Equip, Start, FinishFails, GivesUp, Undo, Report, Reports, Dies, CloneEnds, Serves,
    OperatorRemoves, Settle, workerVars
  <2>2. word = "lost"
    BY <1>2, <2>1 DEF Heard, Observed
  <2>3. There = {} /\ step # "clone"
    BY <2>1, <2>2 DEF WordIsSo, Report
  <2> QED BY <2>3, OnlyClonesAdd DEF LostIsLost
<1>3. CASE ~concluded'
  BY <1>3 DEF LostIsLost
<1> QED BY <1>1, <1>2, <1>3

LEMMA RouteStep ==
  ASSUME WorkerAssumption, TypeOK, WordIsSo, Through, GoneIsNotRouted, [Next]_workerVars
  PROVE  GoneIsNotRouted'
<1>1. CASE ~heardGone'
  BY <1>1 DEF GoneIsNotRouted
<1>2. CASE heardGone /\ Report
  <2>1. number = 0
    BY <1>2 DEF Through
  <2>2. Observed # "ready"
    BY <2>1 DEF Observed, WordIsSo
  <2> QED BY <1>2, <2>2 DEF Report, Routed, GoneIsNotRouted
<1>3. CASE heardGone /\ ~Report
  BY <1>3 DEF GoneIsNotRouted, Next, Agent, Orders, Fetch, Settled, Delete, Look, NotLooked, Power, PowerFails, Sync, Reboot, BuildGate,
    Record, Clone, Seen, Finish, Claim, Equip, Start, FinishFails, GivesUp, Undo, Report, Reports, Dies, CloneEnds, Serves,
    OperatorRemoves, Settle, workerVars
<1>4. CASE ~heardGone /\ heardGone'
  <2>1. Report /\ Heard(Observed)
    BY <1>4 DEF workerCore, Next, Agent, Orders, Fetch, Settled, Delete, Look, NotLooked, Power, PowerFails, Sync, Reboot, BuildGate,
    Record, Clone, Seen, Finish, Claim, Equip, Start, FinishFails, GivesUp, Undo, Report, Reports, Dies, CloneEnds, Serves,
    OperatorRemoves, Settle, workerVars
  <2>2. Observed = "gone"
    BY <1>4, <2>1 DEF Heard
  <2> QED BY <2>1, <2>2 DEF Report, Routed, GoneIsNotRouted
<1> QED BY <1>1, <1>2, <1>3, <1>4

-----------------------------------------------------------------------------
(* The theorems.                                                            *)

LEMMA KnowsStep == WorkerAssumption /\ TypeOK /\ Knows /\ [Next]_workerVars => TypeOK' /\ Knows'
  BY TypeStep, CloneThereStep, NumberStep, FromNothingStep, WordStep, ViewStep, ThroughStep, OneStep, LostStep, RouteStep
  DEF Knows

LEMMA KnowsOne == TypeOK /\ Knows => OneWorkerOrNone
<1> SUFFICES ASSUME TypeOK, Knows PROVE OneWorker
  BY DEF OneWorkerOrNone, Knows
<1>1. CASE There = {}
  BY <1>1, FS_EmptySet DEF OneWorker
<1>2. CASE There # {}
  <2>1. PICK k \in There : TRUE
    BY <1>2
  <2>2. There = {k}
    BY <2>1 DEF Knows, AtMostOne
  <2>3. Cardinality(There) = 1
    BY <2>2, FS_Singleton
  <2> QED BY <2>3 DEF OneWorker
<1> QED BY <1>1, <1>2

\* Every variable of the worker has its type, for every range of arguments and
\* any number of breaks.
THEOREM TypeCorrect == WorkerAssumption => (Spec => []TypeOK)
<1>1. WorkerAssumption => WorkerAssumption'
  BY DEF WorkerAssumption, Numbers, Confs, Wants, Views, Guests, Unset
<1>2. WorkerAssumption /\ Init => TypeOK /\ Knows
  BY TypeInit, KnowsInit
<1>3. WorkerAssumption /\ (TypeOK /\ Knows) /\ [Next]_workerVars => (TypeOK /\ Knows)'
  BY KnowsStep
<1> QED BY <1>1, <1>2, <1>3, PTL DEF Spec

\* There is never a second of one worker, none once Core has concluded it lost on
\* the agent's word, and no route to one Core heard gone: whatever clones end
\* late, answers are lost, refreshes fail and agents die.
THEOREM OneOrNone == WorkerAssumption => (Spec => []OneWorkerOrNone)
<1>1. WorkerAssumption => WorkerAssumption'
  BY DEF WorkerAssumption, Numbers, Confs, Wants, Views, Guests, Unset
<1>2. WorkerAssumption /\ Init => TypeOK /\ Knows
  BY TypeInit, KnowsInit
<1>3. WorkerAssumption /\ (TypeOK /\ Knows) /\ [Next]_workerVars => (TypeOK /\ Knows)'
  BY KnowsStep
<1>4. TypeOK /\ Knows => OneWorkerOrNone
  BY KnowsOne
<1> QED BY <1>1, <1>2, <1>3, <1>4, PTL DEF Spec
=============================================================================
