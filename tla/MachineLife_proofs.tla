-------------------------- MODULE MachineLife_proofs --------------------------
(***************************************************************************)
(* What holds of one machine's life for every set of numbers, every count  *)
(* of faults and of the owner's acts, and both switches: its type; a guest *)
(* without the machine's stamp is never touched, and nothing torn down or  *)
(* concluded lost is cloned again; and, where the listing a record is      *)
(* settled from shows every running clone, there is never a second machine *)
(* beside the first, and what Core concludes is so.                        *)
(***************************************************************************)
EXTENDS MachineLife, FiniteSetTheorems, TLAPS

-----------------------------------------------------------------------------
(* The type.                                                                *)

\* A field of a standing guest changed leaves a guest.
LEMMA FieldType ==
  ASSUME TypeOK, NEW v \in Standing, NEW b \in BOOLEAN
  PROVE  /\ [guest EXCEPT ![v] = Tagged(guest[v])] \in [VMIDs -> Guest \cup {None}]
         /\ [guest EXCEPT ![v] = Equipped(guest[v])] \in [VMIDs -> Guest \cup {None}]
         /\ [guest EXCEPT ![v] = Powered(guest[v], b)] \in [VMIDs -> Guest \cup {None}]
<1>1. v \in VMIDs /\ guest[v] \in Guest /\ guest \in [VMIDs -> Guest \cup {None}]
  BY DEF Standing, TypeOK
<1>2. Tagged(guest[v]) \in Guest /\ Equipped(guest[v]) \in Guest /\ Powered(guest[v], b) \in Guest
  BY <1>1 DEF Guest, Tagged, Equipped, Powered
<1> QED BY <1>1, <1>2

\* A guest taken away leaves the listing typed.
LEMMA GoneType ==
  ASSUME TypeOK, NEW v
  PROVE  /\ [guest EXCEPT ![v] = None] \in [VMIDs -> Guest \cup {None}]
         /\ reported \ {v} \subseteq VMIDs
  BY DEF TypeOK

\* A fault and an act of the owner's are counted up to their bounds.
LEMMA CountType ==
  ASSUME TypeOK
  PROVE  /\ Fault => faults' \in 0..MaxFaults
         /\ acts < MaxOwnerActs => acts + 1 \in 0..MaxOwnerActs
  BY BoundsAssumption DEF TypeOK, Fault

\* The state before anything happened is well typed.
LEMMA InitType == Init => TypeOK
<1> SUFFICES ASSUME Init PROVE TypeOK
  OBVIOUS
<1>1. want \in Intent /\ pc \in PCs /\ faults \in 0..MaxFaults /\ acts \in 0..MaxOwnerActs
  BY BoundsAssumption DEF Init, Intent, PCs
<1> QED BY <1>1 DEF Init, TypeOK

\* Core, the owner, the guests and a crash keep the type.
LEMMA WorldType ==
  ASSUME TypeOK, WorldStep
  PROVE  TypeOK'
<1> USE DEF core, disk, pass
<1>1. CASE CoreIntent
  BY <1>1 DEF CoreIntent, CoreStops, CoreStarts, CoreDeletes, CoreWithdraws, Intent, TypeOK
<1>2. CASE CoreHorizon
  BY <1>2 DEF CoreHorizon, TypeOK
<1>3. CASE Crash
  BY <1>3, CountType DEF Crash, PCs, TypeOK
<1>4. ASSUME NEW v \in VMIDs, Maintain(v) PROVE TypeOK'
  <2>1. v \in Standing
    BY <1>4 DEF Maintain, Claimed
  <2> QED BY <1>4, <2>1, FieldType, CountType DEF Maintain, TypeOK
<1>5. ASSUME NEW v \in VMIDs, OwnerCreates(v) PROVE TypeOK'
  BY <1>5, CountType DEF OwnerCreates, Guest, TypeOK
<1>6. ASSUME NEW v \in VMIDs, OwnerRemoves(v) PROVE TypeOK'
  BY <1>6, GoneType, CountType DEF OwnerRemoves, TypeOK
<1>7. ASSUME NEW v \in VMIDs, PowersOff(v) PROVE TypeOK'
  <2>1. v \in Standing
    BY <1>7 DEF PowersOff, Claimed
  <2> QED BY <1>7, <2>1, FieldType DEF PowersOff, TypeOK
<1>8. ASSUME NEW v \in VMIDs, NEW w \in VMIDs, OwnerCopies(v, w) PROVE TypeOK'
  <2>1. guest[v] \in Guest
    BY <1>8 DEF OwnerCopies, Claimed, Standing, TypeOK
  <2>2. [claim |-> TRUE, stamp |-> guest[v].stamp, mine |-> FALSE,
         conf |-> guest[v].conf, up |-> FALSE] \in Guest
    BY <2>1 DEF Guest
  <2> QED BY <1>8, <2>2, CountType DEF OwnerCopies, TypeOK
<1> QED BY <1>1, <1>2, <1>3, <1>4, <1>5, <1>6, <1>7, <1>8 DEF WorldStep

\* The hypervisor's clones keep the type.
LEMMA CloneType ==
  ASSUME TypeOK, CloneStep
  PROVE  TypeOK'
<1> USE DEF core, disk, pass
<1>1. ASSUME NEW v \in VMIDs, CloneShows(v) PROVE TypeOK'
  BY <1>1 DEF CloneShows, Guest, TypeOK
<1>2. ASSUME NEW v \in VMIDs, CloneEnds(v) PROVE TypeOK'
  BY <1>2, GoneType, CountType DEF CloneEnds, TypeOK
<1> QED BY <1>1, <1>2 DEF CloneStep

\* The settling of the journal and its rollbacks keep the type.
LEMMA SettleType ==
  ASSUME TypeOK, Settling \/ Undo
  PROVE  TypeOK'
<1> USE DEF core, disk, pass
<1>1. ASSUME NEW v \in VMIDs, Settle(v) PROVE TypeOK'
  <2>1. CASE SettleTakes(v)
    <3>1. v \in Standing
      BY <2>1 DEF SettleTakes, Stamped
    <3> QED BY <1>1, <2>1, <3>1, FieldType DEF Settle, SettleTakes, Abandon, PCs, TypeOK
  <2>2. CASE SettleAgain(v)
    BY <1>1, <2>2 DEF Settle, SettleAgain, Abandon, PCs, TypeOK
  <2>3. CASE SettleLater(v)
    BY <1>1, <2>3 DEF Settle, SettleLater, TypeOK
  <2>4. CASE SettleNothing(v) \/ SettleKept(v) \/ SettleLeft(v)
    BY <1>1, <2>4 DEF Settle, SettleNothing, SettleKept, SettleLeft, Forgets, TypeOK
  <2> QED BY <1>1, <2>1, <2>2, <2>3, <2>4 DEF Settle
<1>2. ASSUME NEW v \in VMIDs, SettleFails(v) PROVE TypeOK'
  <2>1. guest' \in [VMIDs -> Guest \cup {None}] /\ faults' \in 0..MaxFaults
    BY <1>2, FieldType, CountType DEF SettleFails, Stamped, TypeOK
  <2>2. UNCHANGED <<core, task, disk, held, pc, view, at, say, acts>> /\ todo' = todo \ {v}
    BY <1>2 DEF SettleFails
  <2>3. pc = "settle"
    BY <1>2 DEF SettleFails
  <2> QED BY <2>1, <2>2, <2>3 DEF TypeOK
<1>3. CASE Undo
  <2>1. /\ guest' \in [VMIDs -> Guest \cup {None}] /\ reported' \subseteq VMIDs
        /\ journal' \in [VMIDs -> {"none", "asked", "cloning", "abandoned"}]
        /\ faults' \in 0..MaxFaults
    <3>1. CASE UndoDone
      BY <3>1, GoneType DEF UndoDone, TypeOK
    <3>2. CASE UndoNotMine \/ UndoUnread
      BY <3>2, CountType DEF UndoNotMine, UndoUnread, TypeOK
    <3>3. CASE UndoFails
      <4>1. [guest EXCEPT ![at] = Powered(guest[at], FALSE)] \in [VMIDs -> Guest \cup {None}]
        BY <3>3, FieldType DEF UndoFails
      <4>2. [guest EXCEPT ![at] = None] \in [VMIDs -> Guest \cup {None}] /\ reported \ {at} \subseteq VMIDs
        BY GoneType
      <4>3. faults' \in 0..MaxFaults
        BY <3>3, CountType DEF UndoFails
      <4> QED BY <3>3, <4>1, <4>2, <4>3 DEF UndoFails, TypeOK
    <3> QED BY <1>3, <3>1, <3>2, <3>3 DEF Undo
  <2> QED BY <1>3, <2>1 DEF Undo, Report, PCs, TypeOK
<1> QED BY <1>1, <1>2, <1>3 DEF Settling

\* A view read again is a view, and what is said of it is a word of the report.
LEMMA ReadType ==
  ASSUME TypeOK, NEW ok, NEW then, NEW s \in {"nothing", "seen", "gone", "lost"},
         ReadAgain(ok, then, s)
  PROVE  /\ held' \in View
         /\ todo' \subseteq VMIDs /\ say' \in {"nothing", "seen", "gone", "lost"}
         /\ pc' \in {then, "report"}
  BY DEF ReadAgain, Fresh, View, Report, TypeOK

\* The pass's beginning, its turn for the machine and its reads keep the type.
LEMMA DispatchType ==
  ASSUME TypeOK, Start \/ Fetch \/ Dispatch \/ LookFails \/ Gate \/ GateFails \/ BuildGate
  PROVE  TypeOK'
<1> USE DEF core, disk, pass
<1>1. CASE Start
  BY <1>1 DEF Start, PCs, TypeOK
<1>2. CASE Fetch
  BY <1>2 DEF Fetch, Owed, View, PCs, TypeOK
<1>3. CASE Dispatch
  <2>1. /\ held' \in View \cup {None} /\ pc' \in PCs \ {"down", "idle"}
        /\ todo' \subseteq VMIDs /\ say' \in {"nothing", "seen", "gone", "lost"}
    BY <1>3, ReadType DEF Dispatch, Refuse, Consider, Report, PCs, TypeOK
  <2> QED BY <1>3, <2>1 DEF Dispatch, TypeOK
<1>4. CASE LookFails \/ GateFails
  BY <1>4, CountType DEF LookFails, GateFails, Report, PCs, TypeOK
<1>5. CASE Gate
  BY <1>5, ReadType DEF Gate, PCs, TypeOK
<1>6. CASE BuildGate
  <2>1. /\ held' \in View \cup {None} /\ pc' \in PCs \ {"down", "idle"}
        /\ faults' \in 0..MaxFaults
        /\ todo' \subseteq VMIDs /\ say' \in {"nothing", "seen", "gone", "lost"}
    BY <1>6, ReadType, CountType DEF BuildGate, Report, PCs, TypeOK
  <2> QED BY <1>6, <2>1 DEF BuildGate, TypeOK
<1> QED BY <1>1, <1>2, <1>3, <1>4, <1>5, <1>6

\* What is done with the machine that is here, or said where none is.
LEMMA EnsureType ==
  ASSUME TypeOK, Ensuring
  PROVE  TypeOK'
<1> USE DEF core, disk, pass
<1>1. ASSUME NEW v \in VMIDs, Ensure(v) PROVE TypeOK'
  <2>1. v \in Standing
    BY <1>1 DEF Ensure, EnsureSeen, EnsureStop, EnsureStart, Found, Claimed
  <2>2. CASE EnsureSeen(v) \/ EnsureStart(v)
    BY <1>1, <2>2, CountType DEF Ensure, EnsureSeen, EnsureStart, Report, PCs, TypeOK
  <2>3. CASE EnsureStop(v)
    BY <1>1, <2>1, <2>3, FieldType DEF Ensure, EnsureStop, Report, PCs, TypeOK
  <2> QED BY <1>1, <2>2, <2>3 DEF Ensure
<1>2. CASE StartFound
  <2>1. guest' \in [VMIDs -> Guest \cup {None}]
    BY <1>2, FieldType DEF StartFound, TypeOK
  <2> QED BY <1>2, <2>1 DEF StartFound, Report, PCs, TypeOK
<1>3. CASE NotLookedAt \/ Waits \/ SaysLost \/ Unplaceable
  BY <1>3 DEF NotLookedAt, Waits, SaysLost, Unplaceable, Report, PCs, TypeOK
<1> QED BY <1>1, <1>2, <1>3, DispatchType DEF Ensuring

\* The create, from its record to its first start.
LEMMA MakeType ==
  ASSUME TypeOK, Create \/ Making
  PROVE  TypeOK'
<1> USE DEF core, disk, pass
<1>1. ASSUME NEW v \in VMIDs, Build(v) PROVE TypeOK'
  BY <1>1 DEF Build, PCs, TypeOK
<1>2. CASE PostAccepted \/ Answered \/ CloneDone
  BY <1>2 DEF PostAccepted, Answered, CloneDone, PCs, TypeOK
<1>3. CASE GivesUp
  BY <1>3, CountType DEF GivesUp, Report, PCs, TypeOK
<1>4. CASE Claim \/ Configure
  <2>1. guest' \in [VMIDs -> Guest \cup {None}]
    BY <1>4, FieldType DEF Claim, Configure
  <2> QED BY <1>4, <2>1 DEF Claim, Configure, PCs, TypeOK
<1>5. CASE Complete
  BY <1>5 DEF Complete, Report, PCs, TypeOK
<1>6. CASE BuildStart
  BY <1>6, FieldType DEF BuildStart, Report, PCs, TypeOK
<1>7. CASE CreateFails
  <2>1. at \in VMIDs \cup {None} /\ faults' \in 0..MaxFaults
    BY <1>7, CountType DEF CreateFails, TypeOK
  <2> QED BY <1>7, <2>1 DEF CreateFails, Abandon, PCs, TypeOK
<1> QED BY <1>1, <1>2, <1>3, <1>4, <1>5, <1>6, <1>7, DispatchType DEF Create, Making

\* The delete, from its licence to its proof.
LEMMA DeleteType ==
  ASSUME TypeOK, Deleting
  PROVE  TypeOK'
<1> USE DEF core, disk, pass
<1>1. ASSUME NEW v \in VMIDs, Licence(v) PROVE TypeOK'
  BY <1>1 DEF Licence, PCs, TypeOK
<1>2. CASE DeleteWaits \/ DeleteOwesProof
  BY <1>2 DEF DeleteWaits, DeleteOwesProof, Entombs, Report, PCs, TypeOK
<1>3. CASE Doom
  BY <1>3, ReadType DEF Doom, Entombs, PCs, TypeOK
<1>4. CASE Destroy
  BY <1>4, GoneType DEF Destroy, PCs, TypeOK
<1>5. CASE DestroyFails
  <2>1. /\ guest' \in [VMIDs -> Guest \cup {None}] /\ reported' \subseteq VMIDs
        /\ faults' \in 0..MaxFaults
    <3>1. ASSUME at \in Standing, NEW up \in {FALSE, guest[at].up}
          PROVE  [guest EXCEPT ![at] = Powered(guest[at], up)] \in [VMIDs -> Guest \cup {None}]
      <4>1. up \in BOOLEAN
        BY <3>1 DEF Standing, Guest, TypeOK
      <4> QED BY <3>1, <4>1, FieldType
    <3>2. [guest EXCEPT ![at] = None] \in [VMIDs -> Guest \cup {None}] /\ reported \ {at} \subseteq VMIDs
      BY GoneType
    <3>3. faults' \in 0..MaxFaults
      BY <1>5, CountType DEF DestroyFails, TypeOK
    <3>4. CASE at \in Standing
                /\ \E up \in {FALSE, guest[at].up} : guest' = [guest EXCEPT ![at] = Powered(guest[at], up)]
      <4>1. guest' \in [VMIDs -> Guest \cup {None}]
        BY <3>1, <3>4
      <4> QED BY <1>5, <3>2, <3>3, <4>1 DEF DestroyFails, TypeOK
    <3>5. CASE guest' \in {guest, [guest EXCEPT ![at] = None]}
      BY <1>5, <3>2, <3>3, <3>5 DEF DestroyFails, TypeOK
    <3> QED BY <1>5, <3>4, <3>5 DEF DestroyFails
  <2> QED BY <1>5, <2>1 DEF DestroyFails, Report, PCs, TypeOK
<1>6. CASE Entomb \/ Prove
  BY <1>6 DEF Entomb, Prove, Entombs, Report, PCs, TypeOK
<1> QED BY <1>1, <1>2, <1>3, <1>4, <1>5, <1>6 DEF Deleting

\* What is left to settle is nothing once the pass reports.
NothingLeft == pc = "report" => todo = {}

LEMMA NothingLeftStep == TypeOK /\ NothingLeft /\ [Next]_vars => NothingLeft'
<1> SUFFICES ASSUME TypeOK, NothingLeft, [Next]_vars PROVE NothingLeft'
  OBVIOUS
<1> USE DEF NothingLeft, pass, disk, core, Report
<1>1. CASE WorldStep \/ CloneStep \/ UNCHANGED vars
  BY <1>1 DEF WorldStep, CloneStep, CoreIntent, CoreHorizon, Crash, Maintain, OwnerCreates,
     OwnerRemoves, PowersOff, OwnerCopies, CloneShows, CloneEnds, vars
<1>2. CASE Start \/ Fetch \/ Settling \/ Undo
  BY <1>2 DEF Start, Fetch, Settling, Settle, SettleFails, SettleNothing, SettleAgain, SettleLater,
     SettleKept, SettleLeft, SettleTakes, Forgets, Abandon, Undo
<1>3. CASE Dispatch \/ LookFails \/ Ensuring \/ Create
  BY <1>3 DEF Dispatch, Refuse, Consider, ReadAgain, LookFails, Ensuring, Ensure, EnsureSeen,
     EnsureStop, EnsureStart, Gate, GateFails, StartFound, NotLookedAt, Waits, SaysLost,
     Unplaceable, Create, Build
<1>4. CASE Making
  BY <1>4 DEF Making, PostAccepted, Answered, GivesUp, CloneDone, Claim, Configure, Complete,
     BuildGate, BuildStart, CreateFails, Abandon, ReadAgain
<1>5. CASE Deleting \/ ReportStatus
  BY <1>5 DEF Deleting, Licence, DeleteWaits, DeleteOwesProof, Doom, ReadAgain, Destroy,
     DestroyFails, Entomb, Prove, ReportStatus
<1> QED BY <1>1, <1>2, <1>3, <1>4, <1>5 DEF Next, AgentStep

LEMMA ReportType ==
  ASSUME TypeOK, NothingLeft, ReportStatus
  PROVE  TypeOK'
<1> USE DEF core, disk, pass
<1>1. /\ want' \in Intent /\ built' \in BOOLEAN
      /\ reported' \subseteq VMIDs /\ concluded' \subseteq {"deleted", "lost"}
      /\ faults' \in 0..MaxFaults
  BY CountType DEF ReportStatus, Heard, Standing, Intent, TypeOK
<1> QED BY <1>1 DEF ReportStatus, NothingLeft, PCs, TypeOK

LEMMA TypeStep == TypeOK /\ NothingLeft /\ [Next]_vars => TypeOK'
<1>1. TypeOK /\ UNCHANGED vars => TypeOK'
  BY DEF vars, core, disk, pass, TypeOK
<1> QED BY <1>1, WorldType, CloneType, SettleType, DispatchType, EnsureType, MakeType, DeleteType,
           ReportType DEF Next, AgentStep

LEMMA TypeInvariant == Spec => [](TypeOK /\ NothingLeft)
<1>1. Init => NothingLeft
  BY DEF Init, NothingLeft
<1> QED BY <1>1, InitType, NothingLeftStep, TypeStep, PTL DEF Spec

\* Every variable has its type in every state of every run, and between two
\* passes nothing of a pass is kept.
THEOREM TypeCorrect == Spec => []TypeOK
BY TypeInvariant, PTL

-----------------------------------------------------------------------------
(* Stamps.                                                                  *)

\* What carries the claim, what a clone call made and what a running clone has
\* shown all carry the machine's stamp.
StampedAll == \A v \in Standing : guest[v].claim \/ guest[v].mine \/ v \in Cloning => guest[v].stamp

\* The guest the pass is at is the machine's, but where a record is rolled back:
\* there it may be anybody's, and the rollback reads its stamp.
AtStamped == pc # "undoSettle" /\ at \in Standing => guest[at].stamp

Stamps == StampedAll /\ AtStamped

LEMMA StampsStep == TypeOK /\ Stamps /\ [Next]_vars => Stamps'
<1> SUFFICES ASSUME TypeOK, Stamps, [Next]_vars PROVE Stamps'
  OBVIOUS
<1> USE NoneAssumption DEF Stamps, StampedAll, AtStamped, Standing, Cloning, pass, disk, core, Report
<1>0. /\ guest \in [VMIDs -> Guest \cup {None}] /\ task \in [VMIDs -> {"none", "running", "ok", "failed"}]
      /\ at \in VMIDs \cup {None} /\ None \notin VMIDs /\ None \notin Guest
  BY DEF TypeOK
<1>1. CASE UNCHANGED vars
  BY <1>1 DEF vars
<1>2. CASE WorldStep
  <2>1. CASE CoreIntent \/ CoreHorizon \/ Crash
    BY <1>0, <2>1 DEF CoreIntent, CoreHorizon, Crash
  <2>2. ASSUME NEW v \in VMIDs, Maintain(v) \/ PowersOff(v) PROVE Stamps'
    <3>1. v \in Standing /\ task' = task /\ at' = at /\ pc' = pc
          /\ \E b \in BOOLEAN : guest' = [guest EXCEPT ![v] = Powered(guest[v], b)]
      BY <2>2 DEF Maintain, PowersOff, Claimed
    <3> QED BY <1>0, <3>1 DEF Powered
  <2>3. ASSUME NEW v \in VMIDs, OwnerCreates(v) \/ OwnerRemoves(v) PROVE Stamps'
    BY <1>0, <2>3 DEF OwnerCreates, OwnerRemoves
  <2>4. ASSUME NEW v \in VMIDs, NEW w \in VMIDs, OwnerCopies(v, w) PROVE Stamps'
    BY <1>0, <2>4 DEF OwnerCopies, Claimed
  <2> QED BY <1>2, <2>1, <2>2, <2>3, <2>4 DEF WorldStep
<1>3. CASE CloneStep
  BY <1>0, <1>3 DEF CloneStep, CloneShows, CloneEnds, Unseen, Guest
<1>4. CASE Start \/ Fetch \/ Dispatch \/ LookFails
  <2>1. CASE Start \/ Fetch
    BY <1>0, <2>1 DEF Start, Fetch
  <2>2. CASE Dispatch \/ LookFails
    <3>1. pc # "undoSettle" /\ guest' = guest /\ task' = task /\ at' = at
      BY <2>2 DEF Dispatch, Refuse, Consider, Dispatching, LookFails
    <3> QED BY <1>0, <3>1
  <2> QED BY <1>4, <2>1, <2>2
<1>5. CASE Settling
  <2>1. ASSUME NEW v \in VMIDs, Settle(v) PROVE Stamps'
    <3>1. CASE SettleTakes(v)
      BY <1>0, <2>1, <3>1 DEF Settle, SettleTakes, Abandon, Tagged, Stamped
    <3>2. CASE SettleAgain(v)
      BY <1>0, <2>1, <3>2 DEF Settle, SettleAgain, Abandon
    <3>3. CASE SettleNothing(v) \/ SettleLater(v) \/ SettleKept(v) \/ SettleLeft(v)
      BY <1>0, <2>1, <3>3 DEF Settle, SettleNothing, SettleLater, SettleKept, SettleLeft, Forgets
    <3> QED BY <2>1, <3>1, <3>2, <3>3 DEF Settle
  <2>2. ASSUME NEW v \in VMIDs, SettleFails(v) PROVE Stamps'
    BY <1>0, <2>2 DEF SettleFails, Tagged, Stamped
  <2> QED BY <1>5, <2>1, <2>2 DEF Settling
<1>6. CASE Undo
  BY <1>0, <1>6 DEF Undo, UndoDone, UndoNotMine, UndoUnread, UndoFails, Powered
<1>7. CASE Ensuring
  <2>1. ASSUME NEW v \in VMIDs, Ensure(v) PROVE Stamps'
    BY <1>0, <2>1 DEF Ensure, EnsureSeen, EnsureStop, EnsureStart, Found, Powered
  <2>2. CASE StartFound
    BY <1>0, <2>2 DEF StartFound, Powered
  <2>3. CASE Gate \/ GateFails \/ NotLookedAt \/ Waits \/ SaysLost \/ Unplaceable
    <3>1. pc # "undoSettle" /\ guest' = guest /\ task' = task /\ at' = at
      BY <2>3 DEF Gate, GateFails, NotLookedAt, NotFound, Waits, SaysLost, Unplaceable
    <3> QED BY <1>0, <3>1
  <2> QED BY <1>7, <2>1, <2>2, <2>3 DEF Ensuring
<1>8. CASE Create \/ Making
  BY <1>0, <1>8 DEF Create, Build, Making, PostAccepted, Answered, GivesUp, CloneDone, Claim,
     Configure, Complete, BuildGate, BuildStart, CreateFails, Abandon, ReadAgain, Tagged, Equipped, Powered
<1>9. CASE Deleting \/ ReportStatus
  BY <1>0, <1>9 DEF Deleting, Licence, DeleteWaits, DeleteOwesProof, Doom, ReadAgain, Destroy,
     DestroyFails, Entomb, Prove, ReportStatus, Powered
<1> QED BY <1>1, <1>2, <1>3, <1>4, <1>5, <1>6, <1>7, <1>8, <1>9 DEF Next, AgentStep

LEMMA StampsHold == Spec => []Stamps
<1>1. Init => Stamps
  BY NoneAssumption DEF Init, Stamps, StampedAll, AtStamped, Standing
<1> QED BY <1>1, StampsStep, TypeInvariant, PTL DEF Spec

\* What a step of the agent, the hypervisor or a guest leaves of another's guest.
Kept == \A v \in Standing : ~guest[v].stamp /\ acts' = acts => guest'[v] = guest[v]

LEMMA KeptStep == TypeOK /\ Stamps /\ [Next]_vars => Kept
<1> SUFFICES ASSUME TypeOK, Stamps, [Next]_vars PROVE Kept
  OBVIOUS
<1> USE NoneAssumption DEF Kept, Stamps, StampedAll, AtStamped, Standing, Cloning
<1>0. guest \in [VMIDs -> Guest \cup {None}] /\ acts \in Nat
  BY BoundsAssumption DEF TypeOK
<1>1. CASE guest' = guest
  BY <1>1
<1>2. CASE WorldStep
  <2>1. ASSUME NEW v \in VMIDs, Maintain(v) \/ PowersOff(v) PROVE Kept
    BY <1>0, <2>1 DEF Maintain, PowersOff, Claimed
  <2>2. ASSUME NEW v \in VMIDs, OwnerCreates(v) \/ OwnerRemoves(v) PROVE Kept
    BY <1>0, <2>2 DEF OwnerCreates, OwnerRemoves
  <2>3. ASSUME NEW v \in VMIDs, NEW w \in VMIDs, OwnerCopies(v, w) PROVE Kept
    BY <1>0, <2>3 DEF OwnerCopies
  <2>4. CoreIntent \/ CoreHorizon \/ Crash => guest' = guest
    BY DEF CoreIntent, CoreHorizon, Crash
  <2> QED BY <1>1, <1>2, <2>1, <2>2, <2>3, <2>4 DEF WorldStep
<1>3. CASE CloneStep
  BY <1>0, <1>3 DEF CloneStep, CloneShows, CloneEnds, Unseen
<1>4. CASE Settling
  <2>1. ASSUME NEW v \in VMIDs, Settle(v) \/ SettleFails(v) PROVE Kept
    <3>1. guest' = guest \/ (v \in Stamped /\ guest' = [guest EXCEPT ![v] = Tagged(guest[v])])
      BY <2>1 DEF Settle, SettleFails, SettleNothing, SettleAgain, SettleLater, SettleKept,
         SettleLeft, SettleTakes, Forgets
    <3> QED BY <1>0, <1>1, <3>1 DEF Stamped
  <2> QED BY <1>4, <2>1 DEF Settling
<1>5. CASE Undo
  BY <1>0, <1>5 DEF Undo, UndoDone, UndoNotMine, UndoUnread, UndoFails
<1>6. CASE Ensuring
  <2>1. ASSUME NEW v \in VMIDs, Ensure(v) PROVE Kept
    BY <1>0, <2>1 DEF Ensure, EnsureSeen, EnsureStop, EnsureStart, Found
  <2>2. CASE StartFound
    BY <1>0, <2>2 DEF StartFound
  <2>3. Gate \/ GateFails \/ NotLookedAt \/ Waits \/ SaysLost \/ Unplaceable => guest' = guest
    BY DEF Gate, GateFails, NotLookedAt, Waits, SaysLost, Unplaceable
  <2> QED BY <1>1, <1>6, <2>1, <2>2, <2>3 DEF Ensuring
<1>7. CASE Create \/ Making
  BY <1>0, <1>7 DEF Create, Build, Making, PostAccepted, Answered, GivesUp, CloneDone, Claim,
     Configure, Complete, BuildGate, BuildStart, CreateFails
<1>8. CASE Deleting
  BY <1>0, <1>8 DEF Deleting, Licence, DeleteWaits, DeleteOwesProof, Doom, Destroy,
     DestroyFails, Entomb, Prove
<1>9. Start \/ Fetch \/ Dispatch \/ LookFails \/ ReportStatus \/ UNCHANGED vars => guest' = guest
  BY DEF Start, Fetch, Dispatch, LookFails, ReportStatus, vars
<1> QED BY <1>1, <1>2, <1>3, <1>4, <1>5, <1>6, <1>7, <1>8, <1>9 DEF Next, AgentStep

\* No step but the owner's own changes a guest that does not carry the machine's
\* stamp: not its power, not its tags, not its disk.
THEOREM OthersAreKept == Spec => OthersKept
<1>1. TypeOK /\ Stamps /\ [Next]_vars => [Kept]_vars
  BY KeptStep
<1> QED BY <1>1, StampsHold, TypeInvariant, PTL DEF Spec, OthersKept, Kept

-----------------------------------------------------------------------------
(* What was torn down or concluded lost.                                    *)

\* A pass holds a view from its first step on, and a view that says built says
\* what Core said once and never takes back.
ViewHeld == pc \notin {"down", "idle"} => view \in View /\ (view.built => built)

\* Before a build nothing was torn down here; and nothing was concluded, unless
\* the view says built, which no build goes on from.
BuildsOnlyNew ==
  /\ pc = "ensure" => tomb = "none" /\ (~view.built => concluded = {})
  /\ pc = "post" => tomb = "none" /\ concluded = {}

\* Only the pass's end has something to say, and "lost" is said of a machine
\* Core had as built.
Said ==
  /\ pc # "report" => say = "nothing"
  /\ say = "lost" => built

\* What Core concludes of a machine it had built, or of one it no longer sends.
ConcludedOf ==
  /\ "lost" \in concluded => built
  /\ "deleted" \in concluded => want = "gone"

History == ViewHeld /\ BuildsOnlyNew /\ Said /\ ConcludedOf

LEMMA HistoryStep == TypeOK /\ History /\ [Next]_vars => History'
<1> SUFFICES ASSUME TypeOK, History, [Next]_vars PROVE History'
  OBVIOUS
<1> USE DEF History, ViewHeld, BuildsOnlyNew, Said, ConcludedOf, pass, disk, core, Report
<1>0. built \in BOOLEAN /\ concluded \subseteq {"deleted", "lost"}
  BY DEF TypeOK
<1>1. CASE UNCHANGED vars
  BY <1>1 DEF vars
<1>2. CASE WorldStep
  <2>1. CASE CoreIntent \/ CoreHorizon \/ Crash
    BY <1>0, <2>1 DEF CoreIntent, CoreStops, CoreStarts, CoreDeletes, CoreWithdraws, CoreHorizon, Crash
  <2>2. ASSUME NEW v \in VMIDs, Maintain(v) \/ OwnerCreates(v) \/ OwnerRemoves(v) \/ PowersOff(v)
               \/ \E w \in VMIDs : OwnerCopies(v, w)
        PROVE  UNCHANGED <<want, built, concluded, tomb, pc, view, say>>
    BY <2>2 DEF Maintain, OwnerCreates, OwnerRemoves, PowersOff, OwnerCopies
  <2> QED BY <1>2, <2>1, <2>2 DEF WorldStep
<1>3. CASE CloneStep
  BY <1>3 DEF CloneStep, CloneShows, CloneEnds
<1>4. CASE Start \/ Fetch
  BY <1>0, <1>4 DEF Start, Fetch, View, TypeOK
<1>5. CASE Dispatch
  <2>1. want # "gone" /\ ~built => concluded = {}
    BY <1>0
  <2>2. CASE Consider
    BY <1>5, <2>1, <2>2 DEF Dispatch, Consider, Dispatching, BuiltAgain, ReadAgain
  <2>3. CASE ~Consider
    BY <1>5, <2>3 DEF Dispatch, Refuse, Dispatching
  <2> QED BY <2>2, <2>3
<1>6. CASE LookFails \/ Undo
  BY <1>0, <1>6 DEF LookFails, Dispatching, Undo, UndoDone, UndoNotMine, UndoUnread, UndoFails
<1>7. CASE Settling
  BY <1>0, <1>7 DEF Settling, Settle, SettleFails, SettleNothing, SettleAgain, SettleLater,
     SettleKept, SettleLeft, SettleTakes, Forgets, Abandon
<1>8. CASE Ensuring
  BY <1>0, <1>8 DEF Ensuring, Ensure, EnsureSeen, EnsureStop, EnsureStart, Found, Gate, GateFails,
     StartFound, NotLookedAt, Waits, SaysLost, Unplaceable, NotFound, ReadAgain
<1>9. CASE Create \/ Making
  BY <1>0, <1>9 DEF Create, Build, NotFound, Making, PostAccepted, Answered, GivesUp, CloneDone, Claim,
     Configure, Complete, BuildGate, BuildStart, CreateFails, Abandon, ReadAgain
<1>10. CASE Deleting
  BY <1>0, <1>10 DEF Deleting, Licence, DeleteWaits, DeleteOwesProof, Doom, ReadAgain, Destroy,
     DestroyFails, Entomb, Prove, Entombs
<1>11. CASE ReportStatus
  BY <1>0, <1>11 DEF ReportStatus, Heard
<1> QED BY <1>1, <1>2, <1>3, <1>4, <1>5, <1>6, <1>7, <1>8, <1>9, <1>10, <1>11 DEF Next, AgentStep

LEMMA HistoryHolds == Spec => []History
<1>1. Init => History
  BY DEF Init, History, ViewHeld, BuildsOnlyNew, Said, ConcludedOf
<1> QED BY <1>1, HistoryStep, TypeInvariant, PTL DEF Spec

\* Only a clone call makes a clone run, and the pass that sends it has found
\* nothing torn down and nothing concluded: a machine torn down here, or that
\* Core concluded lost, is not cloned again.
THEOREM NothingRebuilt == Spec => NeverRebuilt
<1> DEFINE New == \A v \in VMIDs :
                    task[v] # "running" /\ task'[v] = "running" => tomb = "none" /\ concluded = {}
<1>1. TypeOK /\ History /\ [Next]_vars => [New]_vars
  <2> SUFFICES ASSUME TypeOK, History, Next PROVE New
    OBVIOUS
  <2>1. CASE task' = task
    BY <2>1
  <2>2. CASE PostAccepted
    BY <2>2 DEF PostAccepted, History, BuildsOnlyNew
  <2>3. CASE CloneStep
    BY <2>3 DEF CloneStep, CloneShows, CloneEnds, TypeOK
  <2>4. WorldStep => task' = task
    BY DEF WorldStep, CoreIntent, CoreHorizon, Crash, Maintain, OwnerCreates, OwnerRemoves,
       PowersOff, OwnerCopies
  <2>5. Start \/ Fetch \/ Dispatch \/ LookFails \/ ReportStatus \/ Undo => task' = task
    BY DEF Start, Fetch, Dispatch, LookFails, ReportStatus, Undo
  <2>6. Settling \/ Ensuring \/ Create => task' = task
    BY DEF Settling, Settle, SettleFails, Ensuring, Ensure, Gate, GateFails, StartFound,
       NotLookedAt, Waits, SaysLost, Unplaceable, Create, Build
  <2>7. Making => PostAccepted \/ task' = task
    BY DEF Making, Answered, GivesUp, CloneDone, Claim, Configure, Complete, BuildGate, BuildStart,
       CreateFails
  <2>8. Deleting => task' = task
    BY DEF Deleting, Licence, DeleteWaits, DeleteOwesProof, Doom, Destroy, DestroyFails, Entomb, Prove
  <2> QED BY <2>1, <2>2, <2>3, <2>4, <2>5, <2>6, <2>7, <2>8 DEF Next, AgentStep
<1> QED BY <1>1, HistoryHolds, TypeInvariant, PTL DEF Spec, NeverRebuilt

-----------------------------------------------------------------------------
(* The clone at hand, its record and its task.                              *)

\* A claimed machine's clone has ended, and so has one to be taken away.
ClaimedIsDone == \A v \in Claimed : task[v] # "running"
AbandonedIsDone == \A v \in VMIDs : journal[v] = "abandoned" => task[v] # "running"

\* Where the pass is about to act on its number, that number's clone has ended.
DoneAt == {"gate", "starting", "post", "claim", "configure", "complete", "buildGate", "buildStart",
           "undoSettle", "undoCreate", "doomed", "destroy"}
AtIsDone == pc \in DoneAt => at \notin Cloning

\* A clone is asked for at a free number, already in the journal; one that is
\* being taken away is in the journal as that.
RecordFirst ==
  /\ pc = "post" => at \in VMIDs \ Standing /\ journal[at] = "asked"
  /\ pc \in {"undoSettle", "undoCreate"} /\ at \in VMIDs => journal[at] = "abandoned"

Tasks == ClaimedIsDone /\ AbandonedIsDone /\ AtIsDone /\ RecordFirst

LEMMA TasksStep == TypeOK /\ Tasks /\ [Next]_vars => Tasks'
<1> SUFFICES ASSUME TypeOK, Tasks, [Next]_vars PROVE Tasks'
  OBVIOUS
<1> USE NoneAssumption DEF Tasks, ClaimedIsDone, AbandonedIsDone, AtIsDone, DoneAt, RecordFirst,
        Standing, Claimed, Cloning, pass, disk, core, Report
<1>0. /\ guest \in [VMIDs -> Guest \cup {None}] /\ task \in [VMIDs -> {"none", "running", "ok", "failed"}]
      /\ journal \in [VMIDs -> {"none", "asked", "cloning", "abandoned"}]
      /\ at \in VMIDs \cup {None} /\ None \notin VMIDs /\ None \notin Guest
      /\ pc \in {"down", "idle"} => at = None
  BY DEF TypeOK
<1>1. CASE UNCHANGED vars
  BY <1>1 DEF vars
<1>2. CASE WorldStep
  <2>1. CASE CoreIntent \/ CoreHorizon \/ Crash
    BY <1>0, <2>1 DEF CoreIntent, CoreHorizon, Crash
  <2>2. ASSUME NEW v \in VMIDs, Maintain(v) \/ PowersOff(v) PROVE Tasks'
    <3>1. v \in Standing /\ task' = task /\ at' = at /\ pc' = pc /\ journal' = journal
          /\ \E b \in BOOLEAN : guest' = [guest EXCEPT ![v] = Powered(guest[v], b)]
      BY <2>2 DEF Maintain, PowersOff
    <3> QED BY <1>0, <3>1 DEF Powered
  <2>3. ASSUME NEW v \in VMIDs, OwnerCreates(v) \/ OwnerRemoves(v) PROVE Tasks'
    BY <1>0, <2>3 DEF OwnerCreates, OwnerRemoves
  <2>4. ASSUME NEW v \in VMIDs, NEW w \in VMIDs, OwnerCopies(v, w) PROVE Tasks'
    BY <1>0, <2>4 DEF OwnerCopies
  <2> QED BY <1>2, <2>1, <2>2, <2>3, <2>4 DEF WorldStep
<1>3. CASE CloneStep
  BY <1>0, <1>3 DEF CloneStep, CloneShows, CloneEnds, Unseen, Guest
<1>4. CASE Start \/ Fetch \/ Dispatch \/ LookFails
  <2>1. CASE Start \/ Fetch
    BY <1>0, <2>1 DEF Start, Fetch
  <2>2. CASE Dispatch \/ LookFails
    <3>1. /\ guest' = guest /\ task' = task /\ at' = at /\ journal' = journal
          /\ pc' \in {"ensure", "delete", "report"}
      BY <2>2 DEF Dispatch, Refuse, Consider, LookFails, ReadAgain
    <3> QED BY <1>0, <3>1
  <2> QED BY <1>4, <2>1, <2>2
<1>5. CASE Settling
  <2>1. ASSUME NEW v \in VMIDs, Settle(v) PROVE Tasks'
    <3>1. CASE SettleTakes(v)
      BY <1>0, <2>1, <3>1 DEF Settle, SettleTakes, Abandon, Tagged, Stamped, Proven
    <3>2. CASE SettleAgain(v)
      BY <1>0, <2>1, <3>2 DEF Settle, SettleAgain, Abandon
    <3>3. CASE SettleNothing(v) \/ SettleLater(v) \/ SettleKept(v) \/ SettleLeft(v)
      BY <1>0, <2>1, <3>3 DEF Settle, SettleNothing, SettleLater, SettleKept, SettleLeft, Forgets
    <3> QED BY <2>1, <3>1, <3>2, <3>3 DEF Settle
  <2>2. ASSUME NEW v \in VMIDs, SettleFails(v) PROVE Tasks'
    BY <1>0, <2>2 DEF SettleFails, Tagged, Stamped, Proven
  <2> QED BY <1>5, <2>1, <2>2 DEF Settling
<1>6. CASE Undo
  BY <1>0, <1>6 DEF Undo, UndoDone, UndoNotMine, UndoUnread, UndoFails, Powered
<1>7. CASE Ensuring
  <2>1. ASSUME NEW v \in VMIDs, Ensure(v) PROVE Tasks'
    BY <1>0, <2>1 DEF Ensure, EnsureSeen, EnsureStop, EnsureStart, Found, Powered
  <2>2. CASE StartFound
    BY <1>0, <2>2 DEF StartFound, Powered
  <2>3. CASE Gate \/ GateFails \/ NotLookedAt \/ Waits \/ SaysLost \/ Unplaceable
    BY <1>0, <2>3 DEF Gate, GateFails, NotLookedAt, Waits, SaysLost, Unplaceable, ReadAgain
  <2> QED BY <1>7, <2>1, <2>2, <2>3 DEF Ensuring
<1>8. CASE Create \/ Making
  BY <1>0, <1>8 DEF Create, Build, Making, PostAccepted, Answered, GivesUp, CloneDone, Claim,
     Configure, Complete, BuildGate, BuildStart, CreateFails, Abandon, ReadAgain, Tagged, Equipped, Powered
<1>9. CASE Deleting \/ ReportStatus
  BY <1>0, <1>9 DEF Deleting, Licence, DeleteWaits, DeleteOwesProof, Doom, ReadAgain, Destroy,
     DestroyFails, Entomb, Prove, ReportStatus, Powered, Entombs
<1> QED BY <1>1, <1>2, <1>3, <1>4, <1>5, <1>6, <1>7, <1>8, <1>9 DEF Next, AgentStep

LEMMA TasksHold == Spec => []Tasks
<1>1. Init => Tasks
  BY NoneAssumption DEF Init, Tasks, ClaimedIsDone, AbandonedIsDone, AtIsDone, DoneAt, RecordFirst,
     Standing, Claimed
<1> QED BY <1>1, TasksStep, TypeInvariant, PTL DEF Spec

-----------------------------------------------------------------------------
(* One machine, where a listing shows every running clone a record names.   *)

\* A guest of which a field is changed still stands.
LEMMA Stays ==
  ASSUME TypeOK, NEW v \in Standing
  PROVE  /\ Tagged(guest[v]) # None /\ Equipped(guest[v]) # None
         /\ Powered(guest[v], TRUE) # None /\ Powered(guest[v], FALSE) # None
<1>1. guest[v] \in Guest /\ None \notin Guest
  BY NoneAssumption DEF Standing, TypeOK
<1>2. /\ Tagged(guest[v]) \in Guest /\ Equipped(guest[v]) \in Guest
      /\ Powered(guest[v], TRUE) \in Guest /\ Powered(guest[v], FALSE) \in Guest
  BY <1>1 DEF Guest, Tagged, Equipped, Powered
<1> QED BY <1>1, <1>2

\* A running clone that is not in a listing yet is in the journal.
Recorded == \A v \in Cloning : v \notin Standing => journal[v] \in {"asked", "cloning"}

LEMMA RecordedStep ==
  ASSUME LateClones = FALSE
  PROVE  TypeOK /\ Tasks /\ Recorded /\ [Next]_vars => Recorded'
<1> SUFFICES ASSUME TypeOK, Tasks, Recorded, [Next]_vars PROVE Recorded'
  OBVIOUS
<1> USE NoneAssumption DEF Recorded, Standing, Cloning, disk
<1>0. /\ guest \in [VMIDs -> Guest \cup {None}] /\ task \in [VMIDs -> {"none", "running", "ok", "failed"}]
      /\ journal \in [VMIDs -> {"none", "asked", "cloning", "abandoned"}]
      /\ at \in VMIDs \cup {None} /\ None \notin VMIDs /\ None \notin Guest
      /\ \A v \in Standing :
           /\ Tagged(guest[v]) # None /\ Equipped(guest[v]) # None
           /\ Powered(guest[v], TRUE) # None /\ Powered(guest[v], FALSE) # None
  BY Stays DEF TypeOK
<1>1. CASE UNCHANGED <<guest, task, journal>>
  BY <1>1
<1>2. CASE WorldStep
  <2>1. ASSUME NEW v \in VMIDs, Maintain(v) \/ PowersOff(v) PROVE Recorded'
    <3>1. v \in Standing /\ UNCHANGED <<task, journal>>
          /\ guest' \in {[guest EXCEPT ![v] = Powered(guest[v], TRUE)],
                         [guest EXCEPT ![v] = Powered(guest[v], FALSE)]}
      BY <2>1 DEF Maintain, PowersOff, Claimed
    <3> QED BY <1>0, <3>1
  <2>2. ASSUME NEW v \in VMIDs, OwnerCreates(v) \/ OwnerRemoves(v) PROVE Recorded'
    BY <1>0, <2>2 DEF OwnerCreates, OwnerRemoves
  <2>3. ASSUME NEW v \in VMIDs, NEW w \in VMIDs, OwnerCopies(v, w) PROVE Recorded'
    BY <1>0, <2>3 DEF OwnerCopies
  <2>4. CoreIntent \/ CoreHorizon \/ Crash => UNCHANGED <<guest, task, journal>>
    BY DEF CoreIntent, CoreHorizon, Crash
  <2> QED BY <1>1, <1>2, <2>1, <2>2, <2>3, <2>4 DEF WorldStep
<1>3. CASE CloneStep
  BY <1>0, <1>3 DEF CloneStep, CloneShows, CloneEnds, Unseen
<1>4. CASE Settling
  <2>1. ASSUME NEW v \in VMIDs, SettleNothing(v) /\ task' = task PROVE Recorded'
    BY <1>0, <2>1 DEF SettleNothing, Forgets, Unseen, Tasks, AbandonedIsDone
  <2>2. ASSUME NEW v \in VMIDs, task' = task, SettleAgain(v) \/ SettleLater(v) \/ SettleKept(v)
               \/ SettleLeft(v) \/ SettleTakes(v)
        PROVE  Recorded'
    BY <1>0, <2>2 DEF SettleAgain, SettleLater, SettleKept, SettleLeft, SettleTakes, Forgets, Abandon,
       Proven, Claimed, Stamped, Tasks, AbandonedIsDone
  <2>3. ASSUME NEW v \in VMIDs, SettleFails(v) PROVE Recorded'
    BY <1>0, <2>3 DEF SettleFails, Proven, Stamped
  <2> QED BY <1>4, <2>1, <2>2, <2>3 DEF Settling, Settle
<1>5. CASE Undo
  BY <1>0, <1>5 DEF Undo, UndoDone, UndoNotMine, UndoUnread, UndoFails, Tasks, AtIsDone, DoneAt
<1>6. CASE Ensuring
  <2>1. ASSUME NEW v \in VMIDs, Ensure(v) PROVE Recorded'
    <3>1. v \in Standing /\ UNCHANGED <<task, journal>>
          /\ guest' \in {guest, [guest EXCEPT ![v] = Powered(guest[v], FALSE)]}
      BY <2>1 DEF Ensure, EnsureSeen, EnsureStop, EnsureStart, Found, Claimed
    <3> QED BY <1>0, <3>1
  <2>2. CASE StartFound
    BY <1>0, <2>2 DEF StartFound
  <2>3. Gate \/ GateFails \/ NotLookedAt \/ Waits \/ SaysLost \/ Unplaceable
          => UNCHANGED <<guest, task, journal>>
    BY DEF Gate, GateFails, NotLookedAt, Waits, SaysLost, Unplaceable
  <2> QED BY <1>1, <1>6, <2>1, <2>2, <2>3 DEF Ensuring
<1>7. CASE Create \/ Making
  BY <1>0, <1>7 DEF Create, Build, Making, PostAccepted, Answered, GivesUp, CloneDone, Claim,
     Configure, Complete, BuildGate, BuildStart, CreateFails, Abandon, Tasks, AtIsDone, DoneAt, RecordFirst
<1>8. CASE Deleting
  BY <1>0, <1>8 DEF Deleting, Licence, DeleteWaits, DeleteOwesProof, Doom, Destroy,
     DestroyFails, Entomb, Prove, Entombs, Tasks, AtIsDone, DoneAt
<1>9. Start \/ Fetch \/ Dispatch \/ LookFails \/ ReportStatus \/ UNCHANGED vars
        => UNCHANGED <<guest, task, journal>>
  BY DEF Start, Fetch, Dispatch, LookFails, ReportStatus, vars
<1> QED BY <1>1, <1>2, <1>3, <1>4, <1>5, <1>6, <1>7, <1>8, <1>9 DEF Next, AgentStep

\* Only a clone call adds to what stands of the machine or is on its way.
LEMMA MadeStep ==
  ASSUME TypeOK, [Next]_vars
  PROVE  \/ PostAccepted
         \/ (Made \cup Cloning)' \subseteq Made \cup Cloning
<1> DEFINE Fewer == (Made \cup Cloning)' \subseteq Made \cup Cloning
<1> SUFFICES PostAccepted \/ Fewer
  OBVIOUS
<1> USE NoneAssumption DEF Made, Standing, Cloning
<1>0. guest \in [VMIDs -> Guest \cup {None}] /\ task \in [VMIDs -> {"none", "running", "ok", "failed"}]
  BY DEF TypeOK
<1>1. CASE UNCHANGED <<guest, task>>
  BY <1>1
<1>2. CASE WorldStep
  <2>1. ASSUME NEW v \in VMIDs, Maintain(v) \/ PowersOff(v) PROVE Fewer
    <3>1. v \in Standing /\ task' = task
          /\ guest' \in {[guest EXCEPT ![v] = Powered(guest[v], TRUE)],
                         [guest EXCEPT ![v] = Powered(guest[v], FALSE)]}
      BY <2>1 DEF Maintain, PowersOff, Claimed
    <3> QED BY <1>0, <3>1 DEF Powered
  <2>2. ASSUME NEW v \in VMIDs, OwnerCreates(v) \/ OwnerRemoves(v) PROVE Fewer
    BY <1>0, <2>2 DEF OwnerCreates, OwnerRemoves
  <2>3. ASSUME NEW v \in VMIDs, NEW w \in VMIDs, OwnerCopies(v, w) PROVE Fewer
    BY <1>0, <2>3 DEF OwnerCopies
  <2>4. CoreIntent \/ CoreHorizon \/ Crash => UNCHANGED <<guest, task>>
    BY DEF CoreIntent, CoreHorizon, Crash
  <2> QED BY <1>1, <1>2, <2>1, <2>2, <2>3, <2>4 DEF WorldStep
<1>3. CASE CloneStep
  BY <1>0, <1>3 DEF CloneStep, CloneShows, CloneEnds, Unseen
<1>4. CASE Settling
  <2>1. ASSUME NEW v \in VMIDs, Settle(v) \/ SettleFails(v) PROVE Fewer
    <3>1. /\ task' = task
          /\ guest' = guest \/ (v \in Stamped /\ guest' = [guest EXCEPT ![v] = Tagged(guest[v])])
      BY <2>1 DEF Settle, SettleFails, SettleNothing, SettleAgain, SettleLater, SettleKept,
         SettleLeft, SettleTakes, Forgets
    <3>2. CASE v \in Stamped /\ guest' = [guest EXCEPT ![v] = Tagged(guest[v])]
      BY <1>0, <3>1, <3>2 DEF Stamped, Tagged
    <3> QED BY <1>1, <3>1, <3>2
  <2> QED BY <1>4, <2>1 DEF Settling
<1>5. CASE Undo
  BY <1>0, <1>5 DEF Undo, UndoDone, UndoNotMine, UndoUnread, UndoFails, Powered
<1>6. CASE Ensuring
  <2>1. ASSUME NEW v \in VMIDs, Ensure(v) PROVE Fewer
    <3>1. v \in Standing /\ task' = task
          /\ guest' \in {guest, [guest EXCEPT ![v] = Powered(guest[v], FALSE)]}
      BY <2>1 DEF Ensure, EnsureSeen, EnsureStop, EnsureStart, Found, Claimed
    <3> QED BY <1>0, <3>1 DEF Powered
  <2>2. CASE StartFound
    BY <1>0, <2>2 DEF StartFound, Powered
  <2>3. Gate \/ GateFails \/ NotLookedAt \/ Waits \/ SaysLost \/ Unplaceable
          => UNCHANGED <<guest, task>>
    BY DEF Gate, GateFails, NotLookedAt, Waits, SaysLost, Unplaceable
  <2> QED BY <1>1, <1>6, <2>1, <2>2, <2>3 DEF Ensuring
<1>7. CASE Create \/ Making
  BY <1>0, <1>7 DEF Create, Build, Making, Answered, GivesUp, CloneDone, Claim,
     Configure, Complete, BuildGate, BuildStart, CreateFails, Tagged, Equipped, Powered
<1>8. CASE Deleting
  BY <1>0, <1>8 DEF Deleting, Licence, DeleteWaits, DeleteOwesProof, Doom, Destroy,
     DestroyFails, Entomb, Prove, Powered
<1>9. Start \/ Fetch \/ Dispatch \/ LookFails \/ ReportStatus \/ UNCHANGED vars
        => UNCHANGED <<guest, task>>
  BY DEF Start, Fetch, Dispatch, LookFails, ReportStatus, vars
<1> QED BY <1>1, <1>2, <1>3, <1>4, <1>5, <1>6, <1>7, <1>8, <1>9 DEF Next, AgentStep

\* A listing with no claim and no stamp, and a journal that owes nothing: nothing
\* of the machine stands, and nothing of it is on its way.
LEMMA NothingLeftOfIt ==
  ASSUME Stamps, Recorded, Claimed = {}, Stamped = {}, Owed = {}
  PROVE  Made \cup Cloning = {}
BY DEF Stamps, StampedAll, Recorded, Claimed, Stamped, Owed, Made, Standing, Cloning

\* At most one, and none at all where a clone is about to be asked for.
AtMostOne ==
  /\ \A v, w \in Made \cup Cloning : v = w
  /\ pc = "post" => Made \cup Cloning = {}

LEMMA PostReached ==
  ASSUME [Next]_vars, pc' = "post"
  PROVE  (pc = "post" /\ ~PostAccepted) \/ (Create /\ UNCHANGED <<guest, task>>)
<1> USE DEF pass, Report
<1>1. pc' = pc => ~PostAccepted
  BY DEF PostAccepted
<1>2. CASE WorldStep \/ CloneStep \/ UNCHANGED vars
  BY <1>1, <1>2 DEF WorldStep, CloneStep, CoreIntent, CoreHorizon, Crash, Maintain, OwnerCreates,
     OwnerRemoves, PowersOff, OwnerCopies, CloneShows, CloneEnds, vars
<1>3. ~(Start \/ Fetch \/ Settling \/ Undo)
  BY DEF Start, Fetch, Settling, Settle, SettleFails, SettleNothing, SettleAgain, SettleLater,
     SettleKept, SettleLeft, SettleTakes, Forgets, Abandon, Undo
<1>4. ~(Dispatch \/ LookFails \/ Ensuring)
  BY DEF Dispatch, Refuse, Consider, ReadAgain, LookFails, Ensuring, Ensure, EnsureSeen,
     EnsureStop, EnsureStart, Gate, GateFails, StartFound, NotLookedAt, Waits, SaysLost, Unplaceable
<1>5. ~Making
  BY DEF Making, PostAccepted, Answered, GivesUp, CloneDone, Claim, Configure, Complete,
     BuildGate, BuildStart, CreateFails, Abandon, ReadAgain
<1>6. ~(Deleting \/ ReportStatus)
  BY DEF Deleting, Licence, DeleteWaits, DeleteOwesProof, Doom, ReadAgain, Destroy,
     DestroyFails, Entomb, Prove, ReportStatus
<1>7. Create => UNCHANGED <<guest, task>>
  BY DEF Create, Build
<1> QED BY <1>2, <1>3, <1>4, <1>5, <1>6, <1>7 DEF Next, AgentStep

LEMMA AtMostOneStep == TypeOK /\ Stamps /\ Recorded /\ AtMostOne /\ [Next]_vars => AtMostOne'
<1> SUFFICES ASSUME TypeOK, Stamps, Recorded, AtMostOne, [Next]_vars PROVE AtMostOne'
  OBVIOUS
<1>1. CASE PostAccepted
  <2>1. (Made \cup Cloning)' \subseteq {at}
    BY <1>1 DEF PostAccepted, AtMostOne, Made, Standing, Cloning, TypeOK
  <2> QED BY <1>1, <2>1 DEF PostAccepted, AtMostOne
<1>2. CASE ~PostAccepted
  <2>1. (Made \cup Cloning)' \subseteq Made \cup Cloning
    BY <1>2, MadeStep
  <2>2. pc' = "post" => Made \cup Cloning = {}
    <3>1. Create => Made \cup Cloning = {}
      BY NothingLeftOfIt DEF Create, Build, NotFound, Unsettled
    <3> QED BY <3>1, PostReached DEF AtMostOne
  <2> QED BY <2>1, <2>2 DEF AtMostOne
<1> QED BY <1>1, <1>2

\* One clone at a time for one machine, whatever faults, crashes and owner's acts
\* come between: of the machine at most one guest stands or is on its way.
THEOREM OneMachineEver ==
  ASSUME LateClones = FALSE
  PROVE  Spec => []OneMachine
<1>1. Init => Recorded /\ AtMostOne
  BY DEF Init, Recorded, AtMostOne, Made, Standing, Cloning
<1>2. AtMostOne => OneMachine
  <2> SUFFICES ASSUME AtMostOne PROVE Cardinality(Made \cup Cloning) <= 1
    BY DEF OneMachine
  <2>1. CASE Made \cup Cloning = {}
    BY <2>1, FS_EmptySet
  <2>2. CASE \E v \in Made \cup Cloning : TRUE
    <3>1. PICK v \in Made \cup Cloning : TRUE
      BY <2>2
    <3>2. Made \cup Cloning = {v}
      BY <3>1 DEF AtMostOne
    <3> QED BY <3>2, FS_Singleton
  <2> QED BY <2>1, <2>2
<1> QED BY <1>1, <1>2, RecordedStep, AtMostOneStep, StampsHold, TasksHold, TypeInvariant, PTL DEF Spec

-----------------------------------------------------------------------------
(* What Core concludes.                                                     *)

\* The delete's proof is looked for only when nothing is owed.
ProofOwesNothing == pc = "prove" => Owed = {}

LEMMA ProofOwesNothingStep == ProofOwesNothing /\ [Next]_vars => ProofOwesNothing'
<1> SUFFICES ASSUME ProofOwesNothing, [Next]_vars, pc' = "prove" PROVE Owed' = {}
  BY DEF ProofOwesNothing
<1> USE DEF ProofOwesNothing, Owed, pass, disk, Report
<1>1. CASE WorldStep \/ CloneStep \/ UNCHANGED vars
  BY <1>1 DEF WorldStep, CloneStep, CoreIntent, CoreHorizon, Crash, Maintain, OwnerCreates,
     OwnerRemoves, PowersOff, OwnerCopies, CloneShows, CloneEnds, vars
<1>2. ~(Start \/ Fetch \/ Settling \/ Undo)
  BY DEF Start, Fetch, Settling, Settle, SettleFails, SettleNothing, SettleAgain, SettleLater,
     SettleKept, SettleLeft, SettleTakes, Forgets, Abandon, Undo
<1>3. ~(Dispatch \/ LookFails \/ Ensuring \/ Create)
  BY DEF Dispatch, Refuse, Consider, ReadAgain, LookFails, Ensuring, Ensure, EnsureSeen,
     EnsureStop, EnsureStart, Gate, GateFails, StartFound, NotLookedAt, Waits, SaysLost, Unplaceable,
     Create, Build
<1>4. ~Making
  BY DEF Making, PostAccepted, Answered, GivesUp, CloneDone, Claim, Configure, Complete,
     BuildGate, BuildStart, CreateFails, Abandon, ReadAgain
<1>5. CASE Deleting \/ ReportStatus
  BY <1>5 DEF Deleting, Licence, DeleteWaits, DeleteOwesProof, Doom, ReadAgain, Destroy,
     DestroyFails, Entomb, Entombs, Prove, ReportStatus
<1> QED BY <1>1, <1>2, <1>3, <1>4, <1>5 DEF Next, AgentStep

\* Said, or concluded: that the machine is no more.
Over == concluded # {} \/ say \in {"gone", "lost"}

\* Only these two steps say so of a machine of which it was not said before.
LEMMA OverReached ==
  ASSUME [Next]_vars, ~Over, Over'
  PROVE  SaysLost \/ (Prove /\ Claimed \cup Stamped = {})
<1> USE DEF Over, pass, core, Report
<1>1. CASE WorldStep \/ CloneStep \/ UNCHANGED vars
  BY <1>1 DEF WorldStep, CloneStep, CoreIntent, CoreHorizon, Crash, Maintain, OwnerCreates,
     OwnerRemoves, PowersOff, OwnerCopies, CloneShows, CloneEnds, vars
<1>2. ~(Start \/ Fetch \/ Settling \/ Undo)
  BY DEF Start, Fetch, Settling, Settle, SettleFails, SettleNothing, SettleAgain, SettleLater,
     SettleKept, SettleLeft, SettleTakes, Forgets, Abandon, Undo
<1>3. Dispatch \/ LookFails \/ Ensuring \/ Create => SaysLost
  BY DEF Dispatch, Refuse, Consider, ReadAgain, LookFails, Ensuring, Ensure, EnsureSeen,
     EnsureStop, EnsureStart, Gate, GateFails, StartFound, NotLookedAt, Waits, Unplaceable,
     Create, Build
<1>4. ~Making
  BY DEF Making, PostAccepted, Answered, GivesUp, CloneDone, Claim, Configure, Complete,
     BuildGate, BuildStart, CreateFails, Abandon, ReadAgain
<1>5. CASE Deleting \/ ReportStatus
  BY <1>5 DEF Deleting, Licence, DeleteWaits, DeleteOwesProof, Doom, ReadAgain, Destroy,
     DestroyFails, Entomb, Prove, ReportStatus, Heard
<1> QED BY <1>1, <1>2, <1>3, <1>4, <1>5 DEF Next, AgentStep

OverIsSo == Over => Made \cup Cloning = {}

LEMMA OverIsSoStep ==
  TypeOK /\ Stamps /\ Recorded /\ History /\ ProofOwesNothing /\ OverIsSo /\ [Next]_vars => OverIsSo'
<1> SUFFICES ASSUME TypeOK, Stamps, Recorded, History, ProofOwesNothing, OverIsSo, [Next]_vars, Over'
             PROVE  (Made \cup Cloning)' = {}
  BY DEF OverIsSo
<1>1. CASE PostAccepted
  BY <1>1 DEF PostAccepted, History, BuildsOnlyNew, Said, Over, core
<1>2. CASE ~PostAccepted
  <2>1. CASE Over
    BY <1>2, <2>1, MadeStep DEF OverIsSo
  <2>2. CASE ~Over
    <3>1. SaysLost => Made \cup Cloning = {}
      BY NothingLeftOfIt DEF SaysLost, NotFound, Unsettled
    <3>2. Prove /\ Claimed \cup Stamped = {} => Made \cup Cloning = {}
      BY NothingLeftOfIt DEF Prove, ProofOwesNothing
    <3> QED BY <1>2, <2>2, <3>1, <3>2, OverReached, MadeStep
  <2> QED BY <2>1, <2>2
<1> QED BY <1>1, <1>2

\* What Core concludes of a machine on the agent's word is so, and stays so:
\* nothing of it stands, and nothing of it is on its way.
THEOREM ConclusionsAreSo ==
  ASSUME LateClones = FALSE
  PROVE  Spec => []WhatCoreConcludesIsSo
<1>1. Init => Recorded /\ ProofOwesNothing /\ OverIsSo
  BY DEF Init, Recorded, ProofOwesNothing, OverIsSo, Over, Made, Standing, Cloning
<1>2. OverIsSo => WhatCoreConcludesIsSo
  BY DEF OverIsSo, Over, WhatCoreConcludesIsSo
<1> QED BY <1>1, <1>2, RecordedStep, ProofOwesNothingStep, OverIsSoStep, StampsHold, TasksHold,
           HistoryHolds, TypeInvariant, PTL DEF Spec

-----------------------------------------------------------------------------
(* What Core was told of.                                                   *)

\* Core is told of claimed guests, and forgets a number its guest is gone from.
ReportedClaimed == reported \subseteq Claimed

\* The machine the pass goes on with, or reports, is claimed and its clone over.
AtClaimed ==
  /\ pc \in {"gate", "starting", "configure", "complete", "buildGate", "buildStart"} \/ say = "seen"
       => (at \in Standing => guest[at].claim)
  /\ say = "seen" => at \notin Cloning

\* A number being built was not reported, and a destroy has its tombstone.
NewUnreported ==
  pc \in {"post", "posted", "cloning", "claim", "configure", "complete", "buildGate", "buildStart"}
    => at \notin reported
TombFirst == pc = "destroy" => tomb # "none"

Told == ReportedClaimed /\ AtClaimed /\ NewUnreported /\ TombFirst

LEMMA ToldStep == TypeOK /\ Tasks /\ History /\ Told /\ [Next]_vars => Told'
<1> SUFFICES ASSUME TypeOK, Tasks, History, Told, [Next]_vars PROVE Told'
  OBVIOUS
<1> USE NoneAssumption DEF Told, ReportedClaimed, AtClaimed, NewUnreported, TombFirst,
        Standing, Claimed, Cloning, pass, disk, core, Report
<1>0. /\ guest \in [VMIDs -> Guest \cup {None}] /\ task \in [VMIDs -> {"none", "running", "ok", "failed"}]
      /\ at \in VMIDs \cup {None} /\ None \notin VMIDs /\ None \notin Guest
      /\ pc \in {"down", "idle"} => at = None
      /\ reported \subseteq VMIDs
      /\ ClaimedIsDone /\ AtIsDone
      /\ pc # "report" => say = "nothing"
      /\ \A v \in Standing :
           /\ Tagged(guest[v]) # None /\ Equipped(guest[v]) # None
           /\ Powered(guest[v], TRUE) # None /\ Powered(guest[v], FALSE) # None
  BY Stays DEF TypeOK, Tasks, History, Said
<1>1. CASE UNCHANGED vars
  BY <1>1 DEF vars
<1>2. CASE WorldStep
  <2>1. CASE CoreIntent \/ CoreHorizon \/ Crash
    BY <1>0, <2>1 DEF CoreIntent, CoreHorizon, Crash
  <2>2. ASSUME NEW v \in VMIDs, Maintain(v) \/ PowersOff(v) PROVE Told'
    <3>1. /\ v \in Standing /\ UNCHANGED <<task, at, pc, say, reported, tomb>>
          /\ guest' \in {[guest EXCEPT ![v] = Powered(guest[v], TRUE)],
                         [guest EXCEPT ![v] = Powered(guest[v], FALSE)]}
      BY <2>2 DEF Maintain, PowersOff
    <3> QED BY <1>0, <3>1 DEF Powered
  <2>3. ASSUME NEW v \in VMIDs, OwnerCreates(v) \/ OwnerRemoves(v) PROVE Told'
    BY <1>0, <2>3 DEF OwnerCreates, OwnerRemoves
  <2>4. ASSUME NEW v \in VMIDs, NEW w \in VMIDs, OwnerCopies(v, w) PROVE Told'
    BY <1>0, <2>4 DEF OwnerCopies
  <2> QED BY <1>2, <2>1, <2>2, <2>3, <2>4 DEF WorldStep
<1>3. CASE CloneStep
  BY <1>0, <1>3 DEF CloneStep, CloneShows, CloneEnds, Unseen, Guest, ClaimedIsDone, AtIsDone, DoneAt
<1>4. CASE Start \/ Fetch \/ Dispatch \/ LookFails
  <2>1. CASE Start \/ Fetch
    BY <1>0, <2>1 DEF Start, Fetch
  <2>2. CASE Dispatch \/ LookFails
    BY <1>0, <2>2 DEF Dispatch, Refuse, Consider, LookFails, ReadAgain
  <2> QED BY <1>4, <2>1, <2>2
<1>5. CASE Settling
  <2>1. ASSUME NEW v \in VMIDs, Settle(v) PROVE Told'
    <3>1. CASE SettleTakes(v)
      BY <1>0, <2>1, <3>1 DEF Settle, SettleTakes, Abandon, Tagged, Stamped
    <3>2. CASE SettleAgain(v)
      BY <1>0, <2>1, <3>2 DEF Settle, SettleAgain, Abandon
    <3>3. CASE SettleNothing(v) \/ SettleLater(v) \/ SettleKept(v) \/ SettleLeft(v)
      BY <1>0, <2>1, <3>3 DEF Settle, SettleNothing, SettleLater, SettleKept, SettleLeft, Forgets
    <3> QED BY <2>1, <3>1, <3>2, <3>3 DEF Settle
  <2>2. ASSUME NEW v \in VMIDs, SettleFails(v) PROVE Told'
    BY <1>0, <2>2 DEF SettleFails, Tagged, Stamped
  <2> QED BY <1>5, <2>1, <2>2 DEF Settling
<1>6. CASE Undo
  BY <1>0, <1>6 DEF Undo, UndoDone, UndoNotMine, UndoUnread, UndoFails, Powered
<1>7. CASE Ensuring
  <2>1. ASSUME NEW v \in VMIDs, Ensure(v) PROVE Told'
    BY <1>0, <2>1 DEF Ensure, EnsureSeen, EnsureStop, EnsureStart, Found, Powered, ClaimedIsDone
  <2>2. CASE StartFound
    BY <1>0, <2>2 DEF StartFound, Powered, AtIsDone, DoneAt
  <2>3. CASE Gate \/ GateFails \/ NotLookedAt \/ Waits \/ SaysLost \/ Unplaceable
    BY <1>0, <2>3 DEF Gate, GateFails, NotLookedAt, Waits, SaysLost, Unplaceable, ReadAgain, AtIsDone, DoneAt
  <2> QED BY <1>7, <2>1, <2>2, <2>3 DEF Ensuring
<1>8. CASE Create \/ Making
  BY <1>0, <1>8 DEF Create, Build, Making, PostAccepted, Answered, GivesUp, CloneDone, Claim,
     Configure, Complete, BuildGate, BuildStart, CreateFails, Abandon, ReadAgain, Tagged, Equipped,
     Powered, AtIsDone, DoneAt
<1>9. CASE Deleting
  BY <1>0, <1>9 DEF Deleting, Licence, DeleteWaits, DeleteOwesProof, Doom, ReadAgain, Destroy,
     DestroyFails, Entomb, Prove, Powered, Entombs
<1>10. CASE ReportStatus
  BY <1>0, <1>10 DEF ReportStatus, Heard
<1> QED BY <1>1, <1>2, <1>3, <1>4, <1>5, <1>6, <1>7, <1>8, <1>9, <1>10 DEF Next, AgentStep

\* What a step may do to a machine Core was told of.
ToldKept == \A v \in reported \cap Made :
              /\ guest'[v] = None /\ acts' = acts => tomb # "none" \/ journal[v] = "abandoned"
              /\ journal'[v] = "abandoned" => journal[v] = "abandoned"

LEMMA ToldKeptStep == TypeOK /\ Tasks /\ Told /\ [Next]_vars => ToldKept
<1> SUFFICES ASSUME TypeOK, Tasks, Told, [Next]_vars PROVE ToldKept
  OBVIOUS
<1> USE NoneAssumption DEF ToldKept, Made, Standing, disk
<1>0. /\ guest \in [VMIDs -> Guest \cup {None}]
      /\ journal \in [VMIDs -> {"none", "asked", "cloning", "abandoned"}] /\ acts \in Nat
      /\ reported \subseteq Claimed /\ Claimed \subseteq VMIDs
      /\ \A v \in Standing :
           /\ Tagged(guest[v]) # None /\ Equipped(guest[v]) # None
           /\ Powered(guest[v], TRUE) # None /\ Powered(guest[v], FALSE) # None
  <2>1. acts \in Nat
    BY BoundsAssumption DEF TypeOK
  <2> QED BY <2>1, Stays DEF TypeOK, Told, ReportedClaimed, Claimed
<1>1. CASE UNCHANGED <<guest, journal>>
  BY <1>0, <1>1
<1>2. CASE WorldStep
  <2>1. ASSUME NEW v \in VMIDs, Maintain(v) \/ PowersOff(v) PROVE ToldKept
    <3>1. /\ v \in Standing /\ journal' = journal
          /\ guest' \in {[guest EXCEPT ![v] = Powered(guest[v], TRUE)],
                         [guest EXCEPT ![v] = Powered(guest[v], FALSE)]}
      BY <2>1 DEF Maintain, PowersOff, Claimed
    <3> QED BY <1>0, <3>1
  <2>2. ASSUME NEW v \in VMIDs, OwnerCreates(v) \/ OwnerRemoves(v) PROVE ToldKept
    BY <1>0, <2>2 DEF OwnerCreates, OwnerRemoves
  <2>3. ASSUME NEW v \in VMIDs, NEW w \in VMIDs, OwnerCopies(v, w) PROVE ToldKept
    BY <1>0, <2>3 DEF OwnerCopies
  <2>4. CoreIntent \/ CoreHorizon \/ Crash => UNCHANGED <<guest, journal>>
    BY DEF CoreIntent, CoreHorizon, Crash
  <2> QED BY <1>1, <1>2, <2>1, <2>2, <2>3, <2>4 DEF WorldStep
<1>3. CASE CloneStep
  BY <1>0, <1>3 DEF CloneStep, CloneShows, CloneEnds, Unseen, Claimed, Tasks, ClaimedIsDone
<1>4. CASE Settling
  <2>1. ASSUME NEW v \in VMIDs, Settle(v) PROVE ToldKept
    <3>1. CASE SettleTakes(v)
      BY <1>0, <3>1 DEF SettleTakes, Abandon, Stamped, Claimed
    <3>2. CASE SettleAgain(v) \/ SettleNothing(v) \/ SettleLater(v) \/ SettleKept(v) \/ SettleLeft(v)
      BY <1>0, <3>2 DEF SettleAgain, Abandon, SettleNothing, SettleLater, SettleKept, SettleLeft, Forgets
    <3> QED BY <2>1, <3>1, <3>2 DEF Settle
  <2>2. ASSUME NEW v \in VMIDs, SettleFails(v) PROVE ToldKept
    BY <1>0, <2>2 DEF SettleFails, Stamped
  <2> QED BY <1>4, <2>1, <2>2 DEF Settling
<1>5. CASE Undo
  BY <1>0, <1>5 DEF Undo, UndoDone, UndoNotMine, UndoUnread, UndoFails, Tasks, RecordFirst
<1>6. CASE Ensuring
  <2>1. ASSUME NEW v \in VMIDs, Ensure(v) PROVE ToldKept
    <3>1. /\ v \in Standing /\ journal' = journal
          /\ guest' \in {guest, [guest EXCEPT ![v] = Powered(guest[v], FALSE)]}
      BY <2>1 DEF Ensure, EnsureSeen, EnsureStop, EnsureStart, Found, Claimed
    <3> QED BY <1>0, <3>1
  <2>2. CASE StartFound
    BY <1>0, <2>2 DEF StartFound
  <2>3. Gate \/ GateFails \/ NotLookedAt \/ Waits \/ SaysLost \/ Unplaceable
          => UNCHANGED <<guest, journal>>
    BY DEF Gate, GateFails, NotLookedAt, Waits, SaysLost, Unplaceable
  <2> QED BY <1>1, <1>6, <2>1, <2>2, <2>3 DEF Ensuring
<1>7. CASE Create \/ Making
  BY <1>0, <1>7 DEF Create, Build, Making, PostAccepted, Answered, GivesUp, CloneDone, Claim,
     Configure, Complete, BuildGate, BuildStart, CreateFails, Abandon, Told, NewUnreported
<1>8. CASE Deleting
  BY <1>0, <1>8 DEF Deleting, Licence, DeleteWaits, DeleteOwesProof, Doom, Destroy,
     DestroyFails, Entomb, Prove, Entombs, Told, TombFirst
<1>9. Start \/ Fetch \/ Dispatch \/ LookFails \/ ReportStatus \/ UNCHANGED vars
        => UNCHANGED <<guest, journal>>
  BY DEF Start, Fetch, Dispatch, LookFails, ReportStatus, vars
<1> QED BY <1>1, <1>2, <1>3, <1>4, <1>5, <1>6, <1>7, <1>8, <1>9 DEF Next, AgentStep

\* The machine Core was told of is taken away under its tombstone alone, or by a
\* rollback that was already owed when Core was told, and none is decided after.
THEOREM ReportedKept == Spec => ReportedIsKept
<1>1. Init => Told
  BY DEF Init, Told, ReportedClaimed, AtClaimed, NewUnreported, TombFirst
<1>2. TypeOK /\ Tasks /\ Told /\ [Next]_vars => [ToldKept]_vars
  BY ToldKeptStep
<1> QED BY <1>1, <1>2, ToldStep, TasksHold, HistoryHolds, TypeInvariant, PTL
        DEF Spec, ReportedIsKept, ToldKept

=============================================================================
