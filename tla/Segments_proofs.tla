-------------------------- MODULE Segments_proofs --------------------------
(***************************************************************************)
(* What holds of the network segments for every set of networks, whatever  *)
(* names they may take and however many calls fail: their type, and that a *)
(* machine is plugged only into its own network's segment.                 *)
(***************************************************************************)
EXTENDS Segments, TLAPS, WellFoundedInduction

-----------------------------------------------------------------------------
(* The first name nobody has is one of the network's.                       *)

Below == OpToRel(<, Nat)

LEMMA First == ASSUME NEW s \in SUBSET Nat, s # {} PROVE \E i \in s : \A j \in s : i =< j
<1>1. IsWellFoundedOn(Below, Nat)
  BY NatLessThanWellFounded DEF Below
<1>2. PICK i \in s : \A j \in s : <<j, i>> \notin Below
  BY <1>1, WFMin
<1>3. \A j \in s : ~(j < i)
  BY <1>2 DEF Below, OpToRel
<1> QED BY <1>3

LEMMA FirstFreeIsFree ==
  ASSUME SegmentsAssumption, NEW n \in Networks, FreeNames(n) # {}
  PROVE  FirstFree(n) \in Names /\ vnet[FirstFree(n)] = Nothing
<1>1. Candidates[n] \in Seq(Names)
  BY DEF SegmentsAssumption
<1>2. FreeNames(n) \in SUBSET Nat
  BY <1>1 DEF FreeNames
<1>3. PICK i \in FreeNames(n) : FirstFree(n) = Candidates[n][i]
  BY <1>2, First DEF FirstFree
<1> QED BY <1>1, <1>3 DEF FreeNames

-----------------------------------------------------------------------------
(* Every variable has its type.                                             *)

LEMMA InitType == SegmentsAssumption /\ Init => TypeOK
  BY DEF SegmentsAssumption, Init, TypeOK, Vnets, Guests

LEMMA CommittedType == ASSUME NEW vs \in [Names -> Vnets \cup {Nothing}]
                       PROVE  Committed(vs) \in [Names -> Vnets \cup {Nothing}]
  BY DEF Committed, Vnets

LEMMA MarkedType == ASSUME TypeOK, NEW v \in Names PROVE Marked(v) \in [Names -> Vnets \cup {Nothing}]
  BY DEF Marked, TypeOK, Vnets

LEMMA MishapType == SegmentsAssumption /\ TypeOK /\ Mishap => mishaps' \in 0 .. MaxMishaps
  BY DEF SegmentsAssumption, TypeOK, Mishap

LEMMA MakeType == SegmentsAssumption /\ TypeOK /\ net \in Networks /\ seg \in Names /\ Make => TypeOK'
<1> SUFFICES ASSUME SegmentsAssumption, TypeOK, net \in Networks, seg \in Names, Make PROVE TypeOK'
  OBVIOUS
<1> DEFINE plugged == [plug |-> seg, runs |-> FALSE]
           moved == IF Stands(net) THEN [machine[net] EXCEPT !.plug = seg] ELSE plugged
<1>1. plugged \in Guests /\ moved \in Guests /\ [plug |-> Unplugged, runs |-> FALSE] \in Guests
  BY DEF Guests, TypeOK, Stands
<1>2. [moved EXCEPT !.runs = TRUE] \in Guests
  BY <1>1 DEF Guests
<1>3. \E g \in Guests \cup {Nothing} : machine' = [machine EXCEPT ![net] = g]
  BY <1>1, <1>2 DEF Make, TypeOK
<1>4. machine' \in [Networks -> Guests \cup {Nothing}]
  BY <1>3 DEF TypeOK
<1> QED BY <1>4, MishapType DEF Make, TurnOver, TypeOK

\* The turn in hand has its network and its segment.
InHand == walk \in {"apply", "wait", "make"} => net \in Networks /\ seg \in Names

LEMMA InHandStep == SegmentsAssumption /\ TypeOK /\ InHand /\ [Next]_segmentVars => InHand'
<1> SUFFICES ASSUME SegmentsAssumption, TypeOK, InHand, [Next]_segmentVars PROVE InHand'
  OBVIOUS
<1>1. CASE \E n \in Networks : Choose(n)
  BY <1>1, FirstFreeIsFree DEF Choose, Takes, TurnOver, Named, InHand
<1>2. CASE Apply \/ Wait \/ Make
  BY <1>2 DEF Apply, Wait, Make, TurnOver, InHand
<1>3. CASE Begin \/ Reaped \/ PassEnds \/ Dies
  BY <1>3 DEF Begin, Reaped, PassEnds, Dies, InHand
<1>4. CASE UNCHANGED <<walk, net, seg>>
  BY <1>4 DEF InHand
<1> QED
  BY <1>1, <1>2, <1>3, <1>4
  DEF Next, Agent, DeleteVnet, Remove, Reloads, OwnerApplies, Asks, segmentVars, segmentPass

LEMMA NextType == SegmentsAssumption /\ TypeOK /\ InHand /\ [Next]_segmentVars => TypeOK'
<1> SUFFICES ASSUME SegmentsAssumption, TypeOK, InHand, [Next]_segmentVars PROVE TypeOK'
  OBVIOUS
<1>1. CASE UNCHANGED segmentVars
  BY <1>1 DEF segmentVars, segmentPass, TypeOK
<1>2. CASE Begin
  BY <1>2, MishapType DEF Begin, TypeOK
<1>3. ASSUME NEW v \in Names, DeleteVnet(v) PROVE TypeOK'
  <2>1. Marked(v) \in [Names -> Vnets \cup {Nothing}] /\ Committed(Marked(v)) \in [Names -> Vnets \cup {Nothing}]
    BY MarkedType, CommittedType
  <2> QED BY <1>3, <2>1, MishapType DEF DeleteVnet, TypeOK
<1>4. CASE Reaped \/ PassEnds \/ Dies
  BY <1>4, MishapType DEF Reaped, PassEnds, Dies, TypeOK
<1>5. ASSUME NEW n \in Networks, Choose(n) PROVE TypeOK'
  <2>1. CASE \E v \in Named(n) : /\ Takes(n, v, IF vnet[v].state = "live" /\ Available(v) THEN "make" ELSE "apply")
                                 /\ UNCHANGED <<vnet, mishaps>>
    BY <1>5, <2>1 DEF Choose, Takes, Named, TypeOK
  <2>2. CASE TurnOver /\ UNCHANGED vnet /\ (Mishap \/ UNCHANGED mishaps)
    BY <1>5, <2>2, MishapType DEF Choose, TurnOver, TypeOK
  <2>3. CASE /\ FreeNames(n) # {} /\ Takes(n, FirstFree(n), "apply") /\ UNCHANGED mishaps
             /\ vnet' = [vnet EXCEPT ![FirstFree(n)] = IF @ = Nothing THEN [owner |-> n, state |-> "new"] ELSE @]
    <3>1. FirstFree(n) \in Names
      BY <2>3, FirstFreeIsFree
    <3>2. [owner |-> n, state |-> "new"] \in Vnets
      BY DEF Vnets
    <3>3. vnet' \in [Names -> Vnets \cup {Nothing}]
      BY <2>3, <3>1, <3>2 DEF TypeOK
    <3> QED BY <1>5, <2>3, <3>1, <3>3 DEF Choose, Takes, TypeOK
  <2> QED BY <1>5, <2>1, <2>2, <2>3 DEF Choose
<1>6. CASE Apply
  BY <1>6, MishapType, CommittedType DEF Apply, TurnOver, TypeOK
<1>7. CASE Wait
  BY <1>7, MishapType DEF Wait, TurnOver, TypeOK
<1>8. CASE Make
  BY <1>8, MakeType DEF Make, InHand
<1>9. ASSUME NEW n \in Networks, Remove(n) PROVE TypeOK'
  <2>1. machine' \in [Networks -> Guests \cup {Nothing}]
    BY <1>9 DEF Remove, TypeOK, Stands, Guests
  <2> QED BY <1>9, <2>1, MishapType DEF Remove, TypeOK
<1>10. CASE Reloads \/ OwnerApplies
  BY <1>10, CommittedType DEF Reloads, OwnerApplies, TypeOK, segmentPass
<1>11. ASSUME NEW n \in Networks, Asks(n) PROVE TypeOK'
  BY <1>11 DEF Asks, TypeOK, segmentPass
<1> QED BY <1>1, <1>2, <1>3, <1>4, <1>5, <1>6, <1>7, <1>8, <1>9, <1>10, <1>11 DEF Next, Agent

\* Every variable has its type.
THEOREM TypeCorrect == SegmentsAssumption => (Spec => [](TypeOK /\ InHand))
<1>1. SegmentsAssumption => SegmentsAssumption'
  BY DEF SegmentsAssumption
<1>2. Init => InHand
  BY DEF Init, InHand
<1> QED BY <1>1, <1>2, InitType, NextType, InHandStep, PTL DEF Spec

-----------------------------------------------------------------------------
(* Every segment a machine is on is its network's, and stays.               *)

Own(n) == [owner |-> n, state |-> "live"]

\* What the reap found unused, nothing is plugged into while it goes on.
DoomedUnused == walk = "reap" => doomed \cap Used = {}

\* The segment in hand is the network's, or gone; once it was applied, its state
\* is not in doubt.
SegmentInHand ==
  /\ walk = "apply" => vnet[seg] = Nothing \/ vnet[seg].owner = net
  /\ walk = "wait" => vnet[seg] \in {Nothing, Own(net)}
  /\ walk = "make" => vnet[seg] = Own(net)

Plugging == DoomedUnused /\ SegmentInHand /\ OwnSegment

LEMMA PluggingInit == Init => Plugging
  BY DEF Init, Plugging, DoomedUnused, SegmentInHand, OwnSegment, Stands

\* What is applied keeps a segment that is live, and makes a new one live.
LEMMA CommittedKeeps ==
  ASSUME SegmentsAssumption, TypeOK, NEW v \in Names
  PROVE  /\ \A n \in Networks : vnet[v] = Own(n) => Committed(vnet)[v] = Own(n)
         /\ vnet[v] = Nothing => Committed(vnet)[v] = Nothing
         /\ \A n \in Networks : vnet[v] # Nothing /\ vnet[v].owner = n => Committed(vnet)[v] \in {Nothing, Own(n)}
<1>1. \A n \in Networks : Own(n) \in Vnets /\ Own(n) # Nothing
  BY DEF SegmentsAssumption, Own, Vnets
<1>2. vnet[v] # Nothing => vnet[v] \in Vnets
  BY DEF TypeOK
<1>3. vnet[v] # Nothing => [vnet[v] EXCEPT !.state = "live"] = [owner |-> vnet[v].owner, state |-> "live"]
  BY <1>2 DEF Vnets
<1> QED BY <1>1, <1>2, <1>3 DEF Committed, Own

LEMMA DoomedStep == TypeOK /\ DoomedUnused /\ [Next]_segmentVars => DoomedUnused'
<1> SUFFICES ASSUME TypeOK, DoomedUnused, [Next]_segmentVars PROVE DoomedUnused'
  OBVIOUS
<1>1. CASE walk' # "reap"
  BY <1>1 DEF DoomedUnused
<1>2. CASE UNCHANGED machine /\ walk = "reap" /\ doomed' \subseteq doomed
  BY <1>2 DEF DoomedUnused, Used, Stands
<1>3. CASE Begin
  BY <1>3 DEF Begin, DoomedUnused, Used, Stands
<1> QED
  BY <1>1, <1>2, <1>3
  DEF Next, Agent, DeleteVnet, Reaped, Choose, Takes, TurnOver, Apply, Wait, Make, Remove, PassEnds,
      Reloads, OwnerApplies, Dies, Asks, segmentVars, segmentPass

LEMMA SegmentStep ==
  SegmentsAssumption /\ TypeOK /\ InHand /\ SegmentInHand /\ [Next]_segmentVars => SegmentInHand'
<1> SUFFICES ASSUME SegmentsAssumption, TypeOK, InHand, SegmentInHand, [Next]_segmentVars PROVE SegmentInHand'
  OBVIOUS
<1>1. CASE walk' \notin {"apply", "wait", "make"}
  BY <1>1 DEF SegmentInHand
<1>2. CASE UNCHANGED <<walk, net, seg, vnet>>
  BY <1>2 DEF SegmentInHand
<1>3. CASE OwnerApplies
  <2>1. UNCHANGED <<walk, net, seg>> /\ vnet' = Committed(vnet)
    BY <1>3 DEF OwnerApplies, segmentPass
  <2>2. CASE walk = "apply"
    <3>1. vnet'[seg] \in {Nothing, Own(net)}
      BY <2>1, <2>2, CommittedKeeps DEF SegmentInHand, InHand
    <3> QED BY <2>1, <2>2, <3>1 DEF SegmentInHand, Own
  <2>3. CASE walk \in {"wait", "make"}
    BY <2>1, <2>3, CommittedKeeps DEF SegmentInHand, InHand
  <2> QED BY <1>1, <2>1, <2>2, <2>3
<1>4. CASE Apply
  <2>1. CASE vnet' = Committed(vnet) /\ walk' = "wait" /\ UNCHANGED <<net, seg, mishaps>>
    BY <1>4, <2>1, CommittedKeeps DEF Apply, SegmentInHand, InHand
  <2> QED BY <1>1, <1>4, <2>1 DEF Apply, TurnOver
<1>5. CASE Wait
  BY <1>1, <1>5 DEF Wait, TurnOver, SegmentInHand, Available, Applied
<1>6. ASSUME NEW n \in Networks, Choose(n) PROVE SegmentInHand'
  <2>1. CASE \E v \in Named(n) : /\ Takes(n, v, IF vnet[v].state = "live" /\ Available(v) THEN "make" ELSE "apply")
                                 /\ UNCHANGED <<vnet, mishaps>>
    <3>1. PICK v \in Named(n) : /\ Takes(n, v, IF vnet[v].state = "live" /\ Available(v) THEN "make" ELSE "apply")
                                /\ UNCHANGED <<vnet, mishaps>>
      BY <2>1
    <3>2. vnet[v] \in Vnets /\ vnet[v].owner = n
      BY DEF Named, TypeOK
    <3>3. vnet[v].state = "live" => vnet[v] = Own(n)
      BY <3>2 DEF Own, Vnets
    <3> QED BY <3>1, <3>2, <3>3 DEF Takes, SegmentInHand
  <2>2. CASE TurnOver
    BY <1>1, <2>2 DEF TurnOver
  <2>3. CASE /\ FreeNames(n) # {} /\ Takes(n, FirstFree(n), "apply") /\ UNCHANGED mishaps
             /\ vnet' = [vnet EXCEPT ![FirstFree(n)] = IF @ = Nothing THEN [owner |-> n, state |-> "new"] ELSE @]
    <3>1. vnet'[FirstFree(n)] = [owner |-> n, state |-> "new"]
      BY <2>3, FirstFreeIsFree DEF TypeOK
    <3> QED BY <2>3, <3>1 DEF Takes, SegmentInHand
  <2> QED BY <1>6, <2>1, <2>2, <2>3 DEF Choose
<1> QED
  BY <1>1, <1>2, <1>3, <1>4, <1>5, <1>6
  DEF Next, Agent, Begin, DeleteVnet, Reaped, Make, TurnOver, Remove, PassEnds, Reloads, Dies, Asks,
      segmentVars, segmentPass

LEMMA OwnSegmentStep ==
  SegmentsAssumption /\ TypeOK /\ InHand /\ Plugging /\ [Next]_segmentVars => OwnSegment'
<1> SUFFICES ASSUME SegmentsAssumption, TypeOK, InHand, Plugging, [Next]_segmentVars PROVE OwnSegment'
  OBVIOUS
\* The machines stay plugged, and their segments are untouched.
<1>1. ASSUME UNCHANGED machine,
             \A n \in Networks : Stands(n) /\ machine[n].plug # Unplugged /\ vnet[machine[n].plug] = Own(n)
                                   => vnet'[machine[n].plug] = Own(n)
      PROVE  OwnSegment'
  BY <1>1 DEF Plugging, OwnSegment, Own, Stands
<1>2. \A n \in Networks : Stands(n) /\ machine[n].plug # Unplugged => machine[n].plug \in Names
  BY DEF TypeOK, Stands, Guests
<1>3. CASE UNCHANGED <<machine, vnet>>
  BY <1>1, <1>3
<1>4. CASE OwnerApplies \/ Apply
  BY <1>1, <1>2, <1>4, CommittedKeeps DEF OwnerApplies, Apply
<1>5. ASSUME NEW v \in Names, DeleteVnet(v) PROVE OwnSegment'
  <2>1. \A n \in Networks : Stands(n) => machine[n].plug # v
    BY <1>5 DEF DeleteVnet, Plugging, DoomedUnused, Used
  <2>2. \A w \in Names : w # v => Marked(v)[w] = vnet[w]
    BY DEF Marked, TypeOK
  <2>3. \A w \in Names : w # v => Committed(Marked(v))[w] = Committed(vnet)[w]
    BY <2>2 DEF Committed
  <2> QED BY <1>1, <1>2, <1>5, <2>1, <2>2, <2>3, CommittedKeeps DEF DeleteVnet
<1>6. ASSUME NEW n \in Networks, Choose(n) PROVE OwnSegment'
  <2>1. \A v \in Names : vnet[v] # Nothing => vnet'[v] = vnet[v]
    BY <1>6 DEF Choose, TypeOK
  <2>2. \A k \in Networks : Own(k) # Nothing
    BY DEF SegmentsAssumption, Own, Vnets
  <2> QED BY <1>1, <1>2, <1>6, <2>1, <2>2 DEF Choose
<1>7. CASE Make
  <2>1. net \in Networks /\ seg \in Names /\ vnet[seg] = Own(net) /\ vnet' = vnet
    BY <1>7 DEF Make, InHand, Plugging, SegmentInHand
  <2>2. \A n \in Networks : n # net => machine'[n] = machine[n]
    BY <1>7 DEF Make, TypeOK
  <2>3. machine'[net] = machine[net] \/ machine'[net].plug \in {seg, Unplugged}
    BY <1>7, <2>1 DEF Make, TypeOK, Stands, Guests
  <2> QED BY <2>1, <2>2, <2>3 DEF Plugging, OwnSegment, Own, Stands
<1>8. ASSUME NEW n \in Networks, Remove(n) PROVE OwnSegment'
  <2>1. vnet' = vnet /\ \A k \in Networks : k # n => machine'[k] = machine[k]
    BY <1>8 DEF Remove, TypeOK
  <2>2. machine'[n] = Nothing \/ (Stands(n) /\ machine'[n].plug = machine[n].plug)
    BY <1>8 DEF Remove, TypeOK, Stands, Guests
  <2> QED BY <2>1, <2>2 DEF Plugging, OwnSegment, Stands
<1> QED
  BY <1>3, <1>4, <1>5, <1>6, <1>7, <1>8
  DEF Next, Agent, Begin, Reaped, Wait, PassEnds, Reloads, Dies, Asks, segmentVars

\* A machine is plugged only into a segment that carries its own network's id and
\* is not about to go.
THEOREM OwnSegmentOnly == SegmentsAssumption => (Spec => []OwnSegment)
<1>1. SegmentsAssumption => SegmentsAssumption'
  BY DEF SegmentsAssumption
<1>2. SegmentsAssumption /\ TypeOK /\ InHand /\ Plugging /\ [Next]_segmentVars => Plugging'
  BY DoomedStep, SegmentStep, OwnSegmentStep DEF Plugging
<1>3. Plugging => OwnSegment
  BY DEF Plugging
<1> QED BY <1>1, <1>2, <1>3, PluggingInit, TypeCorrect, PTL DEF Spec
=============================================================================
