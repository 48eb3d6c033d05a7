------------------------------ MODULE Segments ------------------------------
(***************************************************************************)
(* Network segments (src/src/sdn.rs, crates/onv-hostnet/src/sdn.rs): one   *)
(* bridge of the host, an SDN vnet, for each network with a machine here.  *)
(* A vnet's name carries a few bits of the network's id, so two networks   *)
(* may want one name, and its alias the whole id.  A pass removes every    *)
(* segment no machine is attached to, then gives each machine its own.     *)
(*                                                                         *)
(* One machine of each network, on one node.  Core, Proxmox and ifupdown2  *)
(* are external.  The host's owner applies what is pending, and changes no *)
(* vnet by hand.                                                           *)
(***************************************************************************)
EXTENDS Naturals, FiniteSets, Sequences

CONSTANTS
  Networks, Names,
  Candidates,     \* vnet_candidates: the names a network tries, in order
  Unplugged, Nothing, Unaliased,
  MaxMishaps      \* bound: failing calls, deaths, bridges later than 30 s

\* "new" and "deleted" wait for an apply; "live" is applied.
Vnets == [owner : Networks \cup {Unaliased}, state : {"new", "live", "deleted"}]

SegmentsAssumption ==
  /\ Candidates \in [Networks -> Seq(Names)]
  /\ Unplugged \notin Names /\ Nothing \notin Networks \cup Names \cup Vnets
  /\ Unaliased \notin Networks /\ MaxMishaps \in Nat

VARIABLES
  wanted,        \* Core: the networks whose machine it asks for
  vnet,          \* Proxmox: the vnets by name, with what is pending
  bridges,       \* the node: the bridges that are up
  machine,       \* each network's machine: its net1, whether it runs
  walk,          \* the pass's step
  doomed, left,  \* segments it found unused, networks whose turn is to come
  net, seg,      \* the network in hand, its segment
  mishaps

segmentPass == <<walk, doomed, left, net, seg>>
segmentVars == <<wanted, vnet, bridges, machine, segmentPass, mishaps>>

Guests == [plug : Names \cup {Unplugged}, runs : BOOLEAN]
Stands(n) == machine[n] # Nothing
Applied(v) == IF vnet[v] = Nothing THEN FALSE ELSE vnet[v].state # "new"
\* vnet_available: in the running configuration, and its bridge up.
Available(v) == Applied(v) /\ v \in bridges
Mishap == mishaps < MaxMishaps /\ mishaps' = mishaps + 1

TypeOK ==
  /\ wanted \in SUBSET Networks /\ vnet \in [Names -> Vnets \cup {Nothing}]
  /\ bridges \in SUBSET Names /\ machine \in [Networks -> Guests \cup {Nothing}]
  /\ walk \in {"idle", "reap", "turns", "apply", "wait", "make"}
  /\ doomed \in SUBSET Names /\ left \in SUBSET Networks
  /\ net \in Networks \cup {Nothing} /\ seg \in Names \cup {Nothing}
  /\ mishaps \in 0 .. MaxMishaps

\* A vnet from before aliases may be there.
Init ==
  /\ wanted = {}
  /\ \E v \in Names : vnet \in {[w \in Names |-> Nothing],
       [w \in Names |-> IF w = v THEN [owner |-> Unaliased, state |-> "live"] ELSE Nothing]}
  /\ bridges = {v \in Names : vnet[v] # Nothing}
  /\ machine = [n \in Networks |-> Nothing]
  /\ walk = "idle" /\ doomed = {} /\ left = {} /\ net = Nothing /\ seg = Nothing
  /\ mishaps = 0

-----------------------------------------------------------------------------
(* Core, and the node's reload, external.                                   *)

Asks(n) ==
  /\ wanted' = IF n \in wanted THEN wanted \ {n} ELSE wanted \cup {n}
  /\ UNCHANGED <<vnet, bridges, machine, segmentPass, mishaps>>

Reloads ==
  /\ bridges' = {v \in Names : Applied(v)} /\ bridges' # bridges
  /\ UNCHANGED <<wanted, vnet, machine, segmentPass, mishaps>>

\* Everything pending is committed.
Committed(vs) ==
  [v \in Names |-> IF vs[v] = Nothing THEN Nothing
                   ELSE IF vs[v].state = "deleted" THEN Nothing
                   ELSE [vs[v] EXCEPT !.state = "live"]]
OwnerApplies ==
  /\ vnet' = Committed(vnet) /\ vnet' # vnet
  /\ UNCHANGED <<wanted, bridges, machine, segmentPass, mishaps>>

-----------------------------------------------------------------------------
(* reap_unused_segments.                                                    *)

\* A slip: a stopped machine holds no segment.
UsedByRunning == {machine[n].plug : n \in {k \in Networks : Stands(k) /\ machine[k].runs}}
\* Every bridge a configuration names, running or stopped.
Used == {machine[n].plug : n \in {k \in Networks : Stands(k)}}

\* The vnets, then every configuration; one that cannot be read ends the reap.
Begin ==
  /\ walk = "idle"
  /\ \/ walk' = "reap" /\ doomed' = {v \in Names : vnet[v] # Nothing} \ Used /\ UNCHANGED mishaps
     \/ walk' = "turns" /\ doomed' = {} /\ Mishap
  /\ left' = Networks
  /\ UNCHANGED <<wanted, vnet, bridges, machine, net, seg>>

\* delete_vnet: marked, and applied unless that fails.
Marked(v) == [vnet EXCEPT ![v] = IF @ = Nothing THEN Nothing ELSE [@ EXCEPT !.state = "deleted"]]
DeleteVnet(v) ==
  /\ walk = "reap" /\ v \in doomed /\ doomed' = doomed \ {v}
  /\ \/ vnet' = Committed(Marked(v)) /\ UNCHANGED mishaps
     \/ vnet' \in {vnet, Marked(v)} /\ vnet[v] # Nothing /\ Mishap
  /\ UNCHANGED <<wanted, bridges, machine, walk, left, net, seg>>

Reaped ==
  /\ walk = "reap" /\ doomed = {} /\ walk' = "turns"
  /\ UNCHANGED <<wanted, vnet, bridges, machine, doomed, left, net, seg, mishaps>>

-----------------------------------------------------------------------------
(* ensure_vnet, for one network's turn.                                     *)

Named(n) == {v \in Names : IF vnet[v] = Nothing THEN FALSE ELSE vnet[v].owner = n}
\* A slip: only the name it always had.
FirstNameOnly(n) == {i \in {1} : vnet[Candidates[n][i]] = Nothing}
FreeNames(n) == {i \in DOMAIN Candidates[n] : vnet[Candidates[n][i]] = Nothing}
FirstFree(n) == Candidates[n][CHOOSE i \in FreeNames(n) : \A j \in FreeNames(n) : i =< j]

Takes(n, v, step) == net' = n /\ seg' = v /\ walk' = step
TurnOver == net' = Nothing /\ seg' = Nothing /\ walk' = "turns"

\* The one whose alias is the network, else the first name nobody has; none
\* left is an error.
Choose(n) ==
  /\ walk = "turns" /\ n \in left /\ n \in wanted /\ left' = left \ {n}
  /\ \/ \E v \in Named(n) :
          /\ Takes(n, v, IF vnet[v].state = "live" /\ Available(v) THEN "make" ELSE "apply")
          /\ UNCHANGED <<vnet, mishaps>>
     \/ /\ Named(n) = {} /\ FreeNames(n) # {}
        /\ \/ /\ vnet' = [vnet EXCEPT ![FirstFree(n)] =
                            IF @ = Nothing THEN [owner |-> n, state |-> "new"] ELSE @]
              /\ Takes(n, FirstFree(n), "apply") /\ UNCHANGED mishaps
           \/ TurnOver /\ Mishap /\ UNCHANGED vnet
     \/ Named(n) = {} /\ FreeNames(n) = {} /\ TurnOver /\ UNCHANGED <<vnet, mishaps>>
  /\ UNCHANGED <<wanted, bridges, machine, doomed>>

Apply ==
  /\ walk = "apply"
  /\ \/ vnet' = Committed(vnet) /\ walk' = "wait" /\ UNCHANGED <<net, seg, mishaps>>
     \/ TurnOver /\ Mishap /\ UNCHANGED vnet
  /\ UNCHANGED <<wanted, bridges, machine, doomed, left>>

\* Up within 30 s, or not.
Wait ==
  /\ walk = "wait"
  /\ \/ Available(seg) /\ walk' = "make" /\ UNCHANGED <<net, seg, mishaps>>
     \/ TurnOver /\ IF Applied(seg) THEN Mishap ELSE UNCHANGED mishaps
  /\ UNCHANGED <<wanted, vnet, bridges, machine, doomed, left>>

\* The machine is made with, or has its net1 moved to, the segment, then runs;
\* a step of it that fails leaves what was done.
Make ==
  /\ walk = "make" /\ TurnOver
  /\ LET plugged == [plug |-> seg, runs |-> FALSE]
         moved == IF Stands(net) THEN [machine[net] EXCEPT !.plug = seg] ELSE plugged
         begun == {machine[net], moved, [plug |-> Unplugged, runs |-> FALSE]}
     IN \/ machine' = [machine EXCEPT ![net] = [moved EXCEPT !.runs = TRUE]] /\ UNCHANGED mishaps
        \/ /\ Mishap
           /\ \E g \in IF Stands(net) THEN {machine[net], moved} ELSE begun :
                machine' = [machine EXCEPT ![net] = g]
  /\ UNCHANGED <<wanted, vnet, bridges, doomed, left>>

\* A machine no longer asked for: shut down by its owner, deleted, or waiting.
Remove(n) ==
  /\ walk = "turns" /\ n \in left \ wanted /\ left' = left \ {n}
  /\ \/ machine' = [machine EXCEPT ![n] = Nothing] /\ UNCHANGED mishaps
     \/ Stands(n) /\ machine' = [machine EXCEPT ![n].runs = FALSE] /\ Mishap
  /\ UNCHANGED <<wanted, vnet, bridges, doomed, walk, net, seg>>

PassEnds ==
  /\ walk = "turns" /\ left = {} /\ walk' = "idle"
  /\ UNCHANGED <<wanted, vnet, bridges, machine, doomed, left, net, seg, mishaps>>

Dies ==
  /\ walk # "idle" /\ Mishap
  /\ walk' = "idle" /\ doomed' = {} /\ left' = {} /\ net' = Nothing /\ seg' = Nothing
  /\ UNCHANGED <<wanted, vnet, bridges, machine>>

-----------------------------------------------------------------------------
Agent ==
  \/ Begin \/ Reaped \/ Apply \/ Wait \/ Make \/ PassEnds
  \/ \E v \in Names : DeleteVnet(v)
  \/ \E n \in Networks : Choose(n) \/ Remove(n)

Next == Agent \/ Reloads \/ OwnerApplies \/ Dies \/ \E n \in Networks : Asks(n)

\* Passes come round, and a reload that was asked for is done.
Fairness == WF_segmentVars(Agent) /\ WF_segmentVars(Reloads)

Spec == Init /\ [][Next]_segmentVars /\ Fairness

-----------------------------------------------------------------------------
(* Two tenants never share a bridge: a machine that is plugged anywhere is  *)
(* plugged into a segment that carries its own network's id and is not      *)
(* about to go, through reaps, names two networks want, failing applies and *)
(* deaths.                                                                  *)
OwnSegment ==
  \A n \in Networks :
    Stands(n) => machine[n].plug = Unplugged
                 \/ vnet[machine[n].plug] = [owner |-> n, state |-> "live"]

(* A network that stays wanted gets its machine onto its own bridge, that   *)
(* is up; the names a network may take are enough for it.                   *)
WantedIsPlugged ==
  \A n \in Networks :
    <>[](n \in wanted) =>
      <>[](Stands(n) /\ machine[n].runs /\ machine[n].plug # Unplugged /\ machine[n].plug \in bridges)
=============================================================================
