------------------------------- MODULE MCHost -------------------------------
(***************************************************************************)
(* The parts of a host that share no state with one another: in each       *)
(* behaviour one of them moves, so that one run looks at them all.  Those  *)
(* with a property of the end stay as they began while another moves; those*)
(* with safety only take turns at one set of variables.  What a property    *)
(* says is in its module.  Four are instantiated with their proofs, of     *)
(* which Host_proofs makes use; TLC reads only the definitions.            *)
(***************************************************************************)
EXTENDS Naturals, Sequences

CONSTANTS
  Machines, Nobody,                                \* ports
  VMIDs, None,                                     \* card
  Digests, Noise, NoDigest, Owners,                \* mirror
  n1, n2, a, b, c, Unplugged, Nothing, Unaliased,  \* wires
  NoView,                                          \* work
  Ids, NoId,                                       \* tunnel
  NoGuest,                                         \* mirror and work
  Hosted, Owner, Unsold,                           \* offer
  MaxPort, MaxWriteFaults, MaxStops,               \* ports: bounds
  MaxKeys, MaxFaults,                              \* card: bounds
  MaxMoves, MaxTroubles,                           \* mirror: bounds
  MaxMishaps,                                      \* wires: bound
  MaxConf, SyncFails, MaxBreaks,                   \* work: a switch and bounds
  MaxConns,                                        \* tunnel: bound
  Memory, Contributed, Uses, MaxGlitches,          \* offer: the host, and a bound
  MaxHitches,                                      \* residue: bound
  ReportEvery, Probing, ReadEvery, StuckAfter,     \* telemetry: its times
  UnreadMax, StreamMax, MaxDrives, MaxLists,       \* boot: bounds
  Slack, PassMost, MaxTokens, MaxTime, MaxResets,  \* upkeep: its times, and bounds
  MaxIssued, MaxLapses,                            \* certificate: bounds
  Floor, Ceiling, DefaultPeriod, Periods,          \* told: its intervals
  MaxWire, MaxChanges, MaxFalters,                 \* told: bounds
  MaxAsks, MaxFaltered                             \* sweep: bounds

VARIABLES component,
  wish, yaml, built, on, book, json, woken, table, round, asked, listed,
  todo, making, badWrites, stops, lapsed,
  scrub, attempt, wants, recorded, tenant, guest, task, journal, pc, list,
  at, verdict, held, settling, faults, cleaned,
  published, moves, handed, permit, mirror, copy, part, stamp, dest,
  template, troubles,
  wanted, vnet, bridges, machine, walk, doomed, left, net, seg, mishaps,
  order, concluded, heardGone, vm, cloning, snippet, owed, step, view,
  number, word, route, breaks, halfMade,
  link, conn, of, requests, taskOf, bridge, inflight, sessions, hand,
  aborting, letGo,
  newest, known, spent, own, live, front, run, lapses,
  ledger, named, kept, interval, hosting, looking, refreshes, wire, heard,
  armed, changes, falters,
  askedOf, standing, files, torn, undone, sweeping, asks, faltered,
  v1, v2, v3, v4, v5, v6, v7, v8, v9, v10, v11, v12, v13, v14, v15, v16

turnVars == <<v1, v2, v3, v4, v5, v6, v7, v8, v9, v10, v11, v12, v13, v14,
  v15, v16>>
portsVars == <<wish, yaml, built, on, book, json, woken, table, round,
  asked, listed, todo, making, badWrites, stops, lapsed>>
cardVars == <<scrub, attempt, wants, recorded, tenant, guest, task, journal,
  pc, list, at, verdict, held, settling, faults, cleaned>>
mirrorVars == <<published, moves, handed, permit, mirror, copy, part, stamp,
  dest, template, troubles>>
wiresVars == <<wanted, vnet, bridges, machine, walk, doomed, left, net, seg,
  mishaps>>
workVars == <<order, concluded, heardGone, vm, cloning, snippet, owed, step,
  view, number, word, route, breaks, halfMade>>
tunnelVars == <<link, conn, of, requests, taskOf, bridge, inflight,
  sessions, hand, aborting, letGo>>
certificateVars == <<newest, known, spent, own, live, front, run, lapses>>
toldVars == <<ledger, named, kept, interval, hosting, looking, refreshes,
  wire, heard, armed, changes, falters>>
sweepVars == <<askedOf, standing, files, torn, undone, sweeping, asks,
  faltered>>

Ports == INSTANCE Opening_proofs
Card == INSTANCE Scrub
Mirror == INSTANCE Images
\* Two networks that want one name, and either one's next.
HostCandidates == [n \in {n1, n2} |-> IF n = n1 THEN <<a, b>> ELSE <<a, c>>]
Wires == INSTANCE Segments_proofs WITH Networks <- {n1, n2}, Names <- {a, b, c},
    Candidates <- HostCandidates
Work == INSTANCE Worker_proofs
Link == INSTANCE Tunnel
Sale == INSTANCE Offer WITH Host <- Memory, power <- v1, carries <- v2, given
    <- v3, ending <- v4, offer <- v5, survey <- v6, through <- v7, build <-
    v8, debris <- v9, glitches <- v10
Remains == INSTANCE Residue WITH volume <- v1, holder <- v2, borrowed <- v3,
    tomb <- v4, pass <- v5, outcomes <- v6, open <- v7, shut <- v8, wronged <-
    v9, hitches <- v10
Joining == INSTANCE Join WITH has <- v1, fits <- v2, service <- v3, stands <-
    v4, enrolled <- v5, sold <- v6, fetched <- v7, command <- v8, stage <- v9,
    without <- v10, told <- v11, joined <- v12
Says == INSTANCE Telemetry WITH reporter <- v1, report <- v2, moved <- v3, age
    <- v4, pause <- v5, unchanged <- v6, shown <- v7, idleReads <- v8, unheard
    <- v9, hasty <- v10
\* A GPU machine of each kind, and containers on a Linux one.
BootShapes ==
  [kind : {"Linux", "Windows"}, overlay : {TRUE}, containers : {FALSE}, gpu : {TRUE}]
    \cup {[kind |-> "Linux", overlay |-> FALSE, containers |-> TRUE, gpu |-> TRUE]}
Boot == INSTANCE FirstBoot WITH Shapes <- BootShapes, shape <- v1, power <-
    v2, drive <- v3, ran <- v4, at <- v5, status <- v6, login <- v7, passed <-
    v8, whole <- v9, want <- v10, handed <- v11, admits <- v12, said <- v13,
    unread <- v14, pending <- v15, soon <- v16
Keeps == INSTANCE Upkeep_proofs WITH token <- v1, issued <- v2, generation <- v3,
    machine <- v4, task <- v5, clock <- v6, record <- v7, applied <- v8, turn
    <- v9, echoed <- v10, told <- v11, requests <- v12
Web == INSTANCE Certificate WITH Runs <- {"timer", "first"}, issued <- newest
Told == INSTANCE Report WITH Fallback <- DefaultPeriod, Words <- Periods,
    MaxEdits <- MaxChanges, MaxHitches <- MaxFalters, Ids <- Machines, Hosted
    <- {CHOOSE i \in Machines : TRUE}, pass <- looking, edits <- changes,
    hitches <- falters, stands <- hosting, word <- interval
Files == INSTANCE Sweep WITH Ids <- Machines, Workers <- {CHOOSE i \in
    Machines : TRUE}, Old <- {}, MaxEdits <- MaxAsks, MaxHitches <-
    MaxFaltered, wants <- askedOf, guest <- standing, pass <- sweeping, edits
    <- asks, hitches <- faltered

ASSUME HostAssumption ==
  /\ Ports!OpeningAssumption
  /\ Card!ScrubAssumption
  /\ Mirror!ImagesAssumption
  /\ Wires!SegmentsAssumption
  /\ Work!WorkerAssumption
  /\ Link!TunnelAssumption
  /\ Sale!OfferAssumption
  /\ Remains!ResidueAssumption
  /\ Says!TelemetryAssumption
  /\ Boot!FirstBootAssumption
  /\ Keeps!UpkeepAssumption
  /\ Web!CertificateAssumption
  /\ Told!ReportAssumption
  /\ Files!SweepAssumption

hostVars ==
  <<component, portsVars, cardVars, mirrorVars, wiresVars, workVars,
    tunnelVars, certificateVars, toldVars, sweepVars, turnVars>>

Components == {"ports", "card", "mirror", "wires", "work", "tunnel", "offer", "residue", "joining", "telemetry", "boot", "upkeep", "certificate", "told", "sweep"}
\* Those that take turns at one set of variables.
TakeTurns == {"offer", "residue", "joining", "telemetry", "boot", "upkeep"}
Unused(x) == x = "unused"

\* One that does not move begins in one state.
Init ==
  /\ component \in Components
  /\ Ports!Init
  /\ Card!Init /\ (component # "card" => ~wants)
  /\ Mirror!Init /\ (component # "mirror" => (published = CHOOSE d \in Digests : TRUE) /\ template = Owners)
  /\ Wires!Init /\ (component # "wires" => vnet = [w \in {a, b, c} |-> Nothing])
  /\ Work!Init /\ (component # "work" => order.want = "stopped")
  /\ Link!Init
  /\ Web!Init
  /\ Told!Init
  /\ Files!Init
  /\ \/ component \notin TakeTurns
        /\ Unused(v1) /\ Unused(v2) /\ Unused(v3) /\ Unused(v4) /\ Unused(v5)
           /\ Unused(v6) /\ Unused(v7) /\ Unused(v8) /\ Unused(v9) /\
           Unused(v10) /\ Unused(v11) /\ Unused(v12) /\ Unused(v13) /\
           Unused(v14) /\ Unused(v15) /\ Unused(v16)
     \/ component = "offer" /\ Sale!Init /\ Unused(v11) /\ Unused(v12) /\
        Unused(v13) /\ Unused(v14) /\ Unused(v15) /\ Unused(v16)
     \/ component = "residue" /\ Remains!Init /\ Unused(v11) /\ Unused(v12)
        /\ Unused(v13) /\ Unused(v14) /\ Unused(v15) /\ Unused(v16)
     \/ component = "joining" /\ Joining!Init /\ Unused(v13) /\ Unused(v14)
        /\ Unused(v15) /\ Unused(v16)
     \/ component = "telemetry" /\ Says!Init /\ Unused(v11)
        /\ Unused(v12) /\ Unused(v13) /\ Unused(v14) /\ Unused(v15) /\
        Unused(v16)
     \/ component = "boot" /\ Boot!Init
     \/ component = "upkeep" /\ Keeps!Init /\ Unused(v13) /\ Unused(v14) /\
        Unused(v15) /\ Unused(v16)

Next ==
  \/ component = "ports" /\ Ports!Next /\ UNCHANGED <<component, cardVars,
       mirrorVars, wiresVars, workVars, tunnelVars, certificateVars,
       toldVars, sweepVars, turnVars>>
  \/ component = "card" /\ Card!Next /\ UNCHANGED <<component, portsVars,
       mirrorVars, wiresVars, workVars, tunnelVars, certificateVars,
       toldVars, sweepVars, turnVars>>
  \/ component = "mirror" /\ Mirror!Next /\ UNCHANGED <<component,
       portsVars, cardVars, wiresVars, workVars, tunnelVars,
       certificateVars, toldVars, sweepVars, turnVars>>
  \/ component = "wires" /\ Wires!Next /\ UNCHANGED <<component, portsVars,
       cardVars, mirrorVars, workVars, tunnelVars, certificateVars,
       toldVars, sweepVars, turnVars>>
  \/ component = "work" /\ Work!Next /\ UNCHANGED <<component, portsVars,
       cardVars, mirrorVars, wiresVars, tunnelVars, certificateVars,
       toldVars, sweepVars, turnVars>>
  \/ component = "tunnel" /\ Link!Next /\ UNCHANGED <<component, portsVars,
       cardVars, mirrorVars, wiresVars, workVars, certificateVars, toldVars,
       sweepVars, turnVars>>
  \/ component = "offer" /\ Sale!Next /\ UNCHANGED <<component, portsVars,
       cardVars, mirrorVars, wiresVars, workVars, tunnelVars,
       certificateVars, toldVars, sweepVars, v11, v12, v13, v14, v15, v16>>
  \/ component = "residue" /\ Remains!Next /\ UNCHANGED <<component,
       portsVars, cardVars, mirrorVars, wiresVars, workVars, tunnelVars,
       certificateVars, toldVars, sweepVars, v11, v12, v13, v14, v15, v16>>
  \/ component = "joining" /\ Joining!Next /\ UNCHANGED <<component,
       portsVars, cardVars, mirrorVars, wiresVars, workVars, tunnelVars,
       certificateVars, toldVars, sweepVars, v13, v14, v15, v16>>
  \/ component = "telemetry" /\ Says!Next /\ UNCHANGED <<component,
       portsVars, cardVars, mirrorVars, wiresVars, workVars, tunnelVars,
       certificateVars, toldVars, sweepVars, v11, v12, v13, v14, v15, v16>>
  \/ component = "boot" /\ Boot!Next /\ UNCHANGED <<component, portsVars,
       cardVars, mirrorVars, wiresVars, workVars, tunnelVars,
       certificateVars, toldVars, sweepVars>>
  \/ component = "upkeep" /\ Keeps!Next /\ UNCHANGED <<component, portsVars,
       cardVars, mirrorVars, wiresVars, workVars, tunnelVars,
       certificateVars, toldVars, sweepVars, v13, v14, v15, v16>>
  \/ component = "certificate" /\ Web!Next /\ UNCHANGED <<component,
       portsVars, cardVars, mirrorVars, wiresVars, workVars, tunnelVars,
       toldVars, sweepVars, turnVars>>
  \/ component = "told" /\ Told!Next /\ UNCHANGED <<component, portsVars,
       cardVars, mirrorVars, wiresVars, workVars, tunnelVars,
       certificateVars, sweepVars, turnVars>>
  \/ component = "sweep" /\ Files!Next /\ UNCHANGED <<component, portsVars,
       cardVars, mirrorVars, wiresVars, workVars, tunnelVars,
       certificateVars, toldVars, turnVars>>

\* The fairness of each component, for the one that moves.
Fairness ==
  /\ WF_portsVars(component = "ports" /\ Ports!Agent)
  /\ WF_portsVars(component = "ports" /\ Ports!Applier)
  /\ WF_cardVars(component = "card" /\ Card!Task)
  /\ WF_cardVars(component = "card" /\ Card!Reconcile)
  /\ WF_cardVars(component = "card" /\ \E v \in VMIDs : Card!CloneEnds(v))
  /\ WF_cardVars(component = "card" /\ \E v \in VMIDs : Card!GrowsOld(v))
  /\ WF_mirrorVars(component = "mirror" /\ Mirror!Pass)
  /\ WF_mirrorVars(component = "mirror" /\ Mirror!Mirror)
  /\ WF_wiresVars(component = "wires" /\ Wires!Agent)
  /\ WF_wiresVars(component = "wires" /\ Wires!Reloads)
  /\ WF_workVars(component = "work" /\ Work!Agent)
  /\ \A k \in Work!Numbers :
       /\ WF_workVars(component = "work" /\ Work!CloneEnds(k))
       /\ WF_workVars(component = "work" /\ Work!Serves(k))
       /\ WF_workVars(component = "work" /\ Work!OperatorRemoves(k))
  /\ WF_tunnelVars(component = "tunnel" /\ Link!AbortTask)
  /\ \A i \in Ids :
       /\ WF_tunnelVars(component = "tunnel" /\ Link!Task(i))
       /\ WF_tunnelVars(component = "tunnel" /\ Link!Aborted(i))
       /\ WF_tunnelVars(component = "tunnel" /\ (Link!InputGone(i) \/ Link!Unread(i)))
  /\ \A r \in {"timer", "first"} :
       /\ WF_certificateVars(component = "certificate" /\ Web!Moves(r))
  /\ WF_toldVars(component = "told" /\ Told!Agent)
  /\ WF_toldVars(component = "told" /\ Told!Ticks)
  /\ WF_toldVars(component = "told" /\ \E n \in 1 .. Len(wire) : Told!Arrives(n))
  /\ WF_sweepVars(component = "sweep" /\ Files!Agent)

Spec == Init /\ [][Next]_hostVars /\ Fairness

-----------------------------------------------------------------------------
(* The one that moves keeps to its type; the others are as they began.      *)
TypeOK ==
  /\ component = "ports" => Ports!TypeOK
  /\ component = "card" => Card!TypeOK
  /\ component = "mirror" => Mirror!TypeOK
  /\ component = "wires" => Wires!TypeOK
  /\ component = "work" => Work!TypeOK
  /\ component = "tunnel" => Link!TypeOK
  /\ component = "offer" => Sale!TypeOK
  /\ component = "residue" => Remains!TypeOK
  /\ component = "joining" => Joining!TypeOK
  /\ component = "telemetry" => Says!TypeOK
  /\ component = "boot" => Boot!TypeOK
  /\ component = "upkeep" => Keeps!TypeOK
  /\ component = "certificate" => Web!TypeOK
  /\ component = "told" => Told!TypeOK
  /\ component = "sweep" => Files!TypeOK

(* No two machines that stand name one port.                                *)
PortOfOne == Ports!PortOfOne

(* Nothing is translated, in the end, to a machine that is gone.            *)
GoneIsClosed == Ports!GoneIsClosed

(* A card is sold scrubbed, and out of the scrub's hands.                   *)
SoldCardIsClean == Card!SoldCardIsClean

(* Every attempt Core asks for is concluded, or no longer asked for.        *)
EveryScrubEnds == Card!EveryScrubEnds

(* What is reported held is a whole template of those bytes.                *)
HeldIsWhole == Mirror!HeldIsWhole

(* The owner's guest stands; what Core published comes to be held.          *)
MirrorSettles == Mirror!MirrorSettles

(* A machine is plugged into its own network's segment.                     *)
OwnSegment == Wires!OwnSegment

(* A network that stays wanted gets its machine onto its bridge.            *)
WantedIsPlugged == Wires!WantedIsPlugged

(* One worker; none once it is said lost; no way to one said gone.          *)
OneWorkerOrNone == Work!OneWorkerOrNone

(* A worker asked to run comes to serve with its last arguments.            *)
ServesAsAsked == Work!ServesAsAsked

(* Core can end what it began, and what it let go of is closed in the end.  *)
LetGoCloses == Link!LetGoCloses

(* A card has one holder: the one it is offered past, and placed on.        *)
OneHolder == component = "offer" => Sale!OneHolder

(* A residue closed is gone, and no volume in use is removed.               *)
ResidueIsOwn == component = "residue" => Remains!ResidueIsOwn

(* The two commands leave a host that serves, or that nothing needs.        *)
ServesOrLeft == component = "joining" => Joining!ServesOrLeft

(* What a worker says is shown while its reporter lives, no longer.         *)
ShownWhileItMoves == component = "telemetry" => Says!ShownWhileItMoves

(* A machine said installed had one whole install.                          *)
DoneIsDone == component = "boot" => Boot!DoneIsDone

(* A reboot asked for once is asked of Proxmox once.                        *)
RebootedOnce == component = "upkeep" => Keeps!RebootedOnce

(* The web front comes to serve the certificate Core last issued.           *)
CertificateServed == Web!CertificateServed

(* No machine that stands is taken for gone; Core comes to know all.        *)
CoreIsTold == [][Told!GoneIsGone']_toldVars /\ <>[](component = "told" => Told!AllIsKnown)

(* A machine keeps its first-boot files, and none is left behind.           *)
BootFilesFollow == Files!BootFilesFollow
=============================================================================
