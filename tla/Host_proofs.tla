---------------------------- MODULE Host_proofs ----------------------------
(***************************************************************************)
(* What holds of the parts of a host for every value of their constants.   *)
(* A part moves or stays as it is, so that what holds of it alone holds in *)
(* the host: of the ports, the segments, the worker and the upkeep it is   *)
(* proved in their own modules, and carried over here; of the others it is *)
(* proved here, with the variables the host gives them.                    *)
(***************************************************************************)
EXTENDS MCHost, FiniteSetTheorems, TLAPS

-----------------------------------------------------------------------------
(* A part moves, or is as it was.                                           *)

\* One with variables of its own, whichever moves; `Ports!openingVars` and the
\* like are its variables in its own module's order.
LEMMA OwnParts ==
  [Next]_hostVars =>
    /\ [Ports!Next]_(Ports!openingVars)
    /\ [Wires!Next]_(Wires!segmentVars)
    /\ [Work!Next]_(Work!workerVars)
    /\ [Mirror!Next]_(Mirror!imageVars)
    /\ [Card!Next]_(Card!scrubVars)
    /\ [Link!Next]_(Link!tunnelVars)
    /\ [Web!Next]_(Web!certificateVars)
    /\ [Told!Next]_(Told!reportVars)
    /\ [Files!Next]_(Files!sweepVars)
<1> SUFFICES ASSUME [Next]_hostVars
             PROVE  /\ [Ports!Next]_(Ports!openingVars)
                    /\ [Wires!Next]_(Wires!segmentVars)
                    /\ [Work!Next]_(Work!workerVars)
                    /\ [Mirror!Next]_(Mirror!imageVars)
                    /\ [Card!Next]_(Card!scrubVars)
                    /\ [Link!Next]_(Link!tunnelVars)
                    /\ [Web!Next]_(Web!certificateVars)
                    /\ [Told!Next]_(Told!reportVars)
                    /\ [Files!Next]_(Files!sweepVars)
  OBVIOUS
<1>1. Ports!Next \/ UNCHANGED portsVars
  BY DEF Next, hostVars
<1>2. Wires!Next \/ UNCHANGED wiresVars
  BY DEF Next, hostVars
<1>3. Work!Next \/ UNCHANGED workVars
  BY DEF Next, hostVars
<1>4. Mirror!Next \/ UNCHANGED mirrorVars
  BY DEF Next, hostVars
<1>5. UNCHANGED portsVars => UNCHANGED Ports!openingVars
  BY DEF portsVars, Ports!openingVars, Ports!outside, Ports!agentBook, Ports!file, Ports!openPass
<1>6. UNCHANGED wiresVars => UNCHANGED Wires!segmentVars
  BY DEF wiresVars, Wires!segmentVars, Wires!segmentPass
<1>7. UNCHANGED workVars => UNCHANGED Work!workerVars
  BY DEF workVars, Work!workerVars, Work!workerCore, Work!workerHost, Work!workerPass
<1>8. UNCHANGED mirrorVars => UNCHANGED Mirror!imageVars
  BY DEF mirrorVars, Mirror!imageVars, Mirror!catalogue, Mirror!files
<1>9. Card!Next \/ UNCHANGED cardVars
  BY DEF Next, hostVars
<1>10. UNCHANGED cardVars => UNCHANGED Card!scrubVars
  BY DEF cardVars, Card!scrubVars, Card!core, Card!host, Card!agent
<1>11. Link!Next \/ UNCHANGED tunnelVars
  BY DEF Next, hostVars
<1>12. UNCHANGED tunnelVars => UNCHANGED Link!tunnelVars
  BY DEF tunnelVars, Link!tunnelVars, Link!tunnelTables
<1>13. Web!Next \/ UNCHANGED certificateVars
  BY DEF Next, hostVars
<1>14. UNCHANGED certificateVars => UNCHANGED Web!certificateVars
  BY DEF certificateVars, Web!certificateVars
<1>15. Told!Next \/ UNCHANGED toldVars
  BY DEF Next, hostVars
<1>16. UNCHANGED toldVars => UNCHANGED Told!reportVars
  BY DEF toldVars, Told!reportVars
<1>17. Files!Next \/ UNCHANGED sweepVars
  BY DEF Next, hostVars
<1>18. UNCHANGED sweepVars => UNCHANGED Files!sweepVars
  BY DEF sweepVars, Files!sweepVars
<1> QED BY <1>1, <1>2, <1>3, <1>4, <1>5, <1>6, <1>7, <1>8, <1>9, <1>10, <1>11, <1>12, <1>13, <1>14,
     <1>15, <1>16, <1>17, <1>18

\* Those that take turns at one set of variables: the one whose turn it is, for
\* the whole of a behaviour.
LEMMA TurnParts ==
  [Next]_hostVars =>
    /\ component' = component
    /\ component = "offer" => [Sale!Next]_(Sale!offerVars)
    /\ component = "residue" => [Remains!Next]_(Remains!residueVars)
    /\ component = "joining" => [Joining!Next]_(Joining!joinVars)
    /\ component = "telemetry" => [Says!Next]_(Says!telemetryVars)
    /\ component = "boot" => [Boot!Next]_(Boot!firstBootVars)
    /\ component = "upkeep" => [Keeps!Next]_(Keeps!upkeepVars)
  BY DEF Next, hostVars, turnVars, TakeTurns,
     Sale!offerVars, Remains!residueVars, Joining!joinVars, Says!telemetryVars, Boot!firstBootVars,
        Keeps!upkeepVars

-----------------------------------------------------------------------------
(* The parts whose proofs are in their own modules.                         *)

(* Of the provider's opening: no two machines that stand name one port, for *)
(* every set of machines, every range and every bound.                      *)
THEOREM PortsOfOne == Spec => []PortOfOne
<1> DEFINE Inv == Ports!TypeOK /\ Ports!BookIsTrue
<1>1. Init => Inv
  BY HostAssumption, Ports!InitType, Ports!BookInit DEF Init
<1>2. Inv /\ [Next]_hostVars => Inv'
  <2>1. Ports!OpeningAssumption
    BY HostAssumption
  <2> QED BY <2>1, OwnParts, Ports!NextType, Ports!BookStep
<1>3. Inv => PortOfOne
  BY Ports!BookShows DEF PortOfOne
<1> QED BY <1>1, <1>2, <1>3, PTL DEF Spec

(* Of the segments: a machine is plugged only into a segment of its own     *)
(* network, for the host's two networks that want one name.                 *)
THEOREM SegmentsOwn == Spec => []OwnSegment
<1> DEFINE Inv == Wires!TypeOK /\ Wires!InHand /\ Wires!Plugging
<1>1. Init => Inv
  BY HostAssumption, Wires!InitType, Wires!PluggingInit DEF Init, Wires!Init, Wires!InHand
<1>2. Inv /\ [Next]_hostVars => Inv'
  <2>1. Wires!SegmentsAssumption
    BY HostAssumption
  <2> QED BY <2>1, OwnParts, Wires!NextType, Wires!InHandStep, Wires!DoomedStep, Wires!SegmentStep,
       Wires!OwnSegmentStep
          DEF Wires!Plugging
<1>3. Inv => OwnSegment
  BY DEF Wires!Plugging, OwnSegment
<1> QED BY <1>1, <1>2, <1>3, PTL DEF Spec

(* Of an inference worker: there is one, none once it is said lost, and no  *)
(* way to one said gone, for every range of arguments and number of breaks. *)
THEOREM WorkerIsOne == Spec => []OneWorkerOrNone
<1> DEFINE Inv == Work!TypeOK /\ Work!Knows
<1>1. Init => Inv
  BY HostAssumption, Work!TypeInit, Work!KnowsInit DEF Init
<1>2. Inv /\ [Next]_hostVars => Inv'
  BY HostAssumption, OwnParts, Work!KnowsStep
<1>3. Inv => OneWorkerOrNone
  BY Work!KnowsOne DEF OneWorkerOrNone
<1> QED BY <1>1, <1>2, <1>3, PTL DEF Spec

(* Of a machine's upkeep: Proxmox is asked for a reboot once for a token,   *)
(* one echoed has happened, and a password told is the guest's.             *)
THEOREM RebootsOnce == Spec => []RebootedOnce
<1> DEFINE Inv == component = "upkeep" => Keeps!Keeping
<1>1. Init => Inv
  BY HostAssumption, Keeps!KeepBegins DEF Init, TakeTurns
<1>2. Inv /\ [Next]_hostVars => Inv'
  BY HostAssumption, TurnParts, Keeps!KeepStep
<1>3. Inv => RebootedOnce
  BY DEF RebootedOnce, Keeps!Keeping
<1> QED BY <1>1, <1>2, <1>3, PTL DEF Spec

-----------------------------------------------------------------------------
(* The image mirror: what is held is whole.                                 *)

\* The inductive invariant: the import keeps to the bytes of its digest.
Holding == Mirror!TypeOK /\ Mirror!ImportFollows /\ Mirror!HeldIsWhole

LEMMA MirrorBegins == Mirror!ImagesAssumption /\ Mirror!Init => Holding
<1> SUFFICES ASSUME Mirror!ImagesAssumption, Mirror!Init PROVE Holding
  OBVIOUS
<1>1. permit \in BOOLEAN
  BY DEF Mirror!Init
<1>2. Mirror!Built \in Mirror!Ours
  BY DEF Mirror!Built, Mirror!Ours, Mirror!Stages, Mirror!Files
<1>3. MaxMoves \in Nat /\ MaxTroubles \in Nat
  BY DEF Mirror!ImagesAssumption
<1>4. Mirror!TypeOK
  BY <1>1, <1>2, <1>3 DEF Mirror!Init, Mirror!TypeOK, Mirror!Files
<1>5. template \in Mirror!Ours => template.marker = NoDigest
  BY DEF Mirror!Init, Mirror!Built, Mirror!ImagesAssumption
<1>6. Mirror!ImportFollows /\ Mirror!HeldIsWhole
  BY <1>5 DEF Mirror!Init, Mirror!ImportFollows, Mirror!HeldIsWhole, Mirror!Held, Mirror!Importing
<1> QED BY <1>4, <1>6 DEF Holding

LEMMA MirrorStepKeeps == Mirror!ImagesAssumption /\ Holding /\ [Mirror!Next]_(Mirror!imageVars) =>
   Holding'
<1> SUFFICES ASSUME Mirror!ImagesAssumption, Holding, [Mirror!Next]_(Mirror!imageVars)
   PROVE Holding'
  OBVIOUS
<1>0. Mirror!TypeOK /\ Mirror!ImportFollows
  BY DEF Holding
<1>a. MaxMoves \in Nat /\ MaxTroubles \in Nat
  BY DEF Mirror!ImagesAssumption
<1>b. NoGuest \notin Mirror!Ours /\ Owners \notin Mirror!Ours /\ NoGuest # Owners /\
        NoDigest \notin Digests
  BY DEF Mirror!ImagesAssumption
<1>t. Mirror!Trouble => troubles' \in 0 .. MaxTroubles
  BY <1>0, <1>a DEF Mirror!Trouble, Mirror!TypeOK
<1>w. Mirror!Waits => mirror' = "waits" /\ copy' = NoDigest
  BY DEF Mirror!Waits
<1> SUFFICES Mirror!TypeOK' /\ Mirror!ImportFollows'
  BY DEF Holding, Mirror!ImportFollows, Mirror!HeldIsWhole, Mirror!Held
\* What the template's changes leave true of one that is the marketplace's.
<1>o. ASSUME NEW g \in Mirror!Ours
      PROVE  /\ [g EXCEPT !.shape = FALSE] \in Mirror!Ours
             /\ [g EXCEPT !.shape = FALSE].marker = g.marker
             /\ [g EXCEPT !.shape = FALSE].stage = g.stage
             /\ [g EXCEPT !.shape = FALSE].disk = g.disk
  BY DEF Mirror!Ours
<1>1. CASE UNCHANGED Mirror!imageVars
  BY <1>0, <1>1 DEF Mirror!imageVars, Mirror!catalogue, Mirror!files, Mirror!TypeOK,
       Mirror!ImportFollows
<1>2. CASE \E d \in Digests : Mirror!Publish(d)
  BY <1>0, <1>a, <1>2 DEF Mirror!Publish, Mirror!catalogue, Mirror!files, Mirror!TypeOK,
       Mirror!ImportFollows
<1>3. CASE Mirror!Pass
  BY <1>0, <1>3 DEF Mirror!Pass, Mirror!catalogue, Mirror!files, Mirror!TypeOK, Mirror!ImportFollows
<1>4. CASE Mirror!OwnersHand
  <2>1. UNCHANGED <<published, moves, handed, permit, mirror, copy, part, stamp, dest>> /\
          troubles' \in 0 .. MaxTroubles
    BY <1>4, <1>t DEF Mirror!OwnersHand, Mirror!catalogue, Mirror!files
  <2>2. CASE template' = NoGuest \/ template' = Owners
    <3>1. template' \notin Mirror!Ours /\ template' \in Mirror!Ours \cup {NoGuest, Owners}
      BY <1>b, <2>2
    <3> QED BY <1>0, <2>1, <3>1 DEF Mirror!TypeOK, Mirror!ImportFollows
  <2>3. CASE template \in Mirror!Ours /\ template.stage = "template" /\
               template' = [template EXCEPT !.shape = FALSE]
    <3>1. template' \in Mirror!Ours /\ template'.marker = template.marker /\
            template'.stage = template.stage
          /\ template'.disk = template.disk
      BY <1>o, <2>3
    <3>2. Mirror!TypeOK'
      BY <1>0, <2>1, <3>1 DEF Mirror!TypeOK
    <3> QED BY <1>0, <2>1, <2>3, <3>1, <3>2 DEF Mirror!ImportFollows
  <2> QED BY <1>4, <2>2, <2>3 DEF Mirror!OwnersHand
<1>5. CASE Mirror!Dies
  <2>1. /\ mirror' = "waits" /\ copy' = NoDigest /\ handed' = NoDigest /\ permit' = FALSE
        /\ UNCHANGED <<published, moves, part, stamp, dest, template>> /\
             troubles' \in 0 .. MaxTroubles
    BY <1>5, <1>t, <1>w DEF Mirror!Dies, Mirror!catalogue, Mirror!files
  <2>2. Mirror!TypeOK'
    <3>1. permit' \in BOOLEAN
      BY <2>1
    <3> QED BY <1>0, <2>1, <3>1 DEF Mirror!TypeOK
  <2>3. Mirror!ImportFollows'
    BY <1>0, <2>1 DEF Mirror!ImportFollows, Mirror!Importing
  <2> QED BY <2>2, <2>3
<1>6. CASE Mirror!Wake
  <2>1. /\ permit /\ permit' = FALSE /\
             UNCHANGED <<published, moves, handed, part, stamp, dest, template>>
        /\ troubles' \in 0 .. MaxTroubles
    BY <1>0, <1>6, <1>t DEF Mirror!Wake, Mirror!catalogue, Mirror!files, Mirror!TypeOK
  <2>2. (copy' = handed /\ mirror' = "looks") \/ (mirror' = "waits" /\ copy' = NoDigest)
    BY <1>6, <1>w DEF Mirror!Wake
  <2>3. handed \in Digests
    BY <1>0, <2>1 DEF Mirror!ImportFollows
  <2>4. Mirror!TypeOK'
    <3>1. permit' \in BOOLEAN
      BY <2>1
    <3> QED BY <1>0, <2>1, <2>2, <2>3, <3>1 DEF Mirror!TypeOK
  <2>5. Mirror!ImportFollows'
    BY <1>0, <2>1, <2>2, <2>3 DEF Mirror!ImportFollows, Mirror!Importing
  <2> QED BY <2>4, <2>5
<1>7. CASE Mirror!Look \/ Mirror!Open \/ Mirror!Stall
  <2>1. /\ UNCHANGED <<published, moves, handed, permit, dest, template>> /\
             troubles' \in 0 .. MaxTroubles
        /\ mirror # "waits"
    BY <1>0, <1>7, <1>t DEF Mirror!Look, Mirror!Reap, Mirror!Open, Mirror!Stall, Mirror!catalogue,
         Mirror!files, Mirror!TypeOK
  <2>2. \/ mirror' = "waits" /\ copy' = NoDigest
        \/ mirror' \in {"fetch", "stream"} /\ copy' = copy
        \/ mirror' = "retire" /\ copy' = copy /\ dest = {copy}
    BY <1>7, <1>w DEF Mirror!Look, Mirror!Open, Mirror!Stall, Mirror!Staged
  <2>3. copy \in Digests
    BY <1>0, <2>1 DEF Mirror!ImportFollows
  <2>4. part' \in Mirror!Files /\ stamp' \in Digests \cup {NoDigest}
    <3>1. CASE Mirror!Look \/ Mirror!Open
      BY <1>0, <2>3, <3>1 DEF Mirror!Look, Mirror!Reap, Mirror!Open, Mirror!files, Mirror!TypeOK,
           Mirror!Files
    <3>2. CASE Mirror!Stall
      BY <1>0, <2>3, <3>2 DEF Mirror!Stall, Mirror!Served, Mirror!Arrives, Mirror!TypeOK,
           Mirror!Files
    <3> QED BY <1>7, <3>1, <3>2
  <2>5. Mirror!TypeOK'
    BY <1>0, <2>1, <2>2, <2>3, <2>4 DEF Mirror!TypeOK, Mirror!Importing
  <2>6. Mirror!ImportFollows'
    BY <1>0, <2>1, <2>2, <2>3 DEF Mirror!ImportFollows, Mirror!Importing
  <2> QED BY <2>5, <2>6
<1>8. CASE Mirror!Stream \/ Mirror!Verify
  <2>1. /\ UNCHANGED <<published, moves, handed, permit, template>> /\
             troubles' \in 0 .. MaxTroubles
        /\ mirror # "waits"
    BY <1>0, <1>8, <1>t DEF Mirror!Stream, Mirror!Verify, Mirror!catalogue, Mirror!files,
         Mirror!TypeOK
  <2>2. copy \in Digests
    BY <1>0, <2>1 DEF Mirror!ImportFollows
  <2>3. /\ part' \in Mirror!Files /\ stamp' \in Digests \cup {NoDigest} /\ dest' \in Mirror!Files
        /\ \/ mirror' = "waits" /\ copy' = NoDigest
           \/ mirror' = "verify" /\ copy' = copy
           \/ mirror' = "retire" /\ copy' = copy /\ dest' = {copy}
    <3>1. CASE Mirror!Stream
      BY <1>0, <1>w, <2>2, <3>1 DEF Mirror!Stream, Mirror!Served, Mirror!Same, Mirror!TypeOK,
           Mirror!Files
    <3>2. CASE Mirror!Verify
      BY <1>0, <1>w, <2>2, <3>2 DEF Mirror!Verify, Mirror!Same, Mirror!TypeOK, Mirror!Files
    <3> QED BY <1>8, <3>1, <3>2
  <2>4. Mirror!TypeOK'
    BY <1>0, <2>1, <2>2, <2>3 DEF Mirror!TypeOK, Mirror!Importing
  <2>5. Mirror!ImportFollows'
    BY <1>0, <2>1, <2>2, <2>3 DEF Mirror!ImportFollows, Mirror!Importing
  <2> QED BY <2>4, <2>5
<1>9. CASE Mirror!Retire
  <2>1. /\ mirror = "retire" /\ UNCHANGED <<published, moves, handed, permit, part, stamp, dest>>
        /\ troubles' \in 0 .. MaxTroubles
    BY <1>0, <1>9, <1>t DEF Mirror!Retire, Mirror!catalogue, Mirror!files, Mirror!TypeOK
  <2>2. /\ template' \in {template, NoGuest}
        /\ \/ mirror' = "waits" /\ copy' = NoDigest
           \/ mirror' = "create" /\ copy' = copy
    BY <1>9, <1>w DEF Mirror!Retire
  <2>3. Mirror!TypeOK'
    BY <1>0, <2>1, <2>2 DEF Mirror!TypeOK, Mirror!Importing
  <2>4. Mirror!ImportFollows'
    BY <1>0, <1>b, <2>1, <2>2 DEF Mirror!ImportFollows, Mirror!Importing
  <2> QED BY <2>3, <2>4
<1>10. CASE Mirror!Import
  <2>1. UNCHANGED <<published, moves, handed, permit, troubles, part, stamp>>
    BY <1>10 DEF Mirror!Import, Mirror!ImportStep, Mirror!Create, Mirror!ImportDisk,
         Mirror!FinishTemplate, Mirror!MakeTemplate, Mirror!catalogue, Mirror!files
  <2>2. CASE Mirror!Create
    <3>1. /\ template' = [stage |-> "created", marker |-> copy, disk |-> {}, shape |-> TRUE]
          /\ mirror' = "disk" /\ UNCHANGED <<copy, dest>> /\ mirror = "create"
      BY <2>2 DEF Mirror!Create, Mirror!files
    <3>2. copy \in Digests
      BY <1>0, <3>1 DEF Mirror!ImportFollows
    <3>3. template' \in Mirror!Ours /\ template'.stage = "created" /\ template'.marker = copy
      BY <3>1, <3>2 DEF Mirror!Ours, Mirror!Stages, Mirror!Files
    <3>4. Mirror!TypeOK'
      BY <1>0, <2>1, <3>1, <3>3 DEF Mirror!TypeOK, Mirror!Importing
    <3>5. Mirror!ImportFollows'
      BY <1>0, <2>1, <3>1, <3>3 DEF Mirror!ImportFollows, Mirror!Importing
    <3> QED BY <3>4, <3>5
  <2>3. CASE Mirror!ImportDisk
    <3>1. /\ template \in Mirror!Ours /\
               template' = [template EXCEPT !.stage = "disk", !.disk = dest]
          /\ mirror' = "finish" /\ UNCHANGED <<copy, dest>> /\ mirror = "disk"
      BY <2>3 DEF Mirror!ImportDisk, Mirror!files
    <3>2. dest = {copy} /\ template.marker = copy /\ copy \in Digests /\ dest \in Mirror!Files
      BY <1>0, <3>1 DEF Mirror!ImportFollows, Mirror!Importing, Mirror!TypeOK
    <3>3. /\ template' \in Mirror!Ours /\ template'.stage = "disk" /\
               template'.marker = template.marker
          /\ template'.disk = dest
      BY <3>1, <3>2 DEF Mirror!Ours, Mirror!Stages
    <3>4. Mirror!TypeOK'
      BY <1>0, <2>1, <3>1, <3>3 DEF Mirror!TypeOK, Mirror!Importing
    <3>5. Mirror!ImportFollows'
      BY <1>0, <2>1, <3>1, <3>2, <3>3 DEF Mirror!ImportFollows, Mirror!Importing
    <3> QED BY <3>4, <3>5
  <2>4. CASE Mirror!FinishTemplate
    <3>1. /\ template \in Mirror!Ours /\ template' = [template EXCEPT !.stage = "finished"]
          /\ mirror' = "template" /\ UNCHANGED <<copy, dest>> /\ mirror = "finish"
      BY <2>4 DEF Mirror!FinishTemplate, Mirror!files
    <3>2. /\ template' \in Mirror!Ours /\ template'.stage = "finished" /\
               template'.marker = template.marker
          /\ template'.disk = template.disk
      BY <3>1 DEF Mirror!Ours, Mirror!Stages
    <3>3. Mirror!TypeOK'
      BY <1>0, <2>1, <3>1, <3>2 DEF Mirror!TypeOK, Mirror!Importing
    <3>4. Mirror!ImportFollows'
      BY <1>0, <2>1, <3>1, <3>2 DEF Mirror!ImportFollows, Mirror!Importing
    <3> QED BY <3>3, <3>4
  <2>5. CASE Mirror!MakeTemplate
    <3>1. /\ template \in Mirror!Ours /\ template' = [template EXCEPT !.stage = "template"]
          /\ mirror' = "waits" /\ copy' = NoDigest /\ dest' = {} /\ mirror = "template"
      BY <1>w, <2>5 DEF Mirror!MakeTemplate
    <3>2. /\ template' \in Mirror!Ours /\ template'.stage = "template" /\
               template'.marker = template.marker
          /\ template'.disk = template.disk
      BY <3>1 DEF Mirror!Ours, Mirror!Stages
    <3>3. Mirror!TypeOK'
      BY <1>0, <2>1, <3>1, <3>2 DEF Mirror!TypeOK, Mirror!Files
    <3>4. Mirror!ImportFollows'
      BY <1>0, <2>1, <3>1, <3>2 DEF Mirror!ImportFollows, Mirror!Importing
    <3> QED BY <3>3, <3>4
  <2> QED BY <1>10, <2>2, <2>3, <2>4, <2>5 DEF Mirror!Import, Mirror!ImportStep
<1>11. CASE Mirror!ImportFails
  <2>1. /\ mirror' = "waits" /\ copy' = NoDigest /\ troubles' \in 0 .. MaxTroubles
        /\ UNCHANGED <<published, moves, handed, permit, part, stamp, dest, template>>
    <3>1. troubles' = troubles \/ Mirror!Trouble
      BY <1>11 DEF Mirror!ImportFails
    <3> QED BY <1>0, <1>11, <1>t, <1>w, <3>1 DEF Mirror!ImportFails, Mirror!catalogue,
         Mirror!files, Mirror!TypeOK
  <2> QED BY <1>0, <2>1 DEF Mirror!TypeOK, Mirror!ImportFollows, Mirror!Importing
<1> QED BY <1>1, <1>2, <1>3, <1>4, <1>5, <1>6, <1>7, <1>8, <1>9, <1>10, <1>11 DEF Mirror!Next,
     Mirror!Mirror

(* Whatever stalls, fails, is republished or is left half-built: a template *)
(* is reported held only once it is whole, and of the bytes of its digest.  *)
THEOREM MirrorHoldsWhole == Spec => []HeldIsWhole
<1> DEFINE Inv == Holding
<1>1. Init => Inv
  BY HostAssumption, MirrorBegins DEF Init
<1>2. Inv /\ [Next]_hostVars => Inv'
  BY HostAssumption, OwnParts, MirrorStepKeeps
<1>3. Inv => HeldIsWhole
  BY DEF HeldIsWhole, Holding
<1> QED BY <1>1, <1>2, <1>3, PTL DEF Spec

\* The import's own steps ask for a guest of ours, or for none: the owner's is
\* neither.
LEMMA OwnersLeftAlone ==
  ASSUME Mirror!ImagesAssumption, Mirror!Next, template = Owners, template' # Owners
  PROVE  template' = NoGuest /\ mirror' = mirror
<1>a. Owners \notin Mirror!Ours /\ NoGuest # Owners
  BY DEF Mirror!ImagesAssumption
<1>1. CASE \E d \in Digests : Mirror!Publish(d)
  BY <1>1 DEF Mirror!Publish
<1>2. CASE Mirror!Pass \/ Mirror!Dies
  BY <1>2 DEF Mirror!Pass, Mirror!Dies
<1>3. CASE Mirror!OwnersHand
  BY <1>3, <1>a DEF Mirror!OwnersHand
<1>4. CASE Mirror!Wake \/ Mirror!Look \/ Mirror!Open
  BY <1>4 DEF Mirror!Wake, Mirror!Look, Mirror!Open
<1>5. CASE Mirror!Stream \/ Mirror!Stall \/ Mirror!Verify
  BY <1>5 DEF Mirror!Stream, Mirror!Stall, Mirror!Verify
<1>6. CASE Mirror!Retire
  BY <1>6, <1>a DEF Mirror!Retire, Mirror!Retirable
<1>7. CASE Mirror!Import
  <2>1. template = NoGuest \/ template \in Mirror!Ours
    BY <1>7 DEF Mirror!Import, Mirror!ImportStep, Mirror!Create, Mirror!ImportDisk,
         Mirror!FinishTemplate, Mirror!MakeTemplate
  <2> QED BY <2>1, <1>a
<1>8. CASE Mirror!ImportFails
  BY <1>8 DEF Mirror!ImportFails
<1> QED BY <1>1, <1>2, <1>3, <1>4, <1>5, <1>6, <1>7, <1>8 DEF Mirror!Next, Mirror!Mirror

(* Whatever the mirror is in the middle of, and for every bound: the        *)
(* owner's guest at the image's number goes by the owner's hand alone.      *)
THEOREM OwnersGuestIsKept == Spec => Mirror!OwnersStand
<1>1. [Next]_hostVars => [template = Owners /\ template' # Owners =>
                             template' = NoGuest /\ mirror' = mirror]_(Mirror!imageVars)
  BY HostAssumption, OwnParts, OwnersLeftAlone
<1> QED BY <1>1, PTL DEF Spec, Mirror!OwnersStand

-----------------------------------------------------------------------------
(* What a worker says is shown while its reporter lives.  The reporter is   *)
(* v1, its report v2, whether it moved v3, its age v4, the reader's pause   *)
(* v5, its count of unchanged reads v6, what is shown v7; and of history,   *)
(* the reads since it wrote v8, a round not heard of v9, a hasty read v10.  *)

\* The inductive invariant: the reads keep to the reporter's age.
Showing == Says!TypeOK /\ Says!ReadsFollow /\ Says!ShownWhileItMoves

LEMMA SaysBegins == Says!TelemetryAssumption /\ Says!Init => Showing
<1> SUFFICES ASSUME Says!TelemetryAssumption, Says!Init PROVE Showing
  OBVIOUS
<1>1. ReportEvery \in Nat \ {0} /\ Probing \in Nat /\ ReadEvery \in Nat \ {0} /\
        StuckAfter \in Nat \ {0}
  BY DEF Says!TelemetryAssumption
<1>2. Says!TypeOK
  <2>1. v3 \in BOOLEAN /\ v9 \in BOOLEAN /\ v10 \in BOOLEAN
    BY DEF Says!Init
  <2>2. /\ v1 = "fresh" /\ v2 = Says!NoReport /\ v4 = 0 /\ v5 = 0 /\ v6 = Says!Unseen /\
             v7 = "nothing"
        /\ v8 = 0
    BY DEF Says!Init
  <2> QED BY <1>1, <2>1, <2>2 DEF Says!TypeOK, Says!Unseen, Says!Longest
<1>3. Says!ReadsFollow
  BY DEF Says!Init, Says!ReadsFollow
<1>4. Says!ShownWhileItMoves
  BY <1>1 DEF Says!Init, Says!ShownWhileItMoves, Says!Dropped
<1> QED BY <1>2, <1>3, <1>4 DEF Showing

LEMMA SaysStepKeeps == Says!TelemetryAssumption /\ Showing /\ [Says!Next]_(Says!telemetryVars) =>
   Showing'
<1> SUFFICES ASSUME Says!TelemetryAssumption, Says!TypeOK, Says!ReadsFollow,
   Says!ShownWhileItMoves, [Says!Next]_(Says!telemetryVars)
             PROVE  Says!TypeOK' /\ Says!ReadsFollow' /\ Says!ShownWhileItMoves'
  BY DEF Showing
<1>0. /\ ReportEvery \in Nat \ {0} /\ Probing \in Nat /\ ReadEvery \in Nat \ {0} /\
           StuckAfter \in Nat \ {0}
  BY DEF Says!TelemetryAssumption
<1>b. ReportEvery =< Says!Patience /\ Says!Patience \in Nat
  BY <1>0 DEF Says!TelemetryAssumption, Says!CheckedTimings, Says!Patience
<1>c. v6 \in Nat /\ v8 \in Nat /\ v4 \in Nat /\ v5 \in Nat /\ Says!Unseen = StuckAfter + 1
  BY <1>0 DEF Says!TypeOK, Says!Unseen, Says!Longest
<1> DEFINE Pace == v6 * ReadEvery
<1>a. Pace \in Nat
  BY <1>0 DEF Says!TypeOK, Says!Unseen
<1>1. CASE UNCHANGED Says!telemetryVars
  BY <1>1 DEF Says!telemetryVars, Says!TypeOK, Says!ReadsFollow, Says!ShownWhileItMoves,
       Says!Dropped, Says!Due
<1>2. CASE Says!Tick
  <2>1. v4' \in 0 .. Says!Longest /\ v5' \in 0 .. ReadEvery
    BY <1>0, <1>2 DEF Says!Tick, Says!TypeOK, Says!Least, Says!Longest
  <2>2. Says!TypeOK'
    BY <1>2, <2>1 DEF Says!Tick, Says!TypeOK
  <2>4. Says!ShownWhileItMoves'
    <3>1. v4 =< v4'
      BY <1>0, <1>2 DEF Says!Tick, Says!TypeOK, Says!Least, Says!Longest
    <3>2. Says!Due /\ v4 >= Says!Patience => Says!Due' /\ v4' >= Says!Patience
      BY <1>0, <1>2, <1>b, <1>c, <2>1, <3>1 DEF Says!Tick, Says!Due, Says!Longest
    <3>3. Says!Dropped' => Says!Dropped
      BY <1>2 DEF Says!Tick, Says!Dropped
    <3> QED BY <1>2, <3>2, <3>3 DEF Says!Tick, Says!ShownWhileItMoves
  <2>3. ASSUME v1 = "reporting", ~v9, ~v10, v8 > 0 PROVE Pace + v5' =< v4'
    <3>1. Pace + v5 =< v4 /\ v4 < Says!Longest
      BY <1>2, <2>3 DEF Says!ReadsFollow, Says!Tick
    <3> QED BY <1>0, <1>2, <1>a, <3>1 DEF Says!Tick, Says!Least, Says!TypeOK, Says!Longest
  <2> QED BY <1>2, <2>2, <2>3, <2>4 DEF Says!Tick, Says!ReadsFollow
<1>3. CASE Says!Round
  <2>1. v2' \in [health : Says!Healths, stage : Says!Stages] \cup {Says!NoReport}
    <3>1. ASSUME NEW server \in {"silent", "refuses", "late", "prompt"}, NEW grew \in BOOLEAN
          PROVE  Says!Reported(server, grew) \in [health : Says!Healths, stage : Says!Stages]
      <4>1. Says!Health(server) \in Says!Healths
        BY DEF Says!Health, Says!Healths
      <4>2. \A h : Says!Stage(h, grew) \in Says!Stages
        BY DEF Says!Stage, Says!Stages
      <4> QED BY <4>1, <4>2 DEF Says!Reported
    <3>2. v2 \in [health : Says!Healths, stage : Says!Stages] \cup {Says!NoReport}
      BY DEF Says!TypeOK
    <3> QED BY <1>3, <3>1, <3>2 DEF Says!Round
  <2>2. Says!TypeOK'
    <3>1. /\ v4' = 0 /\ v1' = "reporting" /\ v3' \in BOOLEAN /\ v9' \in BOOLEAN
          /\ v8' \in {0, v8} /\ UNCHANGED <<v5, v6, v7, v10>>
      BY <1>3 DEF Says!Round, Says!TypeOK
    <3> QED BY <1>0, <2>1, <3>1 DEF Says!TypeOK, Says!Longest, Says!Unseen
  <2>3. v8' = 0 \/ (v9' /\ UNCHANGED <<v3, v8>>)
    BY <1>3 DEF Says!Round
  <2>4. v8' = 0 => v3' \/ v9'
    BY <1>3 DEF Says!Round, Says!ReadsFollow
  <2>5. UNCHANGED <<v6, v7, v10>>
    BY <1>3 DEF Says!Round
  <2>6. Says!ReadsFollow'
    <3>1. CASE v8' = 0
      BY <1>0, <1>c, <2>4, <2>5, <3>1 DEF Says!ReadsFollow
    <3>2. CASE v9' /\ UNCHANGED <<v3, v8>>
      BY <2>5, <3>2 DEF Says!ReadsFollow
    <3> QED BY <2>3, <3>1, <3>2
  <2>7. Says!ShownWhileItMoves'
    BY <1>0, <2>3, <2>5 DEF Says!ShownWhileItMoves, Says!Dropped
  <2> QED BY <2>2, <2>6, <2>7
<1>4. CASE Says!Machine
  <2>1. /\ v1' \in {"stopped", "fresh"} /\ v2' \in {v2, Says!NoReport} /\ v4' \in {0, v4}
        /\ UNCHANGED <<v3, v5, v6, v7, v8, v9, v10>>
    BY <1>4 DEF Says!Machine, Says!Dies, Says!Restarts, Says!Reboots
  <2>2. Says!TypeOK'
    BY <1>0, <2>1 DEF Says!TypeOK, Says!Longest
  <2>3. Says!ReadsFollow'
    BY <2>1 DEF Says!ReadsFollow
  <2> QED BY <2>1, <2>2, <2>3 DEF Says!ShownWhileItMoves, Says!Dropped
<1>5. CASE Says!Read
  <2>1. CASE v7' = "nothing" /\ UNCHANGED <<v5, v6, v3, v8, v10>>
    <3>1. UNCHANGED <<v1, v2, v4, v9>>
      BY <1>5 DEF Says!Read
    <3> QED BY <2>1, <3>1 DEF Says!TypeOK, Says!ReadsFollow, Says!ShownWhileItMoves, Says!Dropped
  <2>2. CASE /\ v5' = 0 /\ v6' = Says!Counted /\ v3' = FALSE
             /\ v8' = Says!Least(v8 + 1, Says!Unseen)
             /\ v10' = (~Says!News /\ (v10 \/ v5 # ReadEvery))
             /\ v7' = IF v6' < StuckAfter THEN Says!Detail(v2) ELSE "dropped"
    <3>1. v6' \in 0 .. StuckAfter /\ v8' \in 1 .. Says!Unseen /\ v8' =< v8 + 1
      BY <1>0, <2>2 DEF Says!Counted, Says!News, Says!TypeOK, Says!Unseen, Says!Least
    <3>2. Says!TypeOK'
      <4>1. /\ v5' = 0 /\ UNCHANGED <<v1, v2, v4, v9>>
            /\ v7' \in {"dropped", "downloading", "loading", "loaded"}
        BY <1>5, <2>2 DEF Says!Read, Says!Detail
      <4>2. v6' \in 0 .. Says!Unseen /\ v8' \in 0 .. Says!Unseen
        BY <1>0, <1>c, <3>1
      <4>3. v3' \in BOOLEAN /\ v10' \in BOOLEAN
        BY <2>2
      <4> QED BY <1>0, <4>1, <4>2, <4>3 DEF Says!TypeOK
    <3>3. v8' =< v6' + 1
      <4>1. CASE v6 = Says!Unseen \/ v3
        <5>1. v8 = 0
          BY <4>1 DEF Says!ReadsFollow
        <5>2. v8' =< 1 /\ v6' \in Nat /\ v8' \in Nat
          BY <1>0, <1>c, <3>1, <5>1
        <5>3. \A x, y \in Nat : x =< 1 => x =< y + 1
          OBVIOUS
        <5> QED BY <5>2, <5>3
      <4>2. CASE ~(v6 = Says!Unseen \/ v3)
        BY <1>0, <2>2, <3>1, <4>2 DEF Says!ReadsFollow, Says!Counted, Says!News, Says!Least, Says!Unseen,
             Says!TypeOK
      <4> QED BY <4>1, <4>2
    <3>4. ASSUME v1 = "reporting", ~v9, ~v10'
          PROVE  v6' * ReadEvery =< v4
      <4>1. CASE v6 = Says!Unseen \/ v3
        <5>1. v6' = 0
          BY <2>2, <4>1 DEF Says!Counted, Says!News
        <5>2. 0 * ReadEvery = 0 /\ v4 \in Nat
          BY <1>0 DEF Says!TypeOK, Says!Longest
        <5> QED BY <5>1, <5>2
      <4>2. CASE ~(v6 = Says!Unseen \/ v3)
        <5>1. Pace + ReadEvery =< v4
          <6>1. ~v10 /\ v5 = ReadEvery
            BY <2>2, <3>4, <4>2 DEF Says!News
          <6>2. v8 > 0
            BY <1>c, <3>4, <4>2 DEF Says!ReadsFollow
          <6> QED BY <3>4, <6>1, <6>2 DEF Says!ReadsFollow
        <5>2. (v6 + 1) * ReadEvery = Pace + ReadEvery
          BY <1>0 DEF Says!TypeOK, Says!Unseen
        <5>3. v6' \in {v6, v6 + 1}
          BY <1>0, <2>2, <4>2 DEF Says!Counted, Says!News, Says!Least, Says!TypeOK, Says!Unseen
        <5>4. CASE v6' = v6
          BY <1>0, <1>a, <5>1, <5>4 DEF Says!TypeOK, Says!Longest
        <5> QED BY <5>1, <5>2, <5>3, <5>4
      <4> QED BY <4>1, <4>2
    <3>5. ASSUME v1 = "reporting", ~v9, ~v10', v6' = StuckAfter
          PROVE  Says!Due /\ v4 >= Says!Patience
      <4>1. v4 >= Says!Patience
        BY <1>c, <3>4, <3>5 DEF Says!Patience
      <4> QED BY <1>0, <1>b, <1>c, <4>1 DEF Says!Due
    <3>6. Says!ReadsFollow'
      BY <1>0, <1>5, <2>2, <3>1, <3>3, <3>4 DEF Says!Read, Says!ReadsFollow, Says!Unseen,
           Says!TypeOK
    <3>7. Says!ShownWhileItMoves'
      <4>1. v7' = "dropped" => v6' = StuckAfter
        BY <1>0, <2>2, <3>1 DEF Says!Detail
      <4>2. v7' # "dropped" => v6' < StuckAfter
        BY <1>0, <2>2, <3>1
      <4>3. v7' # "dropped" => v8' =< StuckAfter
        <5>1. \A x, y, s \in Nat : x =< y + 1 /\ y < s => x =< s
          OBVIOUS
        <5>2. v8' \in Nat /\ v6' \in Nat
          BY <1>0, <1>c, <3>1
        <5> QED BY <1>0, <3>3, <4>2, <5>1, <5>2
      <4>4. UNCHANGED <<v1, v4, v9>>
        BY <1>5 DEF Says!Read
      <4>5. Says!Due => Says!Due'
        BY <4>4 DEF Says!Due
      <4>6. Says!Dropped' => v10' \/ (Says!Due' /\ v4' >= Says!Patience)
        BY <3>5, <4>1, <4>4, <4>5 DEF Says!Dropped
      <4> QED BY <4>3, <4>6 DEF Says!ShownWhileItMoves
    <3> QED BY <3>2, <3>6, <3>7
  <2> QED BY <1>5, <2>1, <2>2 DEF Says!Read
<1>6. CASE Says!Forgets
  <2>1. /\ v6' = Says!Unseen /\ v3' = TRUE /\ v7' = "nothing" /\ v8' = 0 /\ v9' = FALSE /\ v10' = FALSE
        /\ UNCHANGED <<v1, v2, v4, v5>>
    BY <1>6 DEF Says!Forgets
  <2>2. Says!TypeOK'
    <3>1. v3' \in BOOLEAN /\ v9' \in BOOLEAN /\ v10' \in BOOLEAN
      BY <2>1
    <3>2. v6' = Says!Unseen /\ v8' = 0 /\ v7' = "nothing" /\ UNCHANGED <<v1, v2, v4, v5>>
      BY <2>1
    <3> QED BY <1>0, <1>c, <3>1, <3>2 DEF Says!TypeOK
  <2>3. Says!ReadsFollow'
    BY <2>1 DEF Says!ReadsFollow
  <2> QED BY <2>1, <2>2, <2>3 DEF Says!ShownWhileItMoves, Says!Dropped
<1> QED BY <1>1, <1>2, <1>3, <1>4, <1>5, <1>6 DEF Says!Next

(* For every reporting interval and patience the code's own check admits,   *)
(* and however long the probes take and whenever the passes come: what a    *)
(* worker says is shown for StuckAfter reads at most after it was written,  *)
(* and a reporter that lives and is heard is taken for dead only while its  *)
(* next report is due and later than the patience, or after a pass that     *)
(* came sooner than a poll.                                                 *)
THEOREM ShownWhileAlive == Spec => []ShownWhileItMoves
<1> DEFINE Inv == component = "telemetry" => Showing
<1>1. Init => Inv
  BY HostAssumption, SaysBegins DEF Init, TakeTurns
<1>2. Inv /\ [Next]_hostVars => Inv'
  BY HostAssumption, TurnParts, SaysStepKeeps
<1>3. Inv => ShownWhileItMoves
  BY DEF ShownWhileItMoves, Showing
<1> QED BY <1>1, <1>2, <1>3, PTL DEF Spec

-----------------------------------------------------------------------------
(* Join and leave.  Of the host: its parts v1, who holds the secret v2, the *)
(* service v3, a machine that stands v4.  Of Core: enrolled v5, sold v6.  A *)
(* build under way v7, the command v8, its step v9, --without-core v10; and *)
(* of history, told v11 and joined v12.                                     *)

\* The inductive invariant: what each step of a command knows.
Serving == Joining!TypeOK /\ Joining!LeaveKnows /\ Joining!JoinGives /\ Joining!ServesOrLeft

LEMMA JoinSchedule ==
  /\ Len(Joining!JoinSteps) = 9 /\ Len(Joining!LeaveSteps) = 7
  /\ Joining!JoinSteps[1] = "checks" /\ Joining!JoinSteps[2] = "tokens" /\
       Joining!JoinSteps[3] = "pools" /\ Joining!JoinSteps[4] = "zones"
  /\ Joining!JoinSteps[5] = "leaseToken" /\ Joining!JoinSteps[6] = "config" /\
       Joining!JoinSteps[7] = "leaseFile"
  /\ Joining!JoinSteps[8] = "service" /\ Joining!JoinSteps[9] = "opening"
  /\ Joining!LeaveSteps[1] = "pools?" /\ Joining!LeaveSteps[2] = "core?" /\
       Joining!LeaveSteps[3] = "service" /\ Joining!LeaveSteps[4] = "tokens"
  /\ Joining!LeaveSteps[5] = "config" /\ Joining!LeaveSteps[6] = "pools" /\
       Joining!LeaveSteps[7] = "zones"
  BY DEF Joining!JoinSteps, Joining!LeaveSteps

LEMMA JoinBegins == Joining!Init => Serving
<1> SUFFICES ASSUME Joining!Init PROVE Serving
  OBVIOUS
<1>1. /\ v3 \in BOOLEAN /\ v4 \in BOOLEAN /\ v5 \in BOOLEAN /\ v6 \in BOOLEAN
      /\ v7 \in BOOLEAN /\ v10 \in BOOLEAN /\ v11 \in BOOLEAN
  BY DEF Joining!Init
<1>2. Joining!TypeOK
  BY <1>1, JoinSchedule DEF Joining!Init, Joining!TypeOK, Joining!Parts, Joining!Holders
<1>3. Joining!LeaveKnows /\ Joining!JoinGives /\ Joining!ServesOrLeft
  BY DEF Joining!Init, Joining!LeaveKnows, Joining!JoinGives, Joining!ServesOrLeft,
       Joining!LeaveCutsNoOne, Joining!JoinedServes
<1> QED BY <1>2, <1>3 DEF Serving

LEMMA JoinStepKeeps == Serving /\ [Joining!Next]_(Joining!joinVars) => Serving'
<1> SUFFICES ASSUME Serving, [Joining!Next]_(Joining!joinVars) PROVE Serving'
  OBVIOUS
<1> USE DEF Serving
<1>0. v9 \in 0 .. 9 /\ v1 \subseteq Joining!Parts /\ v2 \subseteq Joining!Holders
  BY JoinSchedule DEF Joining!TypeOK
<1>b. /\ v3 \in BOOLEAN /\ v4 \in BOOLEAN /\ v5 \in BOOLEAN /\ v6 \in BOOLEAN
      /\ v7 \in BOOLEAN /\ v10 \in BOOLEAN /\ v11 \in BOOLEAN
  BY DEF Joining!TypeOK
<1>1. CASE UNCHANGED Joining!joinVars
  BY <1>1 DEF Joining!joinVars, Joining!TypeOK, Joining!LeaveKnows, Joining!JoinGives,
       Joining!ServesOrLeft, Joining!LeaveCutsNoOne, Joining!JoinedServes
<1>2. CASE Joining!CoreActs
  <2>1. UNCHANGED <<v1, v2, v3, v4, v7, v8, v9, v10, v11, v12, v5>>
    BY <1>2 DEF Joining!CoreActs, Joining!Places, Joining!Finished
  <2>2. v6' \in BOOLEAN
    BY <1>2 DEF Joining!CoreActs, Joining!Places, Joining!Finished
  <2>3. Joining!TypeOK' /\ Joining!JoinGives' /\ Joining!ServesOrLeft'
    BY <2>1, <2>2 DEF Joining!TypeOK, Joining!JoinGives, Joining!ServesOrLeft,
         Joining!LeaveCutsNoOne, Joining!JoinedServes
  <2>4. Joining!LeaveKnows'
    BY <1>2, <2>1 DEF Joining!CoreActs, Joining!Places, Joining!Finished, Joining!LeaveKnows
  <2> QED BY <2>3, <2>4
<1>3. CASE Joining!AgentActs
  <2>1. UNCHANGED <<v1, v2, v3, v5, v6, v8, v9, v10, v11, v12>>
    BY <1>3 DEF Joining!AgentActs
  <2>2. v4' \in BOOLEAN /\ v7' \in BOOLEAN
    BY <1>3, <1>b DEF Joining!AgentActs, Joining!Fetches, Joining!Clones, Joining!Deletes,
         Joining!Able
  <2>3. Joining!TypeOK' /\ Joining!JoinGives'
    BY <2>1, <2>2 DEF Joining!TypeOK, Joining!JoinGives
  <2>4. Joining!LeaveKnows' /\ Joining!ServesOrLeft'
    BY <1>3, <1>b, <2>1, <2>2 DEF Joining!AgentActs, Joining!Fetches, Joining!Clones,
         Joining!Deletes, Joining!Able, Joining!LeaveKnows, Joining!ServesOrLeft,
            Joining!LeaveCutsNoOne, Joining!JoinedServes
  <2> QED BY <2>3, <2>4
<1>4. ASSUME NEW cmd \in {"join", "leave"}, Joining!Runs(cmd) PROVE Serving'
  <2>1. /\ v8 = "none" /\ v8' = cmd /\ v9' = 1 /\ v10' \in BOOLEAN /\ v5' \in BOOLEAN
        /\ v5 => v5'
        /\ v12' = IF cmd = "join" /\ ~v3 THEN "fresh" ELSE "no"
        /\ UNCHANGED <<v1, v2, v3, v4, v6, v7, v11>>
    BY <1>4, <1>b DEF Joining!Runs
  <2>2. Joining!TypeOK'
    BY <2>1, JoinSchedule DEF Joining!TypeOK
  <2>3. Joining!LeaveKnows'
    BY <2>1, JoinSchedule DEF Joining!LeaveKnows
  <2>4. Joining!JoinGives' /\ Joining!ServesOrLeft'
    BY <2>1 DEF Joining!JoinGives, Joining!ServesOrLeft, Joining!LeaveCutsNoOne,
         Joining!JoinedServes
  <2> QED BY <2>2, <2>3, <2>4
<1>5. CASE Joining!JoinStep
  <2>0. v8 = "join" /\ v9 \in 1 .. 9
    BY <1>5, <1>0 DEF Joining!JoinStep, Joining!LeaveKnows
  <2>1. UNCHANGED <<v4, v5, v6, v7, v11>>
    BY <1>5 DEF Joining!JoinStep
  <2>2. \/ v9 < 9 /\ v9' = v9 + 1 /\ UNCHANGED <<v8, v10>>
        \/ v9 = 9 /\ v8' = "none" /\ v9' = 0 /\ v10' = FALSE
    BY <1>5, <2>0, JoinSchedule DEF Joining!JoinStep, Joining!GoesOn, Joining!Over, Joining!Steps
  <2>3. /\ v1 \subseteq v1' /\ v1' \subseteq Joining!Parts /\ v2' \subseteq Joining!Holders /\
             v3' \in BOOLEAN
        /\ v9 # 8 => v3' = v3
        /\ v9 > 5 => v2 \subseteq v2'
        /\ v9 = 6 => "file" \in v2'
        /\ v9 = 7 => "leaseFile" \in v2'
        /\ v9 = 8 /\ ~v3 /\ "file" \in v2 => "agent" \in v2'
    <3>1. \A s : Joining!At(s) <=> s = Joining!JoinSteps[v9]
      BY <2>0 DEF Joining!At, Joining!Steps
    <3>2. CASE v9 \in {1, 9}
      BY <1>5, <1>0, <1>b, <3>1, <3>2, JoinSchedule DEF Joining!JoinStep, Joining!Makes
    <3>3. CASE v9 \in {2, 5}
      BY <1>5, <1>0, <1>b, <3>1, <3>3, JoinSchedule DEF Joining!JoinStep, Joining!Makes,
           Joining!Parts
    <3>4. CASE v9 \in {3, 4}
      BY <1>5, <1>0, <1>b, <2>0, <3>1, <3>4, JoinSchedule DEF Joining!JoinStep, Joining!Makes,
           Joining!Parts, Joining!Steps
    <3>5. CASE v9 = 6
      BY <1>5, <1>0, <1>b, <3>1, <3>5, JoinSchedule DEF Joining!JoinStep, Joining!Makes,
           Joining!Parts, Joining!Holders
    <3>6. CASE v9 = 7
      BY <1>5, <1>0, <1>b, <3>1, <3>6, JoinSchedule DEF Joining!JoinStep, Joining!Makes,
           Joining!Parts, Joining!Holders
    <3>7. CASE v9 = 8
      <4>1. Joining!Enables
        BY <1>5, <3>1, <3>7, JoinSchedule DEF Joining!JoinStep
      <4>2. v3' \in BOOLEAN
        BY <4>1 DEF Joining!Enables
      <4> QED BY <1>0, <3>7, <4>1, <4>2 DEF Joining!Enables, Joining!Holders
    <3> QED BY <2>0, <3>2, <3>3, <3>4, <3>5, <3>6, <3>7
  <2>4. v12' = IF v12 = "fresh" /\ v9 = 9 THEN "whole" ELSE v12
    BY <1>5, <2>0, JoinSchedule DEF Joining!JoinStep, Joining!At, Joining!Steps
  <2>5. Joining!TypeOK'
    <3>1. v9' \in 0 .. 9 /\ v8' \in {"none", "join", "leave"} /\ v12' \in {"no", "fresh", "whole"}
      BY <2>0, <2>2, <2>4 DEF Joining!TypeOK
    <3>2. v10' \in BOOLEAN
      BY <1>b, <2>2
    <3> QED BY <1>b, <2>1, <2>3, <3>1, <3>2, JoinSchedule DEF Joining!TypeOK
  <2>6. Joining!LeaveKnows'
    BY <2>0, <2>1, <2>2, <2>3, <1>0 DEF Joining!LeaveKnows
  <2>7. Joining!JoinGives'
    <3>1. CASE v9 < 9 /\ v9' = v9 + 1 /\ UNCHANGED <<v8, v10>>
      <4>1. v12' = v12 /\ v12 # "whole"
        BY <2>0, <2>4, <3>1 DEF Joining!JoinGives
      <4>2. ASSUME v12 = "fresh"
            PROVE  /\ v9 + 1 =< 8 => ~v3'
                   /\ v9 + 1 > 6 => "file" \in v2'
                   /\ v9 + 1 > 7 => "leaseFile" \in v2'
                   /\ v9 + 1 > 8 => "agent" \in v2'
        <5>1. v9 =< 8 /\ ~v3
          BY <2>0, <3>1, <4>2 DEF Joining!JoinGives
        <5>2. v9 > 6 => "file" \in v2
          BY <4>2 DEF Joining!JoinGives
        <5>3. v9 > 7 => "leaseFile" \in v2
          BY <4>2 DEF Joining!JoinGives
        <5>4. v9 + 1 =< 8 => ~v3'
          BY <2>0, <2>3, <5>1
        <5> QED BY <2>0, <2>3, <3>1, <5>1, <5>2, <5>3, <5>4
      <4> QED BY <2>0, <3>1, <4>1, <4>2 DEF Joining!JoinGives
    <3>2. CASE v9 = 9 /\ v8' = "none" /\ v9' = 0
      <4>1. v12 # "whole" /\ v12' # "fresh"
        BY <2>0, <2>4, <3>2 DEF Joining!JoinGives
      <4>2. v12 = "fresh" => v2' = Joining!Holders
        <5>1. v12 = "fresh" => "file" \in v2 /\ "leaseFile" \in v2 /\ "agent" \in v2
          BY <3>2 DEF Joining!JoinGives
        <5>2. v2 \subseteq v2' /\ v2' \subseteq Joining!Holders
          BY <2>3, <3>2
        <5> QED BY <5>1, <5>2 DEF Joining!Holders
      <4> QED BY <2>4, <3>2, <4>1, <4>2 DEF Joining!JoinGives
    <3> QED BY <2>2, <3>1, <3>2
  <2>8. Joining!ServesOrLeft'
    BY <2>1, <2>3, <2>7 DEF Joining!JoinGives, Joining!ServesOrLeft, Joining!LeaveCutsNoOne,
         Joining!JoinedServes
  <2> QED BY <2>5, <2>6, <2>7, <2>8
<1>6. CASE Joining!JoinFails
  <2>1. /\ v8 = "join" /\ v8' = "none" /\ v9' = 0 /\ v10' = FALSE /\ v12' = "no"
        /\ UNCHANGED <<v3, v4, v5, v6, v7, v11>>
        /\ v1' \in {v1, v1 \ {"tokens"}} /\ v2' \subseteq v2
    BY <1>6 DEF Joining!JoinFails, Joining!Over
  <2>2. Joining!TypeOK'
    <3>1. v10' \in BOOLEAN /\ v1' \subseteq Joining!Parts /\ v2' \subseteq Joining!Holders
      BY <1>0, <2>1
    <3> QED BY <2>1, <3>1, <1>b, JoinSchedule DEF Joining!TypeOK
  <2>3. Joining!LeaveKnows'
    BY <2>1 DEF Joining!LeaveKnows
  <2>4. Joining!JoinGives' /\ Joining!ServesOrLeft'
    BY <2>1 DEF Joining!JoinGives, Joining!ServesOrLeft, Joining!LeaveCutsNoOne,
         Joining!JoinedServes
  <2> QED BY <2>2, <2>3, <2>4
\* A step of a leave but its last two words: it goes on, or is over.
<1>g. v8 = "leave" /\ (Joining!GoesOn \/ Joining!Over) =>
        /\ v10' \in BOOLEAN
        /\ \/ v9 < 7 /\ v9' = v9 + 1 /\ v8' = "leave"
           \/ v8' = "none" /\ v9' = 0
  <2> SUFFICES ASSUME v8 = "leave", Joining!GoesOn \/ Joining!Over
               PROVE  /\ v10' \in BOOLEAN
                      /\ \/ v9 < 7 /\ v9' = v9 + 1 /\ v8' = "leave"
                         \/ v8' = "none" /\ v9' = 0
    OBVIOUS
  <2>1. v9 \in 1 .. 7 /\ Joining!Steps = Joining!LeaveSteps
    BY <1>0, JoinSchedule DEF Joining!LeaveKnows, Joining!Steps
  <2>2. v10' \in {v10, FALSE}
    BY DEF Joining!GoesOn, Joining!Over
  <2>3. v10' \in BOOLEAN
    BY <2>2, <1>b
  <2>4. CASE Joining!Over
    BY <2>3, <2>4 DEF Joining!Over
  <2>5. CASE Joining!GoesOn /\ v9 # 7
    BY <2>1, <2>3, <2>5, JoinSchedule DEF Joining!GoesOn
  <2>6. CASE Joining!GoesOn /\ v9 = 7
    BY <2>1, <2>3, <2>6, JoinSchedule DEF Joining!GoesOn, Joining!Over
  <2> QED BY <2>4, <2>5, <2>6
<1>7. CASE Joining!AsksPools
  <2>1. /\ v8 = "leave" /\ v9 = 1
        /\ UNCHANGED <<v1, v2, v3, v4, v5, v6, v7, v11, v12>>
    <3>1. Joining!At("pools?")
      BY <1>7 DEF Joining!AsksPools, Joining!PoolsRead
    <3>2. v8 # "none" /\ Joining!Steps[v9] = "pools?" /\ v9 \in 1 .. 9
      BY <1>0, <3>1 DEF Joining!At, Joining!LeaveKnows
    <3>3. v8 # "join"
      BY <3>2, JoinSchedule DEF Joining!Steps
    <3> QED BY <1>7, <3>2, <3>3, JoinSchedule DEF Joining!AsksPools, Joining!Steps, Joining!TypeOK,
         Joining!LeaveKnows
  <2>2. Joining!GoesOn \/ Joining!Over
    BY <1>7 DEF Joining!AsksPools, Joining!PoolsRead
  <2>3. v8' = "leave" => ~v4
    BY <1>7, <2>1 DEF Joining!AsksPools, Joining!PoolsRead, Joining!Over, Joining!LeaveKnows
  <2>4. Joining!TypeOK'
    BY <1>g, <2>1, <2>2, JoinSchedule DEF Joining!TypeOK
  <2>5. Joining!LeaveKnows'
    BY <1>g, <2>1, <2>2, <2>3, JoinSchedule DEF Joining!LeaveKnows
  <2>6. Joining!JoinGives' /\ Joining!ServesOrLeft'
    BY <2>1, <1>g, <2>2 DEF Joining!JoinGives, Joining!ServesOrLeft, Joining!LeaveCutsNoOne,
         Joining!JoinedServes
  <2> QED BY <2>4, <2>5, <2>6
<1>8. CASE Joining!TellsCore \/ Joining!CoreUntold
  <2>1. /\ v8 = "leave" /\ v9 = 2
        /\ UNCHANGED <<v1, v3, v4, v7, v12, v6>>
    <3>1. Joining!At("core?")
      BY <1>8 DEF Joining!TellsCore, Joining!CoreUntold
    <3>2. v8 # "none" /\ Joining!Steps[v9] = "core?" /\ v9 \in 1 .. 9
      BY <1>0, <3>1 DEF Joining!At, Joining!LeaveKnows
    <3>3. v8 # "join"
      BY <3>2, JoinSchedule DEF Joining!Steps
    <3>4. v8 = "leave" /\ v9 = 2
      BY <3>2, <3>3, JoinSchedule DEF Joining!Steps, Joining!TypeOK, Joining!LeaveKnows
    <3> QED BY <1>8, <3>4 DEF Joining!TellsCore, Joining!CoreUntold, Joining!Answers
  <2>2. Joining!GoesOn \/ Joining!Over
    BY <1>8 DEF Joining!TellsCore, Joining!CoreUntold, Joining!Answers
  <2>3. /\ v5' \in {v5, FALSE} /\ v2' \in {v2, v2 \ {"agent", "file"}} /\ v11' \in BOOLEAN
    BY <1>8, <1>b DEF Joining!TellsCore, Joining!CoreUntold, Joining!Answers
  <2>4. /\ v6 => v5'
        /\ v8' = "leave" /\ v11' => ~v6 /\ ~v5'
        /\ v8' # "leave" => v11' = v11
    <3>0. v6 => v5
      BY DEF Joining!LeaveKnows
    <3>1. CASE Joining!CoreUntold
      <4>1. v5' = v5
        BY <3>1 DEF Joining!CoreUntold
      <4>2. ~v11' \/ (v8' = "none" /\ v11' = v11)
        BY <3>1 DEF Joining!CoreUntold, Joining!Over
      <4>3. v10 => v8' = "leave"
        BY <2>1, <3>1, JoinSchedule DEF Joining!CoreUntold, Joining!GoesOn, Joining!Steps
      <4>4. ~v10 => v11' = v11
        BY <3>1 DEF Joining!CoreUntold
      <4> QED BY <3>0, <4>1, <4>2, <4>3, <4>4
    <3>2. CASE Joining!TellsCore /\ v5 /\ v6
      <4>1. v5' = v5 /\ (v10 \/ v8' = "none") /\ (v10 => v8' # "none")
        BY <2>1, <3>2, JoinSchedule DEF Joining!TellsCore, Joining!Answers, Joining!Over,
             Joining!GoesOn, Joining!Steps
      <4>2. v11' = IF v8' = "none" THEN v11 ELSE ~v10
        BY <3>2 DEF Joining!TellsCore
      <4> QED BY <1>g, <2>1, <2>2, <3>0, <4>1, <4>2
    <3>3. CASE Joining!TellsCore /\ ~(v5 /\ v6)
      <4>1. ~v6 /\ ~v5'
        BY <3>3 DEF Joining!TellsCore, Joining!Answers, Joining!LeaveKnows
      <4>2. v8' # "none"
        BY <2>1, <3>3, JoinSchedule DEF Joining!TellsCore, Joining!Answers, Joining!GoesOn,
             Joining!Steps
      <4>3. v8' = "leave"
        BY <1>g, <2>1, <2>2, <4>2
      <4> QED BY <4>1, <4>3
    <3> QED BY <1>8, <3>1, <3>2, <3>3
  <2>5. Joining!TypeOK'
    <3>1. v5' \in BOOLEAN /\ v11' \in BOOLEAN /\ v10' \in BOOLEAN
      BY <1>b, <1>g, <2>1, <2>2, <2>3
    <3> QED BY <1>g, <2>1, <2>2, <2>3, <3>1, <1>b, <1>0, JoinSchedule DEF Joining!TypeOK
  <2>6. Joining!LeaveKnows'
    BY <1>g, <2>1, <2>2, <2>3, <2>4, JoinSchedule DEF Joining!LeaveKnows
  <2>7. Joining!JoinGives' /\ Joining!ServesOrLeft'
    BY <2>1, <1>g, <2>2, <2>4 DEF Joining!JoinGives, Joining!LeaveKnows, Joining!ServesOrLeft,
         Joining!LeaveCutsNoOne, Joining!JoinedServes
  <2> QED BY <2>5, <2>6, <2>7
<1>9. CASE Joining!LeaveStep \/ Joining!LeaveFails
  <2>1. /\ v8 = "leave" /\ v9 \in 3 .. 7 /\ Joining!Steps = Joining!LeaveSteps
        /\ UNCHANGED <<v4, v5, v6, v11, v12>>
    BY <1>9, <1>0, JoinSchedule DEF Joining!LeaveStep, Joining!LeaveFails, Joining!Removing,
         Joining!LeaveKnows, Joining!Steps
  <2>2. Joining!GoesOn \/ Joining!Over
    BY <1>9 DEF Joining!LeaveStep, Joining!LeaveFails
  <2>3. /\ v1' \subseteq v1 /\ v2' \subseteq v2 /\ v3' \in BOOLEAN /\ v7' \in BOOLEAN
        /\ v7' => v7
        /\ v4 /\ "pools" \in v1 => "pools" \in v1'
    <3>1. CASE Joining!LeaveFails
      BY <1>b, <3>1 DEF Joining!LeaveFails
    <3>2. CASE Joining!LeaveStep /\ Joining!At("service")
      <4>1. v7' = FALSE /\ v3' = FALSE
        BY <3>2 DEF Joining!LeaveStep
      <4> QED BY <3>2, <4>1 DEF Joining!LeaveStep
    <3>3. CASE Joining!LeaveStep /\ ~Joining!At("service")
      <4>1. v7' = v7
        BY <1>b, <3>3 DEF Joining!LeaveStep
      <4>2. Joining!Removes(Joining!Steps[v9])
        BY <3>3 DEF Joining!LeaveStep
      <4> QED BY <1>b, <4>1, <4>2 DEF Joining!Removes
    <3> QED BY <1>9, <3>1, <3>2, <3>3
  <2>4. Joining!TypeOK'
    BY <1>g, <2>1, <2>2, <2>3, <1>b, <1>0, JoinSchedule DEF Joining!TypeOK
  <2>5. Joining!LeaveKnows'
    <3>1. /\ v6' => v5'
          /\ v7' => v6'
          /\ v4' => "pools" \in v1'
      <4>1. (v6 => v5) /\ (v7 => v6) /\ (v4 => "pools" \in v1)
        BY DEF Joining!LeaveKnows
      <4> QED BY <2>1, <2>3, <4>1
    <3>2. /\ v8' = "none" <=> v9' = 0
          /\ v8' = "leave" => v9' =< 7 /\ v9' > 2
      BY <1>g, <2>1, <2>2
    <3>3. v4 => v6
      BY <2>1 DEF Joining!LeaveKnows
    <3>4. v11 => ~v4 /\ ~v6 /\ ~v5
      BY <2>1 DEF Joining!LeaveKnows
    <3> QED BY <2>1, <3>1, <3>2, <3>3, <3>4, JoinSchedule DEF Joining!LeaveKnows
  <2>6. Joining!JoinGives' /\ Joining!ServesOrLeft'
    BY <2>1, <1>g, <2>2, <2>3 DEF Joining!JoinGives, Joining!LeaveKnows, Joining!ServesOrLeft,
         Joining!LeaveCutsNoOne, Joining!JoinedServes
  <2> QED BY <2>4, <2>5, <2>6
<1> QED BY <1>1, <1>2, <1>3, <1>4, <1>5, <1>6, <1>7, <1>8, <1>9 DEF Joining!Next

(* Wherever a command fails, and however often they are run: a leave that   *)
(* Core took cuts no machine off, and a join that ended whole has given the *)
(* agent and the host timer the secrets of the tokens that stand.           *)
THEOREM HostServesOrLeft == Spec => []ServesOrLeft
<1> DEFINE Inv == component = "joining" => Serving
<1>1. Init => Inv
  BY HostAssumption, JoinBegins DEF Init, TakeTurns
<1>2. Inv /\ [Next]_hostVars => Inv'
  BY HostAssumption, TurnParts, JoinStepKeeps
<1>3. Inv => ServesOrLeft
  BY DEF ServesOrLeft, Serving
<1> QED BY <1>1, <1>2, <1>3, PTL DEF Spec

-----------------------------------------------------------------------------
(* First boot.  The shape v1, the power v2, the drive v3, what ran v4, the  *)
(* step v5, the status file v6, the login v7; of history, passed v8, whole  *)
(* v9; the list wanted v10, handed v11, admitted v12; what is said v13, and *)
(* the watch v14, v15, v16.                                                 *)

\* The inductive invariant: the file and the run keep to the steps passed.
Installing == Boot!TypeOK /\ Boot!RunFollows /\ Boot!DoneIsDone

StepNames == {"start", "join", "internet", "docker", "toolkit", "up", "finish"}

LEMMA OneStep == ASSUME NEW x \in StepNames PROVE <<x>> \in Seq(StepNames)
  OBVIOUS

LEMMA BootSequence == Boot!FirstBootAssumption /\ v1 \in BootShapes =>
  /\ Boot!Steps \in Seq(StepNames) /\ Len(Boot!Steps) \in Nat /\ Len(Boot!Steps) >= 2
  /\ Boot!Steps[1] = "start"
<1> SUFFICES ASSUME Boot!FirstBootAssumption, v1 \in BootShapes
             PROVE  /\ Boot!Steps \in Seq(StepNames) /\ Len(Boot!Steps) \in Nat /\
                         Len(Boot!Steps) >= 2
                    /\ Boot!Steps[1] = "start"
  OBVIOUS
<1>1. \A when, s : s \in Seq(StepNames) => Boot!If(when, s) \in Seq(StepNames)
  <2>1. <<>> \in Seq(StepNames)
    OBVIOUS
  <2> QED BY <2>1 DEF Boot!If
<1>2. /\ <<"start">> \in Seq(StepNames) /\ <<"join">> \in Seq(StepNames) /\
           <<"internet">> \in Seq(StepNames)
      /\ <<"docker">> \in Seq(StepNames) /\ <<"toolkit">> \in Seq(StepNames) /\
           <<"up">> \in Seq(StepNames)
      /\ <<"finish">> \in Seq(StepNames)
  BY OneStep DEF StepNames
<1>3. \A s, t \in Seq(StepNames) : s \o t \in Seq(StepNames) /\ Len(s \o t) = Len(s) + Len(t)
                                /\ (Len(s) > 0 => (s \o t)[1] = s[1])
  OBVIOUS
<1>4. Boot!Early(v1) \in Seq(StepNames) /\ Len(Boot!Early(v1)) >= 1 /\ Boot!Early(v1)[1] = "start"
  <2>1. Boot!If(v1.overlay, <<"join">>) \in Seq(StepNames)
    BY <1>1, <1>2
  <2> QED BY <1>2, <1>3, <2>1 DEF Boot!Early
<1>5. Boot!RecipeSteps(v1) \in Seq(StepNames) /\ Len(Boot!RecipeSteps(v1)) >= 1
  <2> DEFINE Docker == Boot!If(v1.containers, <<"docker">>)
             Toolkit == Boot!If(v1.gpu /\ v1.containers, <<"toolkit">>)
             Up == Boot!If(v1.containers, <<"up">>)
             Linux == <<"internet">> \o Docker \o Toolkit \o Up
             Before == Boot!If(v1.kind = "Linux", Linux)
  <2>1. Docker \in Seq(StepNames) /\ Toolkit \in Seq(StepNames) /\ Up \in Seq(StepNames)
    BY <1>1, <1>2
  <2>2. Linux \in Seq(StepNames)
    BY <1>2, <1>3, <2>1
  <2>3. Before \in Seq(StepNames)
    BY <1>1, <2>2
  <2>4. Boot!RecipeSteps(v1) = Before \o <<"finish">>
    BY DEF Boot!RecipeSteps
  <2> QED BY <1>2, <1>3, <2>3, <2>4
<1> QED BY <1>3, <1>4, <1>5 DEF Boot!Steps

LEMMA BootBegins == Boot!FirstBootAssumption /\ Boot!Init => Installing
<1> SUFFICES ASSUME Boot!FirstBootAssumption, Boot!Init PROVE Installing
  OBVIOUS
<1>1. v1 \in BootShapes
  BY DEF Boot!Init
<1>2. UnreadMax \in Nat /\ StreamMax \in Nat /\ MaxDrives \in Nat \ {0} /\ MaxLists \in Nat
  BY DEF Boot!FirstBootAssumption
<1>3. v9 \in BOOLEAN /\ v16 \in BOOLEAN
  BY DEF Boot!Init
<1>4. Boot!TypeOK
  BY <1>1, <1>2, <1>3, BootSequence DEF Boot!Init, Boot!TypeOK, Boot!NoFile, Boot!NothingSaid
<1>5. Boot!RunFollows /\ Boot!DoneIsDone
  BY DEF Boot!Init, Boot!RunFollows, Boot!DoneIsDone, Boot!NoFile, Boot!NothingSaid
<1> QED BY <1>4, <1>5 DEF Installing

LEMMA BootStepKeeps == Boot!FirstBootAssumption /\ Installing /\
   [Boot!Next]_(Boot!firstBootVars) => Installing'
<1> SUFFICES ASSUME Boot!FirstBootAssumption, Installing, [Boot!Next]_(Boot!firstBootVars)
   PROVE Installing'
  OBVIOUS
<1>0. Boot!TypeOK /\ Boot!RunFollows /\ Boot!DoneIsDone /\ v1 \in BootShapes
  BY DEF Installing, Boot!TypeOK
<1>a. UnreadMax \in Nat /\ StreamMax \in Nat /\ MaxDrives \in Nat \ {0} /\ MaxLists \in Nat
  BY DEF Boot!FirstBootAssumption
<1>s. Boot!Steps \in Seq(StepNames) /\ Len(Boot!Steps) \in Nat /\ Len(Boot!Steps) >= 2 /\
        Boot!Steps[1] = "start"
  BY <1>0, BootSequence
<1>1. CASE UNCHANGED Boot!firstBootVars
  <2>1. Boot!Steps' = Boot!Steps
    BY <1>1 DEF Boot!firstBootVars, Boot!Steps
  <2> QED BY <1>0, <1>1, <2>1 DEF Boot!firstBootVars, Installing, Boot!TypeOK, Boot!RunFollows,
       Boot!DoneIsDone
<1>2. CASE Boot!Guest /\ UNCHANGED Boot!agentVars /\ UNCHANGED v1
  <2>0. Boot!Steps' = Boot!Steps /\ UNCHANGED <<v10, v13, v14, v15, v16, v1>>
    BY <1>2 DEF Boot!agentVars, Boot!Steps
  <2>1. CASE Boot!Boots
    <3>1. /\ v2' = "booting" /\ UNCHANGED <<v3, v4, v5, v7, v8, v9, v11, v12>>
          /\ v6' \in {v6, [step |-> 1, rc |-> "none"]}
      BY <2>1 DEF Boot!Boots
    <3>2. Boot!TypeOK'
      BY <1>0, <1>s, <2>0, <3>1 DEF Boot!TypeOK
    <3> QED BY <1>0, <2>0, <3>1, <3>2 DEF Installing, Boot!RunFollows, Boot!DoneIsDone
  <2>2. CASE Boot!RunsFirstBoot
    <3>1. UNCHANGED <<v3, v7, v9, v11, v12>>
      BY <2>2 DEF Boot!RunsFirstBoot
    <3>2. CASE v2' = "up" /\ UNCHANGED <<v4, v5, v6, v8>>
      BY <1>0, <2>0, <3>1, <3>2 DEF Installing, Boot!TypeOK, Boot!RunFollows, Boot!DoneIsDone
    <3>3. CASE v2' = "installing" /\ v4' = Boot!Instance /\ v5' = Boot!FirstOfRun /\
                 v6' = Boot!Announced(Boot!FirstOfRun)
               /\ v8' = IF v1.kind = "Linux" THEN {"start"} ELSE {}
      <4>1. Boot!FirstOfRun \in 1 .. Len(Boot!Steps) /\ Boot!Instance \in 1 .. MaxDrives /\
              Boot!FirstOfRun \in {1, 2}
        BY <1>0, <1>a, <1>s DEF Boot!FirstOfRun, Boot!Instance, Boot!TypeOK
      <4>2. v8' \subseteq {Boot!Steps[i] : i \in 1 .. Len(Boot!Steps)}
        <5>1. "start" \in {Boot!Steps[i] : i \in 1 .. Len(Boot!Steps)}
          BY <1>s
        <5> QED BY <3>3, <5>1
      <4>3. v6' = [step |-> Boot!FirstOfRun, rc |-> "none"]
        BY <3>3 DEF Boot!Announced
      <4>4. Boot!TypeOK'
        BY <1>0, <1>a, <2>0, <3>1, <3>3, <4>1, <4>2, <4>3 DEF Boot!TypeOK
      <4>5. {Boot!Steps[i] : i \in 1 .. Boot!FirstOfRun - 1} \subseteq v8'
        <5>1. CASE v1.kind = "Linux"
          BY <1>s, <3>3, <5>1 DEF Boot!FirstOfRun
        <5>2. CASE v1.kind # "Linux"
          BY <5>2 DEF Boot!FirstOfRun
        <5> QED BY <5>1, <5>2
      <4> QED BY <1>0, <2>0, <3>1, <3>3, <4>1, <4>3, <4>4, <4>5 DEF Installing, Boot!RunFollows,
           Boot!DoneIsDone
    <3> QED BY <2>2, <3>2, <3>3 DEF Boot!RunsFirstBoot
  <2>3. ASSUME NEW well \in BOOLEAN, Boot!StepEnds(well) PROVE Installing'
    <3>1. /\ v2 = "installing" /\ UNCHANGED <<v3, v4, v7, v11, v12>>
          /\ v8' = IF well THEN v8 \cup {Boot!Steps[v5]} ELSE v8
      BY <2>3 DEF Boot!StepEnds
    <3>2. v5 \in 1 .. Len(Boot!Steps) /\ {Boot!Steps[i] : i \in 1 .. v5 - 1} \ {"join"} \subseteq v8
      BY <1>0, <1>s, <3>1 DEF Boot!TypeOK, Boot!RunFollows
    <3>3. v8' \subseteq {Boot!Steps[i] : i \in 1 .. Len(Boot!Steps)}
      BY <1>0, <3>1, <3>2 DEF Boot!TypeOK
    <3>4. well \/ Boot!Steps[v5] = "join" =>
            {Boot!Steps[i] : i \in 1 .. v5} \ {"join"} \subseteq v8'
      BY <1>s, <3>1, <3>2
    <3>5. CASE (~well /\ Boot!Ends(Boot!Steps[v5])) \/ v5 = Len(Boot!Steps)
      <4>1. v2' = "up" /\ v5' = 0 /\ v6' = Boot!Trapped(well)
            /\ v9' = (v9 \/ {Boot!Steps[i] : i \in 1 .. Len(Boot!Steps)} \ {"join"} \subseteq v8')
        BY <2>3, <3>5 DEF Boot!StepEnds
      <4>2. v6' = [step |-> IF well THEN 0 ELSE v5, rc |-> IF well THEN "ok" ELSE "failed"]
        BY <4>1 DEF Boot!Trapped
      <4>3. v9' \in BOOLEAN /\ (v9 => v9')
        BY <4>1
      <4>4. well => v9'
        BY <3>4, <3>5, <4>1
      <4>5. Boot!TypeOK'
        BY <1>0, <1>s, <2>0, <3>1, <3>2, <3>3, <4>1, <4>2, <4>3 DEF Boot!TypeOK
      <4>6. Boot!RunFollows'
        BY <4>1, <4>2, <4>4 DEF Boot!RunFollows
      <4>7. Boot!DoneIsDone'
        BY <1>0, <2>0, <3>1, <4>3 DEF Boot!DoneIsDone
      <4> QED BY <4>5, <4>6, <4>7 DEF Installing
    <3>6. CASE ~((~well /\ Boot!Ends(Boot!Steps[v5])) \/ v5 = Len(Boot!Steps))
      <4>1. v5' = v5 + 1 /\ v6' = [step |-> v5 + 1, rc |-> "none"] /\ UNCHANGED <<v2, v9>>
        BY <2>3, <3>6 DEF Boot!StepEnds, Boot!Announced
      <4>2. {Boot!Steps[i] : i \in 1 .. v5} \ {"join"} \subseteq v8'
        BY <3>4, <3>6 DEF Boot!Ends
      <4>3. v5 + 1 \in 1 .. Len(Boot!Steps) /\ (v5 + 1) - 1 = v5
        BY <1>s, <3>2, <3>6
      <4>4. Boot!TypeOK'
        BY <1>0, <1>s, <2>0, <3>1, <3>3, <4>1, <4>3 DEF Boot!TypeOK
      <4>5. Boot!RunFollows'
        BY <2>0, <4>1, <4>2, <4>3 DEF Boot!RunFollows
      <4>6. Boot!DoneIsDone'
        BY <1>0, <2>0, <3>1, <4>1 DEF Boot!DoneIsDone
      <4> QED BY <4>4, <4>5, <4>6 DEF Installing
    <3> QED BY <3>5, <3>6
  <2>4. CASE Boot!Mints
    <3>1. /\ v7 # "whole" /\ v7' \in {"half", "whole"}
          /\ UNCHANGED <<v2, v3, v4, v5, v6, v8, v9, v11, v12>>
      BY <2>4 DEF Boot!Mints
    <3>2. Boot!TypeOK' /\ Boot!RunFollows'
      BY <1>0, <2>0, <3>1 DEF Boot!TypeOK, Boot!RunFollows
    <3> QED BY <1>0, <2>0, <3>1, <3>2 DEF Installing, Boot!DoneIsDone
  <2>5. CASE Boot!Stops
    <3>1. /\ v2' = "off" /\ v5' = 0 /\ UNCHANGED <<v3, v4, v7, v8, v9, v11, v12>>
          /\ v6' \in {v6, [step |-> v5, rc |-> "failed"]}
      BY <2>5 DEF Boot!Stops, Boot!Trapped
    <3>2. Boot!TypeOK'
      BY <1>0, <1>s, <2>0, <3>1 DEF Boot!TypeOK
    <3> QED BY <1>0, <2>0, <3>1, <3>2 DEF Installing, Boot!RunFollows, Boot!DoneIsDone
  <2>6. CASE Boot!Converges
    <3>1. v12' = v11 /\ UNCHANGED <<v2, v3, v4, v5, v6, v7, v8, v9, v11>>
      BY <2>6 DEF Boot!Converges
    <3> QED BY <1>0, <2>0, <3>1 DEF Installing, Boot!TypeOK, Boot!RunFollows, Boot!DoneIsDone
  <2> QED BY <1>2, <2>1, <2>2, <2>3, <2>4, <2>5, <2>6 DEF Boot!Guest
<1>3. CASE Boot!Refreshes /\ UNCHANGED v1
  <2>1. Boot!Steps' = Boot!Steps /\ v3' \in 1 .. MaxDrives
    BY <1>0, <1>a, <1>3 DEF Boot!Refreshes, Boot!Steps, Boot!TypeOK
  <2> QED BY <1>0, <1>3, <2>1 DEF Boot!Refreshes, Installing, Boot!TypeOK, Boot!RunFollows,
       Boot!DoneIsDone
<1>4. CASE Boot!Pass /\ UNCHANGED v1
  <2>1. Boot!Steps' = Boot!Steps /\ UNCHANGED <<v2, v3, v4, v5, v6, v7, v8, v9, v10, v12, v1>>
    BY <1>4 DEF Boot!Pass, Boot!Steps
  <2>2. /\ v11' \in 0 .. MaxLists
        /\ v13' \in [progress : {"none", "running", "done", "error"}, login : BOOLEAN, admits :
             0 .. MaxLists]
        /\ v13'.progress = "done" => v6.rc = "ok"
        /\ v13'.login => v7 = "whole"
    <3>1. CASE v13' = Boot!NothingSaid /\ UNCHANGED v11
      BY <1>0, <1>a, <3>1 DEF Boot!NothingSaid, Boot!TypeOK
    <3>2. CASE Boot!Progress = "done" /\ Boot!HandsOver
      <4>1. v6.rc = "ok"
        BY <1>0, <3>2 DEF Boot!Progress, Boot!TypeOK
      <4>2. v11' \in {v11, v10} /\ v13' \in [progress : {"done"}, login : Boot!ReadLogin, admits :
              Boot!ReadAdmits]
        BY <3>2 DEF Boot!HandsOver
      <4>3. Boot!ReadLogin \subseteq BOOLEAN /\ Boot!ReadAdmits \subseteq 0 .. MaxLists
        BY <1>0, <1>a DEF Boot!ReadLogin, Boot!ReadAdmits, Boot!TypeOK
      <4>4. v13'.login \in Boot!ReadLogin
        BY <4>2
      <4>5. v13'.login => v7 = "whole"
        BY <4>4 DEF Boot!ReadLogin
      <4> QED BY <1>0, <4>1, <4>2, <4>3, <4>5 DEF Boot!TypeOK
    <3>3. CASE Boot!Progress # "done" /\ Boot!Progress # "none" /\
                 v13' = [Boot!NothingSaid EXCEPT !.progress = Boot!Progress] /\ UNCHANGED v11
      <4>1. Boot!Progress \in {"running", "error"}
        BY <1>0, <3>3 DEF Boot!Progress, Boot!TypeOK
      <4>2. v13' = [progress |-> Boot!Progress, login |-> FALSE, admits |-> 0]
        BY <3>3 DEF Boot!NothingSaid
      <4>3. ~v13'.login /\ v13'.progress # "done"
        BY <4>1, <4>2
      <4>4. v13' \in [progress : {"none", "running", "done", "error"}, login : BOOLEAN, admits :
              0 .. MaxLists]
        BY <1>a, <4>1, <4>2
      <4>5. v11' \in 0 .. MaxLists
        BY <1>0, <3>3 DEF Boot!TypeOK
      <4> QED BY <4>3, <4>4, <4>5
    <3> QED BY <1>4, <3>1, <3>2, <3>3 DEF Boot!Pass
  <2>3. /\ v15' \in 0 .. StreamMax + 1 \cup {Boot!NoClock} /\
             v14' \in 0 .. UnreadMax + 1 \cup {Boot!NoClock}
        /\ v16' \in BOOLEAN
    <3>1. PICK up \in BOOLEAN : Boot!Watches(up)
      BY <1>4 DEF Boot!Pass
    <3>2. /\ Boot!Later(v15, StreamMax) \in 0 .. StreamMax + 1 \cup {Boot!NoClock}
          /\ Boot!Later(v14, UnreadMax) \in 0 .. UnreadMax + 1 \cup {Boot!NoClock}
      BY <1>0, <1>a DEF Boot!Later, Boot!NoClock, Boot!TypeOK
    <3>3. v16' \in BOOLEAN
      BY <3>1 DEF Boot!Watches
    <3> QED BY <3>1, <3>2, <3>3 DEF Boot!Watches
  <2>4. Boot!TypeOK'
    BY <1>0, <2>1, <2>2, <2>3 DEF Boot!TypeOK, Boot!NoClock
  <2>5. Boot!RunFollows'
    BY <1>0, <2>1 DEF Boot!RunFollows
  <2>6. Boot!DoneIsDone'
    BY <1>0, <2>1, <2>2 DEF Boot!RunFollows, Boot!DoneIsDone
  <2> QED BY <2>4, <2>5, <2>6 DEF Installing
<1>5. CASE (Boot!Restarts \/ Boot!Sends) /\ UNCHANGED v1
  <2>1. /\ Boot!Steps' = Boot!Steps /\
             UNCHANGED <<v2, v3, v4, v5, v6, v7, v8, v9, v11, v12, v13, v1>>
        /\ v10' \in 0 .. MaxLists /\ v16' \in BOOLEAN
    <3>1. Boot!Steps' = Boot!Steps
      BY <1>5 DEF Boot!Steps
    <3>2. v16' \in {v16, FALSE}
      BY <1>5 DEF Boot!Restarts, Boot!Sends
    <3>3. v16' \in BOOLEAN
      BY <1>0, <3>2 DEF Boot!TypeOK
    <3>4. v10' \in 0 .. MaxLists
      <4>1. CASE Boot!Restarts
        BY <1>0, <4>1 DEF Boot!Restarts, Boot!TypeOK
      <4>2. CASE Boot!Sends
        BY <1>0, <1>a, <4>2 DEF Boot!Sends, Boot!TypeOK
      <4> QED BY <1>5, <4>1, <4>2
    <3>5. UNCHANGED <<v2, v3, v4, v5, v6, v7, v8, v9, v11, v12, v13, v1>>
      BY <1>5 DEF Boot!Restarts, Boot!Sends
    <3> QED BY <3>1, <3>3, <3>4, <3>5
  <2>2. v14' \in {v14, Boot!NoClock} /\ v15' \in {v15, Boot!NoClock}
    BY <1>5 DEF Boot!Restarts, Boot!Sends
  <2> QED BY <1>0, <2>1, <2>2 DEF Installing, Boot!TypeOK, Boot!RunFollows, Boot!DoneIsDone,
       Boot!NoClock
<1> QED BY <1>1, <1>2, <1>3, <1>4, <1>5 DEF Boot!Next

(* For every bound on drives, lists and passes: a machine said installed    *)
(* had a run of which every step but the joining of a network ended well,   *)
(* and a login said whole is whole.                                         *)
THEOREM InstalledIsWhole == Spec => []DoneIsDone
<1> DEFINE Inv == component = "boot" => Installing
<1>1. Init => Inv
  BY HostAssumption, BootBegins DEF Init, TakeTurns
<1>2. Inv /\ [Next]_hostVars => Inv'
  BY HostAssumption, TurnParts, BootStepKeeps
<1>3. Inv => DoneIsDone
  BY DEF DoneIsDone, Installing
<1> QED BY <1>1, <1>2, <1>3, PTL DEF Spec

-----------------------------------------------------------------------------
(* The card on offer.  Of each machine its power v1 and whether it has the  *)
(* card v2; whose the card is for Core v3, and which machines it ends v4;   *)
(* the offer v5, the survey under way v6 and who held the card throughout   *)
(* it v7; the build v8; and what is left half-made and answers lost, v9,    *)
(* v10.                                                                     *)

\* The sizes of sets that the two parts speak of are those of FiniteSets.
LEMMA SizesAgree ==
  \A S : /\ Sale!Cardinality(S) = Cardinality(S)
         /\ Remains!Cardinality(S) = Cardinality(S)
         /\ Remains!IsFiniteSet(S) = IsFiniteSet(S)
<1>1. \A S : Sale!Cardinality(S) = Cardinality(S)
  BY DEF Sale!Cardinality, Cardinality
<1>2. \A S : Remains!Cardinality(S) = Cardinality(S)
  BY DEF Remains!Cardinality, Cardinality
<1>3. \A S : Remains!IsFiniteSet(S) = IsFiniteSet(S)
  BY DEF Remains!IsFiniteSet, IsFiniteSet
<1> QED BY <1>1, <1>2, <1>3

\* The inductive invariant: what a survey and a build under way know.
Selling == Sale!TypeOK /\ Sale!SurveyTells /\ Sale!BuildKnows /\ Sale!OneCarries

\* The records a survey may be.
Surveys ==
  [ask : {"nobody", "report", "place"}, accounts : Hosted \cup {Unsold},
   runs : SUBSET Sale!Guests, unread : SUBSET Sale!Guests, complete : BOOLEAN,
   held : BOOLEAN, accounted : BOOLEAN, blocked : BOOLEAN, use : 0 .. Memory, shown : BOOLEAN]

LEMMA SaleBegins == Sale!OfferAssumption /\ Sale!Init => Selling
<1> SUFFICES ASSUME Sale!OfferAssumption, Sale!Init PROVE Selling
  OBVIOUS
<1>1. Sale!Unasked \in Surveys
  BY DEF Sale!Unasked, Surveys, Sale!OfferAssumption
<1>2. Sale!TypeOK
  <2>1. v1 \in [Sale!Guests -> {"none", "stopped", "running"}] /\ v2 \in [Sale!Guests -> BOOLEAN]
    BY DEF Sale!Init
  <2>2. v8 \in [of : Hosted \cup {Unsold}, at : {"rest", "look", "clone", "equip", "start", "undo"}]
    BY DEF Sale!Init, Sale!NotBuilding
  <2>3. v10 \in 0 .. MaxGlitches
    BY DEF Sale!Init, Sale!OfferAssumption
  <2> QED BY <1>1, <2>1, <2>2, <2>3 DEF Sale!Init, Sale!TypeOK, Surveys
<1>3. Sale!SurveyTells
  BY DEF Sale!Init, Sale!SurveyTells, Sale!Unasked
<1>4. Sale!BuildKnows /\ Sale!OneCarries
  BY DEF Sale!Init, Sale!BuildKnows, Sale!OneCarries, Sale!Unasked, Sale!NotBuilding, Sale!Guests
<1> QED BY <1>2, <1>3, <1>4 DEF Selling

LEMMA ListedIs ==
  ASSUME Sale!OfferAssumption, Sale!TypeOK, NEW ask \in {"report", "place"}
  PROVE  /\ Sale!Listed(ask) \in Surveys
         /\ Sale!Listed(ask).ask = ask /\
              Sale!Listed(ask).accounts = IF ask = "report" THEN v3 ELSE Unsold
         /\ Sale!Listed(ask).runs = {g \in Sale!There : v1[g] = "running"} /\
              Sale!Listed(ask).unread = Sale!There
<1> DEFINE who == IF ask = "report" THEN v3 ELSE Unsold
           up == {g \in Sale!There : v1[g] = "running"}
<1>1. who \in Hosted \cup {Unsold} /\ up \in SUBSET Sale!Guests /\ Sale!There \in SUBSET Sale!Guests
  BY DEF Sale!TypeOK, Sale!There
<1>2. Sale!Unasked \in Surveys
  BY DEF Sale!Unasked, Surveys, Sale!OfferAssumption
<1>3. Sale!Listed(ask) = [Sale!Unasked EXCEPT !.ask = ask, !.accounts = who, !.runs = up,
        !.unread = Sale!There]
  BY DEF Sale!Listed
<1> HIDE DEF who, up
<1>4. /\ Sale!Listed(ask) \in Surveys
      /\ Sale!Listed(ask).ask = ask /\ Sale!Listed(ask).accounts = who
      /\ Sale!Listed(ask).runs = up /\ Sale!Listed(ask).unread = Sale!There
  BY <1>1, <1>2, <1>3 DEF Surveys
<1> QED BY <1>4 DEF who, up

LEMMA ObservedIs ==
  ASSUME Sale!OfferAssumption, Sale!TypeOK, NEW g \in v6.unread
  PROVE  /\ Sale!Observed(g) \in Surveys
         /\ Sale!Observed(g).ask = v6.ask /\ Sale!Observed(g).accounts = v6.accounts
         /\ Sale!Observed(g).runs = v6.runs /\ Sale!Observed(g).unread = v6.unread \ {g}
         /\ Sale!Observed(g).complete = v6.complete /\ Sale!Observed(g).shown = v6.shown
         /\ v6.blocked => Sale!Observed(g).blocked
         /\ v2[g] /\ g # v6.accounts /\ (g \in v6.runs \/ g \in Hosted) => Sale!Observed(g).blocked
         /\ Sale!Observed(g).use = IF g = Owner /\ g \in v6.runs THEN Uses ELSE v6.use
<1> DEFINE hold == v6.held \/ (v2[g] /\ g \in v6.runs)
           sure == v6.accounted \/ (v2[g] /\ g = v6.accounts)
           bar == v6.blocked \/ (v2[g] /\ ((g \in v6.runs /\ v6.held)
                                                    \/ (g # v6.accounts /\ Sale!Claims(g))))
           uses == IF g = Owner /\ g \in v6.runs THEN Uses ELSE v6.use
           rest == v6.unread \ {g}
<1>1. v6 \in Surveys /\ g \in Sale!Guests
  BY DEF Sale!TypeOK, Surveys
<1>2. uses \in 0 .. Memory
  BY <1>1 DEF Sale!OfferAssumption, Surveys
<1>3. hold \in BOOLEAN /\ sure \in BOOLEAN /\ bar \in BOOLEAN /\ rest \in SUBSET Sale!Guests
  BY <1>1 DEF Surveys
<1>4. Sale!Observed(g) = [v6 EXCEPT !.unread = rest, !.held = hold, !.accounted = sure,
                                   !.blocked = bar, !.use = uses]
  BY DEF Sale!Observed
<1>5. v6.blocked => bar
  OBVIOUS
<1>6. v2[g] /\ g # v6.accounts /\ (g \in v6.runs \/ g \in Hosted) => bar
  BY DEF Sale!Claims
<1> HIDE DEF hold, sure, bar, uses, rest
<1>m. Sale!Observed(g) \in Surveys
  BY <1>1, <1>2, <1>3, <1>4 DEF Surveys
<1>7. /\ Sale!Observed(g).ask = v6.ask /\ Sale!Observed(g).accounts = v6.accounts
      /\ Sale!Observed(g).runs = v6.runs /\ Sale!Observed(g).unread = rest
      /\ Sale!Observed(g).complete = v6.complete /\ Sale!Observed(g).shown = v6.shown
      /\ Sale!Observed(g).blocked = bar /\ Sale!Observed(g).use = uses
  BY <1>1, <1>2, <1>3, <1>4 DEF Surveys
<1>8. rest = v6.unread \ {g} /\ uses = IF g = Owner /\ g \in v6.runs THEN Uses ELSE v6.use
  BY DEF rest, uses
<1> QED BY <1>m, <1>5, <1>6, <1>7, <1>8

LEMMA UnreadableIs ==
  ASSUME Sale!TypeOK, NEW g \in v6.unread
  PROVE  /\ Sale!Unreadable(g) \in Surveys
         /\ Sale!Unreadable(g).ask = v6.ask /\ Sale!Unreadable(g).accounts = v6.accounts
         /\ Sale!Unreadable(g).runs = v6.runs /\ Sale!Unreadable(g).unread = v6.unread \ {g}
         /\ ~Sale!Unreadable(g).complete
         /\ g = Owner => ~Sale!Unreadable(g).shown
         /\ ~v6.shown => ~Sale!Unreadable(g).shown
         /\ Sale!Unreadable(g).use = v6.use
<1> DEFINE sized == v6.shown /\ g # Owner
           rest == v6.unread \ {g}
<1>1. v6 \in Surveys
  BY DEF Sale!TypeOK, Surveys
<1>2. sized \in BOOLEAN /\ rest \in SUBSET Sale!Guests
  BY <1>1 DEF Surveys
<1>3. Sale!Unreadable(g) = [v6 EXCEPT !.unread = rest, !.complete = FALSE, !.shown = sized]
  BY DEF Sale!Unreadable
<1>4. (g = Owner => ~sized) /\ (~v6.shown => ~sized)
  OBVIOUS
<1> HIDE DEF sized, rest
<1>5. /\ Sale!Unreadable(g) \in Surveys
      /\ Sale!Unreadable(g).ask = v6.ask /\ Sale!Unreadable(g).accounts = v6.accounts
      /\ Sale!Unreadable(g).runs = v6.runs /\ Sale!Unreadable(g).unread = rest
      /\ Sale!Unreadable(g).complete = FALSE
      /\ Sale!Unreadable(g).shown = sized /\ Sale!Unreadable(g).use = v6.use
  BY <1>1, <1>2, <1>3 DEF Surveys
<1>6. rest = v6.unread \ {g}
  BY DEF rest
<1> QED BY <1>4, <1>5, <1>6

LEMMA SaleType == Sale!OfferAssumption /\ Sale!TypeOK /\ Sale!BuildKnows /\ Sale!Next =>
   Sale!TypeOK'
<1> SUFFICES ASSUME Sale!OfferAssumption, Sale!TypeOK, Sale!BuildKnows, Sale!Next PROVE Sale!TypeOK'
  OBVIOUS
<1>a. /\ v1 \in [Sale!Guests -> {"none", "stopped", "running"}] /\ v2 \in [Sale!Guests -> BOOLEAN]
      /\ v3 \in Hosted \cup {Unsold} /\ v4 \in BOOLEAN /\ v5 \in BOOLEAN
      /\ v6 \in Surveys /\ v7 \in SUBSET Sale!Guests /\ v9 \in SUBSET Hosted
      /\ v8 \in [of : Hosted \cup {Unsold}, at :
           {"rest", "look", "clone", "equip", "start", "undo"}]
      /\ v10 \in 0 .. MaxGlitches
  BY DEF Sale!TypeOK, Surveys
<1>b. Sale!MayOffer \in BOOLEAN
  BY DEF Sale!MayOffer
<1>c. (UNCHANGED v10 \/ Sale!Glitch) => v10' \in 0 .. MaxGlitches
  BY <1>a DEF Sale!Glitch, Sale!OfferAssumption
<1>d. Sale!Unasked \in Surveys /\
        Sale!NotBuilding \in [of : Hosted \cup {Unsold}, at :
           {"rest", "look", "clone", "equip", "start", "undo"}]
  BY DEF Sale!Unasked, Surveys, Sale!NotBuilding, Sale!OfferAssumption
<1>e. Sale!There' \subseteq Sale!Guests /\ Sale!Holding' \subseteq Sale!Guests
  BY DEF Sale!There, Sale!Holding
<1>f. v7' \in SUBSET Sale!Guests
  BY <1>a, <1>e DEF Sale!Next
<1>1. CASE Sale!OwnerActs
  <2>1. v1' \in [Sale!Guests -> {"none", "stopped", "running"}] /\ v2' \in [Sale!Guests -> BOOLEAN]
    BY <1>1, <1>a DEF Sale!OwnerActs, Sale!Starts, Sale!Guests
  <2> QED BY <1>1, <1>a, <1>f, <2>1 DEF Sale!OwnerActs, Sale!TypeOK, Surveys
<1>2. CASE Sale!CoreSells
  <2>1. v3' \in Hosted \cup {Unsold} /\ v4' \in BOOLEAN
    BY <1>2, <1>a DEF Sale!CoreSells, Sale!Sells, Sale!AsksEnd, Sale!HasItBack
  <2> QED BY <1>2, <1>a, <1>f, <2>1 DEF Sale!CoreSells, Sale!TypeOK, Surveys
<1>3. CASE Sale!Begin
  <2>1. v6' \in Surveys
    BY <1>3, ListedIs DEF Sale!Begin, Sale!BeginReport, Sale!BeginPlace
  <2>2. v8' \in [of : Hosted \cup {Unsold}, at :
          {"rest", "look", "clone", "equip", "start", "undo"}]
    BY <1>3, <1>a DEF Sale!Begin, Sale!BeginReport, Sale!BeginPlace
  <2> QED BY <1>3, <1>a, <1>f, <2>1, <2>2 DEF Sale!Begin, Sale!TypeOK, Surveys
<1>4. CASE Sale!Report
  <2>1. v6' \in Surveys /\ v5' \in BOOLEAN
    BY <1>4, <1>a, <1>b, <1>d DEF Sale!Report
  <2>2. v10' \in 0 .. MaxGlitches
    BY <1>4, <1>c DEF Sale!Report
  <2> QED BY <1>4, <1>a, <1>f, <2>1, <2>2 DEF Sale!Report, Sale!TypeOK, Surveys
<1>5. CASE Sale!Place
  <2>1. v8' \in [of : Hosted \cup {Unsold}, at :
          {"rest", "look", "clone", "equip", "start", "undo"}]
    BY <1>5, <1>a, <1>d DEF Sale!Place
  <2> QED BY <1>5, <1>a, <1>d, <1>f, <2>1 DEF Sale!Place, Sale!TypeOK, Surveys
<1>6. CASE Sale!Create
  <2>1. v1' \in [Sale!Guests -> {"none", "stopped", "running"}]
    BY <1>6, <1>a DEF Sale!Create, Sale!Clone, Sale!Equip, Sale!Fails
  <2>2. v2' \in [Sale!Guests -> BOOLEAN]
    BY <1>6, <1>a DEF Sale!Create, Sale!Clone, Sale!Equip, Sale!Fails
  <2>3. v8' \in [of : Hosted \cup {Unsold}, at :
          {"rest", "look", "clone", "equip", "start", "undo"}]
    BY <1>6, <1>a, <1>d DEF Sale!Create, Sale!Clone, Sale!Equip, Sale!Fails
  <2>4. v10' \in 0 .. MaxGlitches
    BY <1>6, <1>c DEF Sale!Create, Sale!Clone, Sale!Equip, Sale!Fails
  <2> QED BY <1>6, <1>a, <1>f, <2>1, <2>2, <2>3, <2>4 DEF Sale!Create, Sale!TypeOK, Surveys
<1>7. CASE Sale!Undo
  <2>1. v1' \in [Sale!Guests -> {"none", "stopped", "running"}] /\ v2' \in [Sale!Guests -> BOOLEAN]
    BY <1>7, <1>a DEF Sale!Undo, Sale!Destroyed
  <2>2. v9' \in SUBSET Hosted
    BY <1>7, <1>a DEF Sale!Undo, Sale!BuildKnows
  <2>3. v10' \in 0 .. MaxGlitches
    BY <1>7, <1>c DEF Sale!Undo
  <2> QED BY <1>7, <1>a, <1>d, <1>f, <2>1, <2>2, <2>3 DEF Sale!Undo, Sale!TypeOK, Surveys
<1>8. ASSUME NEW g \in Sale!Guests, Sale!Observe(g) PROVE Sale!TypeOK'
  <2>1. v6' \in Surveys
    BY <1>8, ObservedIs, UnreadableIs DEF Sale!Observe
  <2>2. v10' \in 0 .. MaxGlitches
    BY <1>8, <1>c DEF Sale!Observe
  <2> QED BY <1>8, <1>a, <1>f, <2>1, <2>2 DEF Sale!Observe, Sale!TypeOK, Surveys
<1>9. ASSUME NEW m \in Hosted, Sale!Start(m) PROVE Sale!TypeOK'
  <2>1. v1' \in [Sale!Guests -> {"none", "stopped", "running"}]
    BY <1>9, <1>a DEF Sale!Start, Sale!Starts
  <2>2. v8' \in [of : Hosted \cup {Unsold}, at :
          {"rest", "look", "clone", "equip", "start", "undo"}]
    BY <1>9, <1>a, <1>d DEF Sale!Start, Sale!Refused, Sale!Done
  <2> QED BY <1>9, <1>a, <1>f, <2>1, <2>2 DEF Sale!Start, Sale!TypeOK, Surveys
<1>10. ASSUME NEW m \in Hosted, Sale!Settle(m) PROVE Sale!TypeOK'
  <2>1. v1' \in [Sale!Guests -> {"none", "stopped", "running"}] /\ v2' \in [Sale!Guests -> BOOLEAN]
    BY <1>10, <1>a DEF Sale!Settle, Sale!Destroyed
  <2> QED BY <1>10, <1>a, <1>f, <2>1 DEF Sale!Settle, Sale!TypeOK, Surveys
<1> QED BY <1>1, <1>2, <1>3, <1>4, <1>5, <1>6, <1>7, <1>8, <1>9, <1>10 DEF Sale!Next, Sale!Step

LEMMA SurveyTellsStep ==
  Sale!OfferAssumption /\ Sale!TypeOK /\ Sale!SurveyTells /\ Sale!Next => Sale!SurveyTells'
<1> SUFFICES ASSUME Sale!OfferAssumption, Sale!TypeOK, Sale!SurveyTells, Sale!Next
   PROVE Sale!SurveyTells'
  OBVIOUS
<1>a. v7' = IF v6'.ask = "nobody" THEN {}
                 ELSE IF v6.ask = "nobody" THEN Sale!Holding' ELSE v7 \cap Sale!Holding'
  BY DEF Sale!Next
<1>1. CASE UNCHANGED v6
  BY <1>1, <1>a DEF Sale!SurveyTells
<1>2. CASE v6' = Sale!Unasked
  BY <1>2 DEF Sale!SurveyTells, Sale!Unasked
<1>3. ASSUME Sale!Begin PROVE Sale!SurveyTells'
  <2>1. PICK ask \in {"report", "place"} : v6' = Sale!Listed(ask)
    BY <1>3 DEF Sale!Begin, Sale!BeginReport, Sale!BeginPlace
  <2>2. v6.ask = "nobody" /\ UNCHANGED <<v1, v2>>
    BY <1>3 DEF Sale!Begin, Sale!BeginReport, Sale!BeginPlace
  <2>3. v6'.ask # "nobody" /\ v6'.unread = Sale!There /\
          v6'.runs = {g \in Sale!There : v1[g] = "running"}
    BY <2>1, ListedIs
  <2>4. v7' = Sale!Holding'
    BY <1>a, <2>2, <2>3
  <2>5. ASSUME NEW g \in v7'
        PROVE  g \in Sale!Holding' /\ (g \in Hosted \/ g \in v6'.runs) /\ g \in v6'.unread
    BY <2>2, <2>3, <2>4, <2>5 DEF Sale!Holding, Sale!There
  <2> QED BY <2>3, <2>5 DEF Sale!SurveyTells
<1>4. ASSUME NEW g \in Sale!Guests, Sale!Observe(g) PROVE Sale!SurveyTells'
  <2>1. g \in v6.unread /\ UNCHANGED <<v1, v2>>
    BY <1>4 DEF Sale!Observe
  <2>2. v6' = Sale!Observed(g) \/ v6' = Sale!Unreadable(g)
    BY <1>4 DEF Sale!Observe
  <2>3. v6'.ask = v6.ask /\ v6'.accounts = v6.accounts /\ v6'.runs = v6.runs
        /\ v6'.unread = v6.unread \ {g}
    BY <2>1, <2>2, ObservedIs, UnreadableIs
  <2>4. SUFFICES ASSUME v6.ask # "nobody" PROVE Sale!SurveyTells'
    BY <2>3 DEF Sale!SurveyTells
  <2>5. v7' \subseteq v7 /\ v7' \subseteq Sale!Holding'
    BY <1>a, <2>3, <2>4
  <2>6. ASSUME NEW h \in v7' PROVE h \in v6'.unread \/ ~v6'.complete \/ v6'.blocked
    <3>1. h \in v7 /\ h \in Sale!Holding /\ (h \in Hosted \/ h \in v6.runs)
          /\ (h \in v6.unread \/ ~v6.complete \/ v6.blocked)
      BY <2>4, <2>5, <2>6 DEF Sale!SurveyTells
    <3>2. v2[h] /\ h # v6.accounts
      BY <3>1 DEF Sale!Holding
    <3> QED BY <2>1, <2>2, <2>3, <3>1, <3>2, ObservedIs, UnreadableIs
  <2>7. Owner \in v6'.runs => Owner \in v6'.unread \/ ~v6'.shown \/ v6'.use = Uses
    BY <2>1, <2>2, <2>3, <2>4, ObservedIs, UnreadableIs DEF Sale!SurveyTells
  <2>8. \A h \in v7' : h \in Hosted \/ h \in v6'.runs
    BY <2>3, <2>4, <2>5 DEF Sale!SurveyTells
  <2> QED BY <2>3, <2>5, <2>6, <2>7, <2>8 DEF Sale!SurveyTells
<1> QED BY <1>1, <1>2, <1>3, <1>4 DEF Sale!Next, Sale!Step, Sale!OwnerActs, Sale!CoreSells,
     Sale!Report, Sale!Place, Sale!Create, Sale!Undo, Sale!Start, Sale!Settle

LEMMA Placed ==
  Sale!TypeOK /\ Sale!SurveyTells /\ Sale!BuildKnows /\ v6.ask = "place" /\ Sale!Surveyed /\
     Sale!MayOffer
    => \A m \in Hosted : ~v2[m]
  BY DEF Sale!SurveyTells, Sale!BuildKnows, Sale!Surveyed, Sale!MayOffer

LEMMA BuildKnowsStep ==
  Sale!OfferAssumption /\ Sale!TypeOK /\ Sale!SurveyTells /\ Sale!BuildKnows /\ Sale!OneCarries /\
     Sale!Next
    => Sale!BuildKnows' /\ Sale!OneCarries'
<1> SUFFICES ASSUME Sale!OfferAssumption, Sale!TypeOK, Sale!SurveyTells, Sale!BuildKnows,
   Sale!OneCarries, Sale!Next
             PROVE  Sale!BuildKnows' /\ Sale!OneCarries'
  OBVIOUS
<1>a. /\ v1 \in [Sale!Guests -> {"none", "stopped", "running"}] /\ v2 \in [Sale!Guests -> BOOLEAN]
      /\ v3 \in Hosted \cup {Unsold} /\ v6 \in Surveys
      /\ v8 \in [of : Hosted \cup {Unsold}, at :
           {"rest", "look", "clone", "equip", "start", "undo"}]
      /\ Hosted \subseteq Sale!Guests /\ Owner \notin Hosted /\ Unsold \notin Sale!Guests
  BY DEF Sale!TypeOK, Surveys, Sale!OfferAssumption, Sale!Guests
<1>b. v7' = IF v6'.ask = "nobody" THEN {}
                 ELSE IF v6.ask = "nobody" THEN Sale!Holding' ELSE v7 \cap Sale!Holding'
  BY DEF Sale!Next
\* A step that leaves build, survey and the machines' cards, and destroys none.
<1>c. ASSUME UNCHANGED <<v8, v6>>, \A m \in Hosted : v2'[m] => v2[m],
             \A m \in Hosted : v2'[m] => v1'[m] # "none",
             v8.at \in {"equip", "start"} => v1'[v8.of] # "none"
      PROVE  Sale!BuildKnows' /\ Sale!OneCarries'
  <2>1. v6.ask = "place" => \A m \in Hosted : v2'[m] => m \in v7'
    BY <1>a, <1>b, <1>c DEF Sale!BuildKnows, Sale!Holding, Sale!There
  <2> QED BY <1>c, <2>1 DEF Sale!BuildKnows, Sale!OneCarries
<1>1. CASE Sale!OwnerActs
  <2>1. \A m \in Hosted : v2'[m] = v2[m] /\ v1'[m] = v1[m]
    BY <1>1, <1>a DEF Sale!OwnerActs, Sale!Starts
  <2>2. v8.at \in {"equip", "start"} => v8.of \in Hosted
    BY DEF Sale!BuildKnows
  <2> QED BY <1>1, <1>c, <2>1, <2>2 DEF Sale!OwnerActs, Sale!BuildKnows, Sale!OneCarries
<1>2. CASE Sale!CoreSells
  BY <1>2, <1>c DEF Sale!CoreSells, Sale!BuildKnows, Sale!OneCarries
<1>3. CASE Sale!Begin /\ Sale!BeginReport
  <2>1. v6'.ask = "report"
    BY <1>3, ListedIs DEF Sale!BeginReport
  <2> QED BY <1>3, <2>1 DEF Sale!Begin, Sale!BeginReport, Sale!BuildKnows, Sale!OneCarries
<1>4. CASE Sale!Begin /\ Sale!BeginPlace
  <2>1. v6'.ask = "place" /\ v6'.accounts = Unsold /\ v6.ask = "nobody"
    BY <1>4, ListedIs DEF Sale!BeginPlace
  <2>2. v8' = [of |-> v3, at |-> "look"] /\ v3 \in Hosted /\ UNCHANGED <<v1, v2>>
    BY <1>4, <1>a DEF Sale!Begin, Sale!BeginPlace
  <2>3. \A m \in Hosted : v2'[m] => m \in v7'
    BY <1>a, <1>b, <2>1, <2>2 DEF Sale!Holding, Sale!There, Sale!OneCarries
  <2> QED BY <2>1, <2>2, <2>3 DEF Sale!BuildKnows, Sale!OneCarries
<1>5. CASE Sale!Report
  BY <1>5 DEF Sale!Report, Sale!Unasked, Sale!BuildKnows, Sale!OneCarries
<1>6. CASE Sale!Place
  <2>1. v8.at = "look" /\ v8.of \in Hosted
    BY <1>6 DEF Sale!Place, Sale!BuildKnows
  <2>2. CASE Sale!MayOffer
    <3>1. v8' = [v8 EXCEPT !.at = "clone"] /\ \A m \in Hosted : ~v2[m]
      BY <1>6, <2>2, Placed DEF Sale!Place
    <3>2. v8'.of = v8.of /\ v8'.at = "clone"
      BY <1>a, <3>1
    <3> QED BY <1>6, <2>1, <3>1, <3>2 DEF Sale!Place, Sale!Unasked, Sale!BuildKnows, Sale!OneCarries
  <2>3. CASE ~Sale!MayOffer
    BY <1>6, <2>3 DEF Sale!Place, Sale!Unasked, Sale!NotBuilding, Sale!BuildKnows, Sale!OneCarries
  <2> QED BY <2>2, <2>3
<1>7. CASE Sale!Create
  <2>0. /\ v8.at \in {"clone", "equip", "start"} /\ v8.of \in Hosted /\ UNCHANGED v6
        /\ v6.ask # "place"
    BY <1>7 DEF Sale!Create, Sale!Clone, Sale!Equip, Sale!Fails, Sale!BuildKnows
  <2>1. CASE Sale!Clone
    <3>1. v8'.of = v8.of /\ v8'.at = "equip" /\ UNCHANGED v2
      BY <1>a, <2>1 DEF Sale!Clone
    <3>2. v1'[v8.of] = "stopped" /\ \A m \in Hosted : ~v2[m]
      BY <1>a, <2>0, <2>1 DEF Sale!Clone, Sale!BuildKnows
    <3> QED BY <2>0, <3>1, <3>2 DEF Sale!BuildKnows, Sale!OneCarries
  <2>2. CASE Sale!Equip
    <3>1. v8'.of = v8.of /\ v8'.at = "start" /\ UNCHANGED v1 /\ v1[v8.of] # "none"
      BY <1>a, <2>2 DEF Sale!Equip, Sale!BuildKnows
    <3>2. \A m \in Hosted : v2'[m] => m = v8.of
      BY <1>a, <2>2 DEF Sale!Equip, Sale!BuildKnows
    <3> QED BY <2>0, <3>1, <3>2 DEF Sale!BuildKnows, Sale!OneCarries
  <2>3. CASE Sale!Fails
    <3>1. \/ v8' = Sale!NotBuilding
          \/ v8'.of = v8.of /\ v8'.at = "undo" /\ v8.at \in {"equip", "start"}
      BY <1>a, <2>3 DEF Sale!Fails
    <3> QED BY <2>0, <2>3, <3>1 DEF Sale!Fails, Sale!NotBuilding, Sale!BuildKnows, Sale!OneCarries
  <2> QED BY <1>7, <2>1, <2>2, <2>3 DEF Sale!Create
<1>8. CASE Sale!Undo
  <2>1. v8' = Sale!NotBuilding /\ UNCHANGED v6 /\ v6.ask # "place"
    BY <1>8 DEF Sale!Undo, Sale!BuildKnows
  <2>2. \A m \in Hosted : v2'[m] => v2[m] /\ v1'[m] # "none"
    BY <1>8, <1>a DEF Sale!Undo, Sale!Destroyed, Sale!OneCarries
  <2> QED BY <2>1, <2>2 DEF Sale!NotBuilding, Sale!BuildKnows, Sale!OneCarries
<1>9. ASSUME NEW g \in Sale!Guests, Sale!Observe(g) PROVE Sale!BuildKnows' /\ Sale!OneCarries'
  <2>1. UNCHANGED <<v1, v2, v8>>
    BY <1>9 DEF Sale!Observe
  <2>2. v6'.ask = v6.ask /\ v6'.accounts = v6.accounts
    BY <1>9, ObservedIs, UnreadableIs DEF Sale!Observe
  <2>3. v6.ask = "place" => \A m \in Hosted : v2'[m] => m \in v7'
    BY <1>a, <1>b, <2>1, <2>2 DEF Sale!BuildKnows, Sale!OneCarries, Sale!Holding, Sale!There
  <2> QED BY <2>1, <2>2, <2>3 DEF Sale!BuildKnows, Sale!OneCarries
<1>10. ASSUME NEW m \in Hosted, Sale!Start(m) PROVE Sale!BuildKnows' /\ Sale!OneCarries'
  <2>0. UNCHANGED <<v2, v6>>
    BY <1>10 DEF Sale!Start
  <2>1. \A g \in Sale!Guests : v1[g] # "none" => v1'[g] # "none"
    BY <1>10, <1>a DEF Sale!Start, Sale!Starts
  <2>2. CASE v8.of # m
    <3>1. UNCHANGED v8
      BY <1>10, <2>2 DEF Sale!Start, Sale!Refused, Sale!Done
    <3> QED BY <1>a, <1>c, <2>0, <2>1, <3>1 DEF Sale!BuildKnows, Sale!OneCarries
  <2>3. CASE v8.of = m
    <3>1. v8.at = "start"
      BY <1>10, <2>3 DEF Sale!Start, Sale!StartsNow
    <3>2. v8' = Sale!NotBuilding \/ (v8'.of = v8.of /\ v8'.at = "undo")
      BY <1>10, <1>a, <2>3 DEF Sale!Start, Sale!Refused, Sale!Done
    <3> QED BY <1>a, <2>0, <2>1, <2>3, <3>1, <3>2 DEF Sale!NotBuilding, Sale!BuildKnows,
         Sale!OneCarries
  <2> QED BY <2>2, <2>3
<1>11. ASSUME NEW m \in Hosted, Sale!Settle(m) PROVE Sale!BuildKnows' /\ Sale!OneCarries'
  <2>1. \A h \in Hosted : v2'[h] => v2[h] /\ v1'[h] # "none"
    BY <1>11, <1>a DEF Sale!Settle, Sale!Destroyed, Sale!OneCarries
  <2>2. v8.at \in {"equip", "start"} => v1'[v8.of] # "none"
    BY <1>11, <1>a DEF Sale!Settle, Sale!Destroyed, Sale!BuildKnows
  <2> QED BY <1>11, <1>c, <2>1, <2>2 DEF Sale!Settle
<1> QED BY <1>1, <1>2, <1>3, <1>4, <1>5, <1>6, <1>7, <1>8, <1>9, <1>10, <1>11 DEF Sale!Next,
     Sale!Step, Sale!Begin

LEMMA SaleStepKeeps == Sale!OfferAssumption /\ Selling /\ [Sale!Next]_(Sale!offerVars) => Selling'
<1>1. Selling /\ UNCHANGED Sale!offerVars => Selling'
  BY DEF Selling, Sale!offerVars, Sale!TypeOK, Sale!SurveyTells, Sale!BuildKnows, Sale!OneCarries,
       Sale!Holding, Sale!There
<1>2. Sale!OfferAssumption /\ Selling /\ Sale!Next => Selling'
  BY SaleType, SurveyTellsStep, BuildKnowsStep DEF Selling
<1> QED BY <1>1, <1>2

\* The room of a slice, less what of it the owner uses.
LEMMA RoomLeft ==
  Sale!OfferAssumption /\ v6.shown /\ v6.use = Uses => Sale!Room + Uses =< Memory
  BY DEF Sale!OfferAssumption, Sale!Room, Sale!Committed, Sale!Slice, Sale!Least

LEMMA CardOfOneIs == Sale!CardOfOne <=> Cardinality({m \in Hosted : v2[m]}) =< 1
  BY SizesAgree DEF Sale!CardOfOne

LEMMA SaleOneHolder == Sale!OfferAssumption /\ Selling => Sale!OneHolder
<1> SUFFICES ASSUME Sale!OfferAssumption, Selling PROVE Sale!OneHolder
  OBVIOUS
<1>1. Sale!Surveyed /\ Sale!MayOffer => v7 = {}
  BY DEF Selling, Sale!SurveyTells, Sale!Surveyed, Sale!MayOffer
<1>2. Sale!Surveyed /\ Sale!Room > 0 /\ Owner \in v6.runs => Sale!Room + Uses =< Memory
  BY RoomLeft DEF Selling, Sale!SurveyTells, Sale!Surveyed, Sale!Room
<1>3. Sale!CardOfOne
  <2> DEFINE S == {m \in Hosted : v2[m]}
  <2>1. CASE S = {}
    BY <2>1, FS_EmptySet, CardOfOneIs
  <2>2. CASE S # {}
    <3>1. PICK m : S = {m}
      BY <2>2 DEF Selling, Sale!OneCarries
    <3>2. Cardinality(S) = 1
      BY <3>1, FS_Singleton
    <3> QED BY <3>2, CardOfOneIs
  <2> QED BY <2>1, <2>2
<1> QED BY <1>1, <1>2, <1>3 DEF Sale!OneHolder, Sale!OfferedWasFree

(* Whatever is surveyed, built, undone or lost meanwhile: no two machines   *)
(* of the provider are ever configured with the card, and a card is offered *)
(* only past a survey that no guest spoke against.                          *)
THEOREM OfferHasOneHolder == Spec => []OneHolder
<1> DEFINE Inv == component = "offer" => Selling
<1>1. Init => Inv
  BY HostAssumption, SaleBegins DEF Init, TakeTurns
<1>2. Inv /\ [Next]_hostVars => Inv'
  BY HostAssumption, TurnParts, SaleStepKeeps
<1>3. Inv => OneHolder
  BY HostAssumption, SaleOneHolder DEF OneHolder
<1> QED BY <1>1, <1>2, <1>3, PTL DEF Spec

-----------------------------------------------------------------------------
(* Residues.  Whose each volume is v1, the machine that stands v2, volumes  *)
(* another guest mounts v3, the tombstones v4, the look under way v5, what  *)
(* the agent has to say v6, what Core has open v7 and shut v8; and of       *)
(* history, who was wronged v9, and hitches v10.                            *)

\* The inductive invariant: what tombstones, a look and the reports know.
Residing == Remains!TypeOK /\ Remains!TombsName /\ Remains!VolumesAreNamed /\ Remains!LookKnows /\
   Remains!ResiduesAreLeft /\ Remains!ResidueIsOwn

\* There are as many numbers as machines.
LEMMA VolumesAre ==
  Remains!ResidueAssumption => IsFiniteSet(Machines) /\ Remains!Volumes = 1 .. Cardinality(Machines)
  BY SizesAgree DEF Remains!ResidueAssumption, Remains!Volumes

LEMMA VolumeNumbers ==
  Remains!ResidueAssumption =>
    /\ Cardinality(Machines) \in Nat /\ Remains!NoVolume \notin Remains!Volumes
    /\ IsFiniteSet(Remains!Volumes) /\ Cardinality(Remains!Volumes) = Cardinality(Machines)
<1> SUFFICES ASSUME Remains!ResidueAssumption
             PROVE  /\ Cardinality(Machines) \in Nat /\ Remains!NoVolume \notin Remains!Volumes
                    /\ IsFiniteSet(Remains!Volumes) /\
                         Cardinality(Remains!Volumes) = Cardinality(Machines)
  OBVIOUS
<1>1. Cardinality(Machines) \in Nat
  BY VolumesAre, FS_CardinalityType
<1>2. IsFiniteSet(Remains!Volumes) /\ Cardinality(Remains!Volumes) = Cardinality(Machines)
  BY <1>1, VolumesAre, FS_Interval
<1> QED BY <1>1, <1>2, VolumesAre DEF Remains!NoVolume

\* Of numbers some of which are free, one is the first.
LEMMA LeastNumber ==
  ASSUME NEW n \in Nat, NEW F \in SUBSET (1 .. n), F # {}
  PROVE  \E v \in F : \A w \in 1 .. v - 1 : w \notin F
<1> DEFINE T == {1 .. v : v \in F}
           R == StrictSubsetOrdering(1 .. n)
<1>1. IsFiniteSet(1 .. n)
  BY FS_Interval
<1>2. T \subseteq FiniteSubsetsOf(1 .. n)
  <2>1. ASSUME NEW v \in F PROVE 1 .. v \in FiniteSubsetsOf(1 .. n)
    <3>1. 1 .. v \subseteq 1 .. n
      OBVIOUS
    <3>2. IsFiniteSet(1 .. v)
      BY FS_Interval
    <3> QED BY <3>1, <3>2 DEF FiniteSubsetsOf
  <2> QED BY <2>1
<1>3. T # {}
  OBVIOUS
<1>4. IsWellFoundedOn(R, FiniteSubsetsOf(1 .. n))
  BY FS_StrictSubsetOrderingWellFounded
<1> HIDE DEF T, R
<1>5. PICK X \in T : \A Y \in T : ~ (<<Y, X>> \in R)
  BY <1>2, <1>3, <1>4, WFMin
<1>6. PICK v \in F : X = 1 .. v
  BY DEF T
<1>7. ASSUME NEW w \in 1 .. v - 1, w \in F PROVE FALSE
  <2>1. 1 .. w \in T
    BY <1>7 DEF T
  <2>2. 1 .. w \subseteq 1 .. v /\ 1 .. v \subseteq 1 .. n /\ v \in 1 .. v /\ v \notin 1 .. w
    BY <1>7
  <2>3. <<1 .. w, 1 .. v>> \in R
    BY <2>2 DEF R, StrictSubsetOrdering
  <2> QED BY <1>5, <1>6, <2>1, <2>3
<1> QED BY <1>7

\* A machine that never had a guest has no volume, so that one number is free: the
\* number's volumes are as many as the machines, and each has one at most.
LEMMA FirstIsFree ==
  ASSUME Remains!ResidueAssumption, Remains!TypeOK, Remains!VolumesAreNamed,
         NEW m \in Machines, v2 = Remains!NoGuestThere, v4[m] = Remains!NoTomb
  PROVE  Remains!FirstFree \in Remains!Volumes /\ v1[Remains!FirstFree] = Nobody /\
           \A v \in Remains!Volumes : v1[v] # m
<1>1. \A v \in Remains!Volumes : v1[v] # m
  BY DEF Remains!VolumesAreNamed, Remains!NamedOrLeft, Remains!NoTomb, Remains!NoGuestThere,
       Remains!ResidueAssumption
<1> DEFINE F == {v \in Remains!Volumes : v1[v] = Nobody}
<1>2. F # {}
  <2> SUFFICES ASSUME F = {} PROVE FALSE
    OBVIOUS
  <2>1. v1 \in [Remains!Volumes -> Machines \ {m}]
    BY <1>1 DEF Remains!TypeOK
  <2>2. IsFiniteSet(Machines \ {m}) /\ Cardinality(Machines \ {m}) = Cardinality(Machines) - 1
    BY VolumesAre, FS_RemoveElement
  <2>3. Cardinality(Machines \ {m}) < Cardinality(Remains!Volumes) /\ IsFiniteSet(Remains!Volumes)
    BY <2>2, VolumeNumbers
  <2>4. PICK x, y \in Remains!Volumes : x # y /\ v1[x] = v1[y]
    BY <2>1, <2>2, <2>3, FS_PigeonHole
  <2>5. v1[x] # Nobody
    BY <2>4
  <2> QED BY <2>4, <2>5 DEF Remains!VolumesAreNamed
<1>3. PICK v \in F : \A w \in 1 .. v - 1 : w \notin F
  <2>1. F \in SUBSET (1 .. Cardinality(Machines)) /\ Cardinality(Machines) \in Nat
    BY VolumeNumbers, VolumesAre
  <2> QED BY <1>2, <2>1, LeastNumber
<1>4. \A w \in 1 .. v - 1 : v1[w] # Nobody
  BY <1>3, VolumeNumbers, VolumesAre
<1>5. v \in Remains!Volumes /\ v1[v] = Nobody
  BY <1>3
<1>6. \E x \in Remains!Volumes : v1[x] = Nobody /\ \A w \in 1 .. x - 1 : v1[w] # Nobody
  BY <1>4, <1>5
<1> QED BY <1>1, <1>6 DEF Remains!FirstFree

LEMMA RemainsBegin == Remains!ResidueAssumption /\ Remains!Init => Residing
<1> SUFFICES ASSUME Remains!ResidueAssumption, Remains!Init PROVE Residing
  OBVIOUS
<1>1. Remains!TypeOK
  <2>1. v4 \in [Machines -> [at : {"none", "owed", "proven", "reaped"}, named :
          Remains!Volumes \cup {Remains!NoVolume},
                               left : BOOLEAN, cleared : BOOLEAN]]
    BY DEF Remains!Init, Remains!NoTomb
  <2>2. v5 \in [part : {"rest", "prove", "retry"}, todo : SUBSET Machines,
                  of : Machines \cup {Nobody}, step : {"look", "guests", "remove", "again"}]
    BY DEF Remains!Init, Remains!AtRest
  <2>3. v2 \in [of : Machines \cup {Nobody}, names : Remains!Volumes \cup {Remains!NoVolume}]
    BY DEF Remains!Init, Remains!NoGuestThere
  <2>4. v10 \in 0 .. MaxHitches
    BY DEF Remains!Init, Remains!ResidueAssumption
  <2> QED BY <2>1, <2>2, <2>3, <2>4 DEF Remains!Init, Remains!TypeOK
<1>2. Remains!TombsName
  BY DEF Remains!Init, Remains!TombsName, Remains!NoTomb
<1>3. Remains!VolumesAreNamed
  BY DEF Remains!Init, Remains!VolumesAreNamed, Remains!NoGuestThere
<1>4. Remains!LookKnows
  BY DEF Remains!Init, Remains!LookKnows, Remains!AtRest, Remains!Looking
<1>5. Remains!ResiduesAreLeft /\ Remains!ResidueIsOwn
  BY DEF Remains!Init, Remains!ResiduesAreLeft, Remains!ResidueIsOwn
<1> QED BY <1>1, <1>2, <1>3, <1>4, <1>5 DEF Residing

\* The records a tombstone and a look may be.
Tombs == [at : {"none", "owed", "proven", "reaped"}, named :
   Remains!Volumes \cup {Remains!NoVolume},
          left : BOOLEAN, cleared : BOOLEAN]
Turns == [part : {"rest", "prove", "retry"}, todo : SUBSET Machines,
          of : Machines \cup {Nobody}, step : {"look", "guests", "remove", "again"}]

LEMMA HostKeeps ==
  ASSUME Remains!ResidueAssumption, Residing, Remains!Host
  PROVE  Residing'
<1> USE DEF Residing
<1>a. /\ v1 \in [Remains!Volumes -> Machines \cup {Nobody}] /\ v4 \in [Machines -> Tombs]
      /\ v5 \in Turns /\ v2 \in [of : Machines \cup {Nobody}, names :
           Remains!Volumes \cup {Remains!NoVolume}]
      /\ v3 \subseteq Remains!Volumes /\ v10 \in 0 .. MaxHitches
      /\ v6 \subseteq Remains!Residues /\ v7 \subseteq Remains!Residues /\
           v8 \subseteq Remains!Residues
      /\ Nobody \notin Machines /\ Remains!NoVolume \notin Remains!Volumes
  BY VolumeNumbers DEF Remains!TypeOK, Tombs, Turns, Remains!ResidueAssumption
<1>b. UNCHANGED <<v5, v6, v7, v8, v9>>
  BY DEF Remains!Host
<1>c. Remains!Looking => v5.of \in Machines /\ Remains!Named \in Remains!Volumes /\
        v4[v5.of].at \in {"owed", "proven"}
  BY <1>a DEF Remains!Looking, Remains!LookKnows, Remains!TombsName, Remains!Named, Turns
<1>1. ASSUME NEW m \in Machines, Remains!CloneBegins(m) PROVE Residing'
  <2>1. /\ v2 = Remains!NoGuestThere /\ v4[m] = Remains!NoTomb /\
             v2' = [of |-> m, names |-> Remains!NoVolume]
        /\ v1' = [v1 EXCEPT ![Remains!FirstFree] = m] /\ UNCHANGED <<v3, v4, v10>>
    BY <1>1 DEF Remains!CloneBegins
  <2>2. Remains!FirstFree \in Remains!Volumes /\ v1[Remains!FirstFree] = Nobody /\
          \A v \in Remains!Volumes : v1[v] # m
    BY <2>1, FirstIsFree
  <2> DEFINE first == Remains!FirstFree
  <2> HIDE DEF first
  <2>3. /\ v1' \in [Remains!Volumes -> Machines \cup {Nobody}] /\ first \in Remains!Volumes /\
             v1[first] = Nobody
        /\ v1'[first] = m /\ \A v \in Remains!Volumes \ {first} : v1'[v] = v1[v] /\ v1[v] # m
    BY <1>a, <2>1, <2>2 DEF first
  <2>4. v4[m].at = "none"
    BY <2>1 DEF Remains!NoTomb
  <2>5. Remains!TypeOK'
    BY <1>a, <1>b, <2>1, <2>3 DEF Remains!TypeOK, Tombs, Turns
  <2>6. Remains!TombsName'
    BY <2>1 DEF Remains!TombsName
  <2>7. Remains!VolumesAreNamed'
    <3>1. ASSUME NEW v \in Remains!Volumes, v1'[v] \notin {Nobody, m}
                   PROVE Remains!NamedOrLeft(v1[v], v) /\ v1'[v] = v1[v]
      BY <2>1, <2>3, <3>1 DEF Remains!VolumesAreNamed, Remains!NoGuestThere
    <3>2. ASSUME NEW v \in Remains!Volumes, NEW w \in Remains!Volumes, v1'[v] = v1'[w],
                   v1'[v] # Nobody PROVE v = w
      BY <2>3, <3>2 DEF Remains!VolumesAreNamed
    <3> QED BY <2>1, <2>3, <2>4, <3>1, <3>2 DEF Remains!VolumesAreNamed, Remains!NamedOrLeft
  <2>8. Remains!LookKnows'
    <3>1. Remains!Looking /\ v5.step \in {"guests", "remove"} => Remains!Named # first /\
            v1'[Remains!Named] = v1[Remains!Named] /\ v1[Remains!Named] # m
      BY <1>c, <2>3 DEF Remains!LookKnows
    <3> QED BY <1>b, <2>1, <3>1 DEF Remains!LookKnows, Remains!Looking, Remains!Named
  <2>9. Remains!ResiduesAreLeft' /\ Remains!ResidueIsOwn'
    <3>1. \A r \in v7 \cup v6 \cup v8 : r \in Machines \X Remains!Volumes /\ r[1] # m
      BY <1>a, <2>4 DEF Remains!ResiduesAreLeft, Remains!Residues
    <3>2. \A r \in v7 \cup v6 \cup v8 : v1'[r[2]] = r[1] => v1[r[2]] = r[1]
      BY <2>3, <3>1
    <3> QED BY <1>b, <2>1, <3>2 DEF Remains!ResiduesAreLeft, Remains!ResidueIsOwn
  <2> QED BY <2>5, <2>6, <2>7, <2>8, <2>9
<1>2. CASE Remains!CloneEnds
  <2>1. PICK v \in Remains!Volumes : v1[v] = v2.of /\ v2.of # Nobody
    BY <1>2 DEF Remains!CloneEnds, Remains!VolumesAreNamed
  <2>2. (CHOOSE x \in Remains!Volumes : v1[x] = v2.of) \in Remains!Volumes /\
          v1[CHOOSE x \in Remains!Volumes : v1[x] = v2.of] = v2.of
    BY <2>1
  <2>3. /\ v2'.of = v2.of /\ v2'.names \in Remains!Volumes /\ v1[v2'.names] = v2.of
        /\ v2' \in [of : Machines \cup {Nobody}, names : Remains!Volumes \cup {Remains!NoVolume}]
        /\ UNCHANGED <<v1, v3, v4, v10>>
    BY <1>2, <1>a, <2>2 DEF Remains!CloneEnds
  <2>4. Remains!TypeOK'
    BY <1>b, <2>3 DEF Remains!TypeOK
  <2>5. Remains!TombsName' /\ Remains!VolumesAreNamed'
    BY <2>1, <2>3 DEF Remains!TombsName, Remains!VolumesAreNamed, Remains!NamedOrLeft
  <2>6. Remains!LookKnows'
    BY <1>b, <2>3 DEF Remains!LookKnows, Remains!Looking, Remains!Named
  <2>7. Remains!ResiduesAreLeft' /\ Remains!ResidueIsOwn'
    BY <1>b, <2>3 DEF Remains!ResiduesAreLeft, Remains!ResidueIsOwn
  <2> QED BY <2>4, <2>5, <2>6, <2>7
<1>3. CASE Remains!Destroyed
  <2> DEFINE m == v2.of
             itsName == v2.names
             grave == [Remains!NoTomb EXCEPT !.at = "owed", !.named = itsName]
  <2>1. /\ m \in Machines /\ itsName \in Remains!Volumes /\ v1[itsName] = m /\ v4[m].at = "none"
        /\ v5.part = "rest" /\ ~Remains!Looking /\ v5.todo = {} /\ v5.step = "look"
    BY <1>3, <1>a DEF Remains!Destroyed, Remains!VolumesAreNamed, Remains!LookKnows
  <2>g. grave \in Tombs /\ grave.at = "owed" /\ grave.named = itsName /\ grave.left = FALSE
    <3>1. Remains!NoTomb \in Tombs /\ Remains!NoTomb.left = FALSE
      BY DEF Remains!NoTomb, Tombs
    <3> QED BY <2>1, <3>1 DEF Tombs
  <2>2. v4' = [v4 EXCEPT ![m] = grave] /\ v2' = Remains!NoGuestThere /\ UNCHANGED v3
    BY <1>3 DEF Remains!Destroyed
  <2>3. \/ v1' = [v1 EXCEPT ![itsName] = Nobody] /\ UNCHANGED v10
        \/ Remains!Hitch /\ UNCHANGED v1
    BY <1>3 DEF Remains!Destroyed
  <2>4. /\ v1' \in [Remains!Volumes -> Machines \cup {Nobody}]
        /\ \A v \in Remains!Volumes : v1'[v] \in {v1[v], Nobody}
    BY <1>a, <2>1, <2>3
  <2>5. v10' \in 0 .. MaxHitches
    BY <1>a, <2>3 DEF Remains!Hitch, Remains!ResidueAssumption
  <2>6. v4' \in [Machines -> Tombs] /\ v4'[m] = grave /\ \A n \in Machines \ {m} : v4'[n] = v4[n]
    <3> HIDE DEF grave
    <3> QED BY <1>a, <2>1, <2>2, <2>g
  <2>m. \A v \in Remains!Volumes : v1[v] = m => v = itsName
    BY <1>a, <2>1 DEF Remains!VolumesAreNamed
  <2>n. \A v \in Remains!Volumes : v1[v] \notin {Nobody, m} => Remains!NamedOrLeft(v1[v], v)
    BY DEF Remains!VolumesAreNamed
  <2> HIDE DEF m, itsName, grave
  <2>7. Remains!TypeOK'
    BY <1>a, <1>b, <2>2, <2>4, <2>5, <2>6 DEF Remains!TypeOK, Tombs, Turns, Remains!NoGuestThere
  <2>8. Remains!TombsName'
    BY <2>1, <2>6, <2>g DEF Remains!TombsName
  <2>9. Remains!VolumesAreNamed'
    <3>1. ASSUME NEW v \in Remains!Volumes, v1'[v] # Nobody
          PROVE  v4'[v1'[v]].named = v /\ (v4'[v1'[v]].at = "owed"
                   \/ (v4'[v1'[v]].at = "proven" /\ v4'[v1'[v]].left))
      <4>1. v1'[v] = v1[v] /\ v1[v] \in Machines
        BY <1>a, <2>4, <3>1
      <4>2. CASE v1[v] = m
        BY <2>6, <2>g, <2>m, <4>1, <4>2
      <4>3. CASE v1[v] # m
        BY <2>6, <2>n, <3>1, <4>1, <4>3 DEF Remains!NamedOrLeft
      <4> QED BY <4>2, <4>3
    <3>2. ASSUME NEW v \in Remains!Volumes, NEW w \in Remains!Volumes, v1'[v] = v1'[w],
                   v1'[v] # Nobody PROVE v = w
      BY <2>4, <3>2 DEF Remains!VolumesAreNamed
    <3> QED BY <2>2, <3>1, <3>2 DEF Remains!VolumesAreNamed, Remains!NamedOrLeft,
         Remains!NoGuestThere
  <2>10. Remains!LookKnows'
    BY <1>b, <2>1 DEF Remains!LookKnows, Remains!Looking
  <2>11. Remains!ResiduesAreLeft' /\ Remains!ResidueIsOwn'
    <3>1. \A r \in v7 \cup v6 \cup v8 : r \in Machines \X Remains!Volumes /\ r[1] # m
      BY <1>a, <2>1 DEF Remains!ResiduesAreLeft, Remains!Residues
    <3>2. \A r \in v7 \cup v6 \cup v8 : v1'[r[2]] = r[1] => v1[r[2]] = r[1]
      BY <1>a, <2>4, <3>1
    <3> QED BY <1>a, <1>b, <2>6, <3>1, <3>2 DEF Remains!ResiduesAreLeft, Remains!ResidueIsOwn
  <2> QED BY <2>7, <2>8, <2>9, <2>10, <2>11
<1>4. ASSUME NEW x \in Remains!Volumes, Remains!OwnerActs(x) PROVE Residing'
  <2>1. /\ UNCHANGED <<v2, v4, v10>> /\ ~Remains!Looking /\ v3' \subseteq Remains!Volumes
        /\ v1' \in [Remains!Volumes -> Machines \cup {Nobody}]
        /\ \A v \in Remains!Volumes : v1'[v] = v1[v] \/ (v1'[v] = Nobody /\ v1[v] # v2.of)
    BY <1>4, <1>a DEF Remains!OwnerActs, Remains!Unused
  <2>2. Remains!TypeOK'
    BY <1>b, <2>1 DEF Remains!TypeOK
  <2>3. Remains!TombsName'
    BY <2>1 DEF Remains!TombsName
  <2>4. Remains!VolumesAreNamed'
    <3>1. \A v \in Remains!Volumes : v1'[v] \notin {Nobody, v2.of} => Remains!NamedOrLeft(v1'[v], v)
      BY <2>1 DEF Remains!VolumesAreNamed
    <3>2. \A v, w \in Remains!Volumes : v1'[v] = v1'[w] /\ v1'[v] # Nobody => v = w
      BY <2>1 DEF Remains!VolumesAreNamed
    <3>3. \A v \in Remains!Volumes : v1[v] = v2.of => v1'[v] = v2.of
      BY <2>1
    <3> QED BY <1>a, <2>1, <3>1, <3>2, <3>3 DEF Remains!VolumesAreNamed, Remains!NamedOrLeft
  <2>5. Remains!LookKnows'
    BY <1>b, <2>1 DEF Remains!LookKnows, Remains!Looking
  <2>6. Remains!ResiduesAreLeft' /\ Remains!ResidueIsOwn'
    <3>1. \A r \in v7 \cup v6 \cup v8 : r \in Machines \X Remains!Volumes
      BY <1>a DEF Remains!Residues
    <3>2. \A r \in v7 \cup v6 \cup v8 : v1'[r[2]] = r[1] => v1[r[2]] = r[1]
      BY <1>a, <2>1, <3>1
    <3> QED BY <1>b, <2>1, <3>2 DEF Remains!ResiduesAreLeft, Remains!ResidueIsOwn
  <2> QED BY <2>2, <2>3, <2>4, <2>5, <2>6
<1> QED BY <1>1, <1>2, <1>3, <1>4 DEF Remains!Host

LEMMA GoesKeeps ==
  ASSUME Remains!ResidueAssumption, Residing, Remains!Goes
  PROVE  Residing'
<1> USE DEF Residing
<1>a. v5 \in Turns /\ Nobody \notin Machines /\ v4 \in [Machines -> Tombs]
  BY DEF Remains!TypeOK, Turns, Tombs, Remains!ResidueAssumption
<1>b. UNCHANGED <<v1, v2, v3, v4, v6, v7, v8, v9, v10>>
  BY DEF Remains!Goes, Remains!PassBegins, Remains!RetriesBegin, Remains!LookBegins
<1>1. /\ v5' \in Turns /\ (v5'.part = "rest" => v5'.todo = {} /\ v5'.of = Nobody)
      /\ v5'.step = "look"
      /\ \A m \in v5'.todo \cup ({v5'.of} \ {Nobody}) : v4[m].at \in {"owed", "proven"}
  <2>0. Remains!AtRest \in Turns /\ Remains!AtRest.of = Nobody /\ Remains!AtRest.step = "look"
    BY DEF Remains!AtRest, Turns
  <2>1. CASE Remains!PassBegins
    <3>1. Remains!Owed \in SUBSET Machines /\ \A m \in Remains!Owed : v4[m].at = "owed"
      BY DEF Remains!Owed
    <3>2. v5' = [Remains!AtRest EXCEPT !.part = "prove", !.todo = Remains!Owed]
      BY <2>1 DEF Remains!PassBegins
    <3>3. v5' \in Turns /\ v5'.part = "prove" /\ v5'.todo = Remains!Owed /\ v5'.of = Nobody /\
            v5'.step = "look"
      BY <2>0, <3>1, <3>2 DEF Turns
    <3> QED BY <3>1, <3>3
  <2>2. CASE Remains!RetriesBegin
    <3>1. Remains!Left \in SUBSET Machines /\ \A m \in Remains!Left :
            v4[m].at \in {"owed", "proven"}
      BY DEF Remains!Left, Remains!TombsName
    <3>2. v5' = [Remains!AtRest EXCEPT !.part = "retry", !.todo = Remains!Left]
      BY <2>2 DEF Remains!RetriesBegin
    <3>3. v5' \in Turns /\ v5'.part = "retry" /\ v5'.todo = Remains!Left /\ v5'.of = Nobody /\
            v5'.step = "look"
      BY <2>0, <3>1, <3>2 DEF Turns
    <3> QED BY <3>1, <3>3
  <2>3. ASSUME NEW m \in Machines, Remains!LookBegins(m)
        PROVE  /\ v5' \in Turns /\ (v5'.part = "rest" => v5'.todo = {} /\ v5'.of = Nobody)
               /\ v5'.step = "look"
               /\ \A n \in v5'.todo \cup ({v5'.of} \ {Nobody}) : v4[n].at \in {"owed", "proven"}
    <3>1. m \in v5.todo /\ ~Remains!Looking /\ v5' = [v5 EXCEPT !.of = m, !.todo = @ \ {m}]
      BY <2>3 DEF Remains!LookBegins
    <3>2. v5' \in Turns /\ v5'.part = v5.part /\ v5'.todo = v5.todo \ {m} /\ v5'.of = m /\
            v5'.step = v5.step
      BY <1>a, <3>1 DEF Turns
    <3> QED BY <3>1, <3>2 DEF Remains!LookKnows
  <2> QED BY <2>1, <2>2, <2>3 DEF Remains!Goes
<1>2. Remains!TypeOK'
  BY <1>1, <1>b DEF Remains!TypeOK, Turns
<1>3. Remains!TombsName' /\ Remains!VolumesAreNamed' /\ Remains!ResiduesAreLeft' /\
        Remains!ResidueIsOwn'
  BY <1>b DEF Remains!TombsName, Remains!VolumesAreNamed, Remains!NamedOrLeft,
       Remains!ResiduesAreLeft, Remains!ResidueIsOwn
<1>4. Remains!LookKnows'
  BY <1>1, <1>b DEF Remains!LookKnows, Remains!Looking
<1> QED BY <1>2, <1>3, <1>4

\* A look that concludes: that the volume stays, or that it is gone and is.
LEMMA ConcludesKeeps ==
  ASSUME Remains!ResidueAssumption, Residing, Remains!Looking, NEW stays \in BOOLEAN,
           Remains!Concludes(stays),
         ~stays => v1[Remains!Named] = Nobody,
         UNCHANGED <<v1, v2, v3, v7, v8, v9>>, v10' \in 0 .. MaxHitches
  PROVE  Residing'
<1> USE DEF Residing
<1> DEFINE m == v5.of
           grave == v4'[m]
<1>a. /\ v5 \in Turns /\ Nobody \notin Machines /\ v4 \in [Machines -> Tombs]
      /\ v1 \in [Remains!Volumes -> Machines \cup {Nobody}]
      /\ v6 \subseteq Remains!Residues /\ v7 \subseteq Remains!Residues /\
           v8 \subseteq Remains!Residues
  BY DEF Remains!TypeOK, Turns, Tombs, Remains!ResidueAssumption
<1>b. m \in Machines /\ v4[m] \in Tombs /\ v4[m].at \in {"owed", "proven"} /\
        Remains!Named \in Remains!Volumes /\ Remains!Named = v4[m].named
  BY <1>a DEF Remains!Looking, Remains!LookKnows, Remains!TombsName, Remains!Named, Turns
<1>1. /\ v5' \in Turns /\ v5'.part = v5.part /\ v5'.todo = v5.todo
      /\ v5'.of = Nobody /\ v5'.step = "look"
  <2>1. v5' = [v5 EXCEPT !.of = Nobody, !.step = "look"]
    BY DEF Remains!Concludes, Remains!LookEnds
  <2> QED BY <1>a, <2>1 DEF Turns
<1>2. /\ v4' \in [Machines -> Tombs] /\ \A n \in Machines \ {m} : v4'[n] = v4[n]
      /\ grave.named = Remains!Named /\ grave.left = stays /\ grave.at \in {v4[m].at, "proven"}
      /\ ~stays => grave.at # "none"
  <2>1. CASE v5.part = "prove"
    <3>0. (v4[m].cleared \/ (v4[m].left /\ ~stays)) \in BOOLEAN
      OBVIOUS
    <3>1. v4' = [v4 EXCEPT ![m] = [@ EXCEPT !.at = "proven", !.left = stays,
                                               !.cleared = v4[m].cleared \/ (v4[m].left /\ ~stays)]]
      BY <2>1, <1>a, <1>b DEF Remains!Concludes
    <3> DEFINE new == [v4[m] EXCEPT !.at = "proven", !.left = stays,
                                      !.cleared = v4[m].cleared \/ (v4[m].left /\ ~stays)]
    <3>2. new \in Tombs /\ new.named = v4[m].named /\ new.left = stays /\ new.at = "proven"
      BY <1>b, <3>0 DEF Tombs
    <3>3. v4' = [v4 EXCEPT ![m] = new]
      BY <3>1
    <3> HIDE DEF new
    <3> QED BY <1>a, <1>b, <3>2, <3>3
  <2>2. CASE v5.part # "prove"
    <3>0. (v4[m].cleared \/ ~stays) \in BOOLEAN
      OBVIOUS
    <3>1. v4' = [v4 EXCEPT ![m] = [@ EXCEPT !.left = stays, !.cleared = v4[m].cleared \/ ~stays]]
      BY <2>2, <1>a, <1>b DEF Remains!Concludes
    <3> DEFINE new == [v4[m] EXCEPT !.left = stays, !.cleared = v4[m].cleared \/ ~stays]
    <3>2. new \in Tombs /\ new.named = v4[m].named /\ new.left = stays /\ new.at = v4[m].at
      BY <1>b, <3>0 DEF Tombs
    <3>3. v4' = [v4 EXCEPT ![m] = new]
      BY <3>1
    <3> HIDE DEF new
    <3> QED BY <1>a, <1>b, <3>2, <3>3
  <2> QED BY <2>1, <2>2
<1>3. v6' \subseteq v6 \cup {<<m, Remains!Named>>} /\ (~stays => v6' = v6)
  BY DEF Remains!Concludes
<1>4. Remains!TypeOK'
  <2>1. <<m, Remains!Named>> \in Remains!Residues
    BY <1>b DEF Remains!Residues
  <2> QED BY <1>1, <1>2, <1>3, <2>1 DEF Remains!TypeOK, Turns, Tombs
<1> HIDE DEF m, grave
<1>5. Remains!TombsName'
  BY <1>b, <1>2 DEF Remains!TombsName, grave
<1>6. \A v \in Remains!Volumes : v1[v] = m => v2.of # m /\ v = Remains!Named /\ stays
  <2>1. v2.of # m
    BY <1>a, <1>b DEF Remains!VolumesAreNamed
  <2> QED BY <1>a, <1>b, <2>1 DEF Remains!VolumesAreNamed, Remains!NamedOrLeft, m
<1>7. Remains!VolumesAreNamed'
  <2>1. ASSUME NEW v \in Remains!Volumes, v1[v] \notin {Nobody, v2.of}
        PROVE  /\ v4'[v1[v]].named = v
               /\ v4'[v1[v]].at = "owed" \/ (v4'[v1[v]].at = "proven" /\ v4'[v1[v]].left)
    <3>1. v1[v] \in Machines /\ Remains!NamedOrLeft(v1[v], v)
      BY <1>a, <2>1 DEF Remains!VolumesAreNamed
    <3>2. CASE v1[v] = m
      BY <1>2, <1>6, <1>b, <3>1, <3>2 DEF Remains!NamedOrLeft, grave
    <3>3. CASE v1[v] # m
      BY <1>2, <3>1, <3>3 DEF Remains!NamedOrLeft
    <3> QED BY <3>2, <3>3
  <2>2. v2.of # Nobody => v2.of # m /\ v2.of \in Machines
    BY <1>b DEF Remains!VolumesAreNamed, Remains!TypeOK
  <2> QED BY <1>2, <2>1, <2>2 DEF Remains!VolumesAreNamed, Remains!NamedOrLeft
<1>8. Remains!LookKnows'
  <2>1. v5.part # "rest" /\ v5.todo \subseteq Machines
    BY <1>a DEF Remains!LookKnows, Turns
  <2>2. \A n \in v5.todo : v4'[n].at \in {"owed", "proven"}
    BY <1>2, <1>b, <2>1 DEF Remains!LookKnows, grave
  <2> QED BY <1>1, <2>1, <2>2 DEF Remains!LookKnows, Remains!Looking
<1>9. Remains!ResiduesAreLeft' /\ Remains!ResidueIsOwn'
  <2>1. ASSUME NEW r \in v7 \cup v6' \cup v8 PROVE v4'[r[1]].at # "none"
    <3>1. r \in v7 \cup v6 \cup v8 \/ r = <<m, Remains!Named>>
      BY <1>3
    <3>2. r[1] \in Machines /\ (r[1] = m \/ v4[r[1]].at # "none")
      BY <1>a, <1>b, <3>1 DEF Remains!ResiduesAreLeft, Remains!Residues
    <3> QED BY <1>2, <1>b, <3>2 DEF grave
  <2>2. ASSUME NEW r \in v7 \cup v6', v1[r[2]] = r[1] PROVE v4'[r[1]].left
    <3>1. r \in v7 \cup v6 \/ r = <<m, Remains!Named>>
      BY <1>3
    <3>2. r[1] \in Machines /\ r[2] \in Remains!Volumes
      BY <1>a, <1>b, <3>1 DEF Remains!Residues
    <3>3. CASE r[1] = m
      BY <1>2, <1>6, <2>2, <3>2, <3>3 DEF grave
    <3>4. CASE r[1] # m
      BY <1>2, <2>2, <3>1, <3>2, <3>4 DEF Remains!ResiduesAreLeft
    <3> QED BY <3>3, <3>4
  <2> QED BY <2>1, <2>2 DEF Remains!ResiduesAreLeft, Remains!ResidueIsOwn
<1> QED BY <1>4, <1>5, <1>7, <1>8, <1>9

\* A look that goes on to its next step, by which nothing was concluded.
LEMMA StepsKeeps ==
  ASSUME Remains!ResidueAssumption, Residing, Remains!Looking,
           NEW s \in {"guests", "remove", "again"}, Remains!StepsTo(s),
         UNCHANGED <<v2, v3, v7, v8>>, v10' \in 0 .. MaxHitches, v9' = v9,
         UNCHANGED v1 \/ (s = "again" /\ v1' = [v1 EXCEPT ![Remains!Named] = Nobody] /\
            v1[Remains!Named] # v2.of),
         s \in {"guests", "remove"} => v1[Remains!Named] # Nobody,
         s = "remove" => Remains!Named \notin v3 /\ v1[Remains!Named] # v2.of
  PROVE  Residing'
<1> USE DEF Residing
<1>a. /\ v5 \in Turns /\ Nobody \notin Machines /\ UNCHANGED <<v4, v6>>
      /\ v1 \in [Remains!Volumes -> Machines \cup {Nobody}]
      /\ v6 \subseteq Remains!Residues /\ v7 \subseteq Remains!Residues /\
           v8 \subseteq Remains!Residues
  BY DEF Remains!TypeOK, Turns, Remains!ResidueAssumption, Remains!StepsTo
<1>1. /\ v5' \in Turns /\ v5'.part = v5.part /\ v5'.todo = v5.todo
      /\ v5'.of = v5.of /\ v5'.step = s
  BY <1>a DEF Remains!StepsTo, Turns
<1>2. /\ v1' \in [Remains!Volumes -> Machines \cup {Nobody}]
      /\ \A v \in Remains!Volumes : v1'[v] = v1[v] \/ (v1'[v] = Nobody /\ v1[v] # v2.of)
      /\ s # "again" => v1' = v1
  BY <1>a
<1>3. Remains!TypeOK'
  BY <1>a, <1>1, <1>2 DEF Remains!TypeOK, Turns
<1>4. Remains!TombsName'
  BY <1>a DEF Remains!TombsName
<1>5. Remains!VolumesAreNamed'
  <2>1. \A v \in Remains!Volumes : v1'[v] \notin {Nobody, v2.of} => Remains!NamedOrLeft(v1'[v], v)
    BY <1>2 DEF Remains!VolumesAreNamed
  <2>2. \A v, w \in Remains!Volumes : v1'[v] = v1'[w] /\ v1'[v] # Nobody => v = w
    BY <1>2 DEF Remains!VolumesAreNamed
  <2>3. \A v \in Remains!Volumes : v1[v] = v2.of => v1'[v] = v2.of
    BY <1>2
  <2>4. v2.names \in Remains!Volumes \cup {Remains!NoVolume}
    BY DEF Remains!TypeOK
  <2> QED BY <1>a, <2>1, <2>2, <2>3, <2>4 DEF Remains!VolumesAreNamed, Remains!NamedOrLeft
<1>6. Remains!LookKnows'
  BY <1>a, <1>1, <1>2 DEF Remains!LookKnows, Remains!Looking, Remains!Named
<1>7. Remains!ResiduesAreLeft' /\ Remains!ResidueIsOwn'
  <2>1. \A r \in v7 \cup v6 \cup v8 : r \in Machines \X Remains!Volumes
    BY <1>a DEF Remains!Residues
  <2>2. \A r \in v7 \cup v6 \cup v8 : v1'[r[2]] = r[1] => v1[r[2]] = r[1]
    BY <1>a, <1>2, <2>1
  <2> QED BY <1>a, <2>2 DEF Remains!ResiduesAreLeft, Remains!ResidueIsOwn
<1> QED BY <1>3, <1>4, <1>5, <1>6, <1>7

LEMMA LooksKeeps ==
  ASSUME Remains!ResidueAssumption, Residing, Remains!Looks
  PROVE  Residing'
<1> USE DEF Residing
<1>a. UNCHANGED <<v2, v3, v7, v8>>
  BY DEF Remains!Looks
<1>b. (UNCHANGED v10 \/ Remains!Hitch) => v10' \in 0 .. MaxHitches
  BY DEF Remains!TypeOK, Remains!Hitch, Remains!ResidueAssumption
<1>1. CASE Remains!Look
  <2>1. Remains!Looking /\ UNCHANGED <<v1, v9>> /\ v10' \in 0 .. MaxHitches
    BY <1>1, <1>b DEF Remains!Look
  <2>2. CASE v1[Remains!Named] = Nobody
    BY <1>1, <1>a, <2>1, <2>2, ConcludesKeeps DEF Remains!Look
  <2>3. CASE v1[Remains!Named] # Nobody
    BY <1>1, <1>a, <2>1, <2>3, StepsKeeps DEF Remains!Look
  <2> QED BY <2>2, <2>3
<1>2. CASE Remains!Guests
  <2>1. Remains!Looking /\ UNCHANGED <<v1, v9>> /\ v10' \in 0 .. MaxHitches /\
          v1[Remains!Named] # Nobody
    BY <1>2, <1>b DEF Remains!Guests, Remains!LookKnows
  <2>2. Remains!Concludes(TRUE) \/ (~Remains!NotOurs /\ Remains!StepsTo("remove"))
    BY <1>2 DEF Remains!Guests
  <2>3. CASE Remains!Concludes(TRUE)
    BY <1>a, <2>1, <2>3, ConcludesKeeps
  <2>4. CASE ~Remains!NotOurs /\ Remains!StepsTo("remove")
    BY <1>a, <2>1, <2>4, StepsKeeps DEF Remains!NotOurs
  <2> QED BY <2>2, <2>3, <2>4
<1>3. CASE Remains!Remove
  <2>1. Remains!Looking /\ Remains!StepsTo("again") /\ v10' \in 0 .. MaxHitches
        /\ Remains!Named \notin v3 /\ v1[Remains!Named] # v2.of /\ ~v9
    BY <1>3, <1>b DEF Remains!Remove, Remains!LookKnows, Remains!ResidueIsOwn
  <2>2. v9' = v9 /\ (UNCHANGED v1 \/ v1' = [v1 EXCEPT ![Remains!Named] = Nobody])
    BY <1>3, <2>1 DEF Remains!Remove, Remains!ResidueIsOwn, Remains!TypeOK
  <2> QED BY <1>a, <2>1, <2>2, StepsKeeps
<1>4. CASE Remains!Again
  <2>1. Remains!Looking /\ UNCHANGED <<v1, v9>> /\ v10' \in 0 .. MaxHitches /\
          Remains!Concludes(v1[Remains!Named] # Nobody)
    BY <1>4, <1>b DEF Remains!Again
  <2> QED BY <1>a, <2>1, ConcludesKeeps
<1>5. CASE Remains!LookFails
  <2>1. /\ Remains!Looking /\ UNCHANGED <<v1, v4, v6, v9>> /\ v10' \in 0 .. MaxHitches
        /\ v5' = [v5 EXCEPT !.of = Nobody, !.step = "look"]
    BY <1>5, <1>b DEF Remains!LookFails, Remains!LookEnds
  <2>2. /\ v5' \in Turns /\ v5'.part = v5.part /\ v5'.todo = v5.todo
        /\ v5'.of = Nobody /\ v5'.step = "look"
    BY <2>1 DEF Turns, Remains!TypeOK
  <2>3. Remains!TypeOK'
    BY <1>a, <2>1, <2>2 DEF Remains!TypeOK, Turns
  <2>4. Remains!TombsName' /\ Remains!VolumesAreNamed' /\ Remains!ResiduesAreLeft' /\
          Remains!ResidueIsOwn'
    BY <1>a, <2>1 DEF Remains!TombsName, Remains!VolumesAreNamed, Remains!NamedOrLeft,
         Remains!ResiduesAreLeft, Remains!ResidueIsOwn
  <2>5. Remains!LookKnows'
    BY <2>1, <2>2 DEF Remains!LookKnows, Remains!Looking
  <2> QED BY <2>3, <2>4, <2>5
<1> QED BY <1>1, <1>2, <1>3, <1>4, <1>5 DEF Remains!Looks

LEMMA ReportKeeps ==
  ASSUME Remains!ResidueAssumption, Residing, Remains!Report
  PROVE  Residing'
<1> USE DEF Residing
<1>a. /\ v5' = Remains!AtRest /\ v6' = {} /\ UNCHANGED <<v1, v2, v3, v9>>
      /\ v6 \subseteq Remains!Residues /\ v7 \subseteq Remains!Residues /\
           v8 \subseteq Remains!Residues
      /\ v4 \in [Machines -> Tombs] /\ Nobody \notin Machines /\
           Remains!NoVolume \notin Remains!Volumes
      /\ v1 \in [Remains!Volumes -> Machines \cup {Nobody}]
  BY VolumeNumbers DEF Remains!Report, Remains!TypeOK, Tombs, Remains!ResidueAssumption
<1>b. v5' \in Turns /\ v5'.part = "rest" /\ v5'.todo = {} /\ v5'.of = Nobody /\ v5'.step = "look"
  BY <1>a DEF Remains!AtRest, Turns
<1>1. Remains!LookKnows'
  BY <1>b DEF Remains!LookKnows, Remains!Looking
<1>2. CASE UNCHANGED <<v4, v10>>
  <2> DEFINE unshut == v7 \cup v6
             ends == {r \in unshut : r[2] \in Remains!SaidGone}
  <2>1. CASE v7' = unshut \ ends /\ v8' = v8 \cup ends
    <3>1. Remains!TypeOK'
      BY <1>2, <1>a, <1>b, <2>1 DEF Remains!TypeOK, Turns, Tombs
    <3>2. Remains!TombsName' /\ Remains!VolumesAreNamed'
      BY <1>2, <1>a DEF Remains!TombsName, Remains!VolumesAreNamed, Remains!NamedOrLeft
    <3>3. Remains!ResiduesAreLeft'
      BY <1>2, <1>a, <2>1 DEF Remains!ResiduesAreLeft
    <3>4. ASSUME NEW r \in ends PROVE v1[r[2]] # r[1]
      <4>1. r \in unshut /\ r[1] \in Machines /\ r[2] \in Remains!Volumes /\
              r[2] \notin {v4[n].named : n \in Remains!Left}
        BY <1>a DEF Remains!SaidGone, Remains!Residues
      <4>2. SUFFICES ASSUME v1[r[2]] = r[1] PROVE FALSE
        OBVIOUS
      <4>3. v4[r[1]].left /\ v4[r[1]].at # "none"
        BY <4>1, <4>2 DEF Remains!ResiduesAreLeft
      <4>4. v4[r[1]].named = r[2]
        BY <1>a, <4>1, <4>2, <4>3 DEF Remains!VolumesAreNamed, Remains!NamedOrLeft
      <4> QED BY <4>1, <4>3, <4>4 DEF Remains!Left
    <3>5. Remains!ResidueIsOwn'
      BY <1>a, <2>1, <3>4 DEF Remains!ResidueIsOwn
    <3> QED BY <1>1, <3>1, <3>2, <3>3, <3>5
  <2>2. CASE UNCHANGED <<v7, v8>>
    <3>1. Remains!TypeOK'
      BY <1>2, <1>a, <1>b, <2>2 DEF Remains!TypeOK, Turns, Tombs
    <3> QED BY <1>1, <1>2, <1>a, <2>2, <3>1 DEF Remains!TombsName, Remains!VolumesAreNamed,
         Remains!NamedOrLeft, Remains!ResiduesAreLeft, Remains!ResidueIsOwn
  <2> QED BY <1>2, <2>1, <2>2 DEF Remains!Report
<1>3. CASE Remains!Hitch /\ UNCHANGED <<v7, v8>>
           /\ v4' = [m \in Machines |-> IF <<m, v4[m].named>> \in v6
                                          THEN [v4[m] EXCEPT !.at = "owed"] ELSE v4[m]]
  <2>1. ASSUME NEW m \in Machines
        PROVE  /\ v4'[m] \in Tombs /\ v4'[m].named = v4[m].named /\ v4'[m].left = v4[m].left
               /\ \/ v4'[m] = v4[m]
                  \/ v4'[m].at = "owed" /\ v4[m].named \in Remains!Volumes /\ v4[m].at # "none"
    <3>1. v4[m] \in Tombs
      BY <1>a
    <3>2. CASE <<m, v4[m].named>> \in v6
      <4>1. v4[m].named \in Remains!Volumes /\ v4[m].at # "none"
        BY <1>a, <3>2 DEF Remains!Residues, Remains!ResiduesAreLeft
      <4>2. v4'[m] = [v4[m] EXCEPT !.at = "owed"]
        BY <1>3, <3>2
      <4> QED BY <3>1, <4>1, <4>2 DEF Tombs
    <3>3. CASE <<m, v4[m].named>> \notin v6
      BY <1>3, <3>1, <3>3
    <3> QED BY <3>2, <3>3
  <2>2. v4' \in [Machines -> Tombs]
    BY <1>3, <2>1
  <2>3. v10' \in 0 .. MaxHitches
    BY <1>3 DEF Remains!Hitch, Remains!TypeOK, Remains!ResidueAssumption
  <2>4. Remains!TypeOK'
    BY <1>3, <1>a, <1>b, <2>2, <2>3 DEF Remains!TypeOK, Turns, Tombs
  <2>5. Remains!TombsName'
    BY <2>1 DEF Remains!TombsName
  <2>6. Remains!VolumesAreNamed'
    <3>1. ASSUME NEW v \in Remains!Volumes, v1[v] \notin {Nobody, v2.of}
          PROVE  v4'[v1[v]].named = v /\ (v4'[v1[v]].at = "owed"
                   \/ (v4'[v1[v]].at = "proven" /\ v4'[v1[v]].left))
      <4>1. v1[v] \in Machines /\ Remains!NamedOrLeft(v1[v], v)
        BY <1>a, <3>1 DEF Remains!VolumesAreNamed
      <4> QED BY <2>1, <4>1 DEF Remains!NamedOrLeft
    <3>2. v2.of # Nobody => v2.of \in Machines /\ v4'[v2.of].at = "none"
      <4>1. ASSUME v2.of # Nobody PROVE v2.of \in Machines /\ v4[v2.of].at = "none"
        BY <4>1 DEF Remains!TypeOK, Remains!VolumesAreNamed
      <4> QED BY <2>1, <4>1
    <3> QED BY <1>a, <3>1, <3>2 DEF Remains!VolumesAreNamed, Remains!NamedOrLeft
  <2>7. Remains!ResiduesAreLeft' /\ Remains!ResidueIsOwn'
    <3>1. \A r \in v7 \cup v8 : r[1] \in Machines
      BY <1>a DEF Remains!Residues
    <3> QED BY <1>3, <1>a, <2>1, <3>1 DEF Remains!ResiduesAreLeft, Remains!ResidueIsOwn
  <2> QED BY <1>1, <2>4, <2>5, <2>6, <2>7
<1> QED BY <1>2, <1>3 DEF Remains!Report

LEMMA ReapKeeps ==
  ASSUME Remains!ResidueAssumption, Residing, NEW m \in Machines, Remains!Reap(m)
  PROVE  Residing'
<1> USE DEF Residing
<1>a. /\ v5 = Remains!AtRest /\ v4[m].at = "proven" /\ ~v4[m].left
      /\ UNCHANGED <<v1, v2, v3, v5, v6, v7, v8, v9, v10>>
      /\ v4 \in [Machines -> Tombs] /\ v1 \in [Remains!Volumes -> Machines \cup {Nobody}] /\
           Nobody \notin Machines
      /\ v6 \subseteq Remains!Residues /\ v7 \subseteq Remains!Residues /\
           v8 \subseteq Remains!Residues
  BY DEF Remains!Reap, Remains!TypeOK, Tombs, Remains!ResidueAssumption
<1> DEFINE grave == [Remains!NoTomb EXCEPT !.at = "reaped"]
<1>b. grave \in Tombs /\ grave.at = "reaped" /\ grave.left = FALSE
  <2>1. Remains!NoTomb \in Tombs /\ Remains!NoTomb.left = FALSE
    BY DEF Remains!NoTomb, Tombs
  <2> QED BY <2>1 DEF Tombs
<1>c. v4' = [v4 EXCEPT ![m] = grave]
  BY DEF Remains!Reap
<1> HIDE DEF grave
<1>d. v4' \in [Machines -> Tombs] /\ v4'[m] = grave /\ \A n \in Machines \ {m} : v4'[n] = v4[n]
  BY <1>a, <1>b, <1>c
<1>1. Remains!TypeOK'
  BY <1>a, <1>d DEF Remains!TypeOK, Tombs
<1>2. Remains!TombsName'
  BY <1>b, <1>d DEF Remains!TombsName
<1>3. Remains!VolumesAreNamed'
  <2>1. ASSUME NEW v \in Remains!Volumes, v1[v] \notin {Nobody, v2.of}
        PROVE  v1[v] \in Machines \ {m} /\ Remains!NamedOrLeft(v1[v], v)
    BY <1>a, <2>1 DEF Remains!VolumesAreNamed, Remains!NamedOrLeft
  <2>2. v2.of # Nobody => v2.of \in Machines \ {m}
    BY <1>a DEF Remains!TypeOK, Remains!VolumesAreNamed
  <2> QED BY <1>a, <1>d, <2>1, <2>2 DEF Remains!VolumesAreNamed, Remains!NamedOrLeft
<1>4. Remains!LookKnows'
  <2>1. v5.part = "rest" /\ v5.todo = {} /\ v5.of = Nobody /\ v5.step = "look"
    BY <1>a DEF Remains!AtRest
  <2> QED BY <1>a, <2>1 DEF Remains!LookKnows, Remains!Looking
<1>5. Remains!ResiduesAreLeft' /\ Remains!ResidueIsOwn'
  <2>1. \A r \in v7 \cup v6 \cup v8 : r[1] \in Machines
    BY <1>a DEF Remains!Residues
  <2>2. \A r \in v7 \cup v6 : v1[r[2]] = r[1] => r[1] # m
    BY <1>a, <2>1 DEF Remains!ResiduesAreLeft
  <2> QED BY <1>a, <1>b, <1>d, <2>1, <2>2 DEF Remains!ResiduesAreLeft, Remains!ResidueIsOwn
<1> QED BY <1>1, <1>2, <1>3, <1>4, <1>5

LEMMA RemainsStepKeeps == Remains!ResidueAssumption /\ Residing /\
   [Remains!Next]_(Remains!residueVars) => Residing'
<1>1. Remains!ResidueAssumption /\ Residing /\ Remains!Next => Residing'
  BY HostKeeps, GoesKeeps, LooksKeeps, ReportKeeps, ReapKeeps DEF Remains!Next
<1>2. Residing /\ UNCHANGED Remains!residueVars => Residing'
  BY DEF Residing, Remains!residueVars, Remains!TypeOK, Remains!TombsName, Remains!VolumesAreNamed,
       Remains!NamedOrLeft, Remains!LookKnows, Remains!Looking, Remains!Named,
         Remains!ResiduesAreLeft, Remains!ResidueIsOwn
<1> QED BY <1>1, <1>2

(* However often a machine is deleted, a volume reused, a look cut short or *)
(* a report lost: a residue Core closed is gone, and no look ever removes a *)
(* volume some guest uses.                                                  *)
THEOREM ResiduesAreOwn == Spec => []ResidueIsOwn
<1> DEFINE Inv == component = "residue" => Residing
<1>1. Init => Inv
  BY HostAssumption, RemainsBegin DEF Init, TakeTurns
<1>2. Inv /\ [Next]_hostVars => Inv'
  BY HostAssumption, TurnParts, RemainsStepKeeps
<1>3. Inv => ResidueIsOwn
  BY DEF ResidueIsOwn, Residing
<1> QED BY <1>1, <1>2, <1>3, PTL DEF Spec

-----------------------------------------------------------------------------
(* The card's scrub: sold clean, and out of the scrub's hands.               *)

\* The inductive invariant: Core asks forward only, the card is given to one guest at
\* a time, and what is known clean was said, of a card that is out of every guest.
Scrubbing == Card!TypeOK /\ Card!AsksForward /\ Card!CardGiven /\ Card!CleanIsSaid /\
   Card!ConcludedIsFree /\ Card!CleanWasSaid

Steps == Card!Making \cup {"idle", "one", "clear", "remove", "sweep", "report"}
\* The type is kept by what each of the task's moves, and of the others', changes.
TypedCore == Card!Key \in Card!Keys /\ wants \in BOOLEAN /\ tenant \in BOOLEAN
             /\ recorded \in SUBSET Card!Keys /\ cleaned \in SUBSET Card!Keys
TypedHost == /\ guest \in [VMIDs -> Card!Guests \cup {None}]
             /\ task \in [VMIDs -> {"none", "running", "ok", "failed"}]
             /\ journal \in [VMIDs -> {"none", "asked", "cloning", "abandoned"}]
TypedTask == /\ pc \in Steps /\ list \in Card!Keys \cup {None} /\ at \in VMIDs \cup {None}
             /\ (pc \in Card!Making \cup {"remove"}) = (at # None)
             /\ verdict \in Card!Verdicts \cup {"nothing"} /\
                  held \in SUBSET [key : Card!Keys, outcome : Card!Verdicts]
TypedLoop == settling \in VMIDs \cup {None} /\ faults \in 0 .. MaxFaults

LEMMA Typed == Card!TypeOK <=> TypedCore /\ TypedHost /\ TypedTask /\ TypedLoop
  BY DEF Card!TypeOK, TypedCore, TypedHost, TypedTask, TypedLoop, Steps

\* After a step, from what the step does of each.
LEMMA TypedNext ==
  /\ UNCHANGED Card!core /\ UNCHANGED cleaned /\ TypedCore => TypedCore'
  /\ UNCHANGED Card!host /\ TypedHost => TypedHost'
  /\ UNCHANGED Card!agent /\ TypedTask => TypedTask'
  /\ TypedCore' /\ TypedHost' /\ TypedTask' /\ TypedLoop' => Card!TypeOK'
<1>1. UNCHANGED Card!core /\ UNCHANGED cleaned /\ TypedCore => TypedCore'
  BY DEF Card!core, TypedCore, Card!Key
<1>2. UNCHANGED Card!host /\ TypedHost => TypedHost'
  BY DEF Card!host, TypedHost
<1>3. UNCHANGED Card!agent /\ TypedTask => TypedTask'
  BY DEF Card!agent, TypedTask
<1>4. TypedCore' /\ TypedHost' /\ TypedTask' /\ TypedLoop' => Card!TypeOK'
  BY DEF Card!TypeOK, TypedCore, TypedHost, TypedTask, TypedLoop, Steps, Card!Key
<1> QED BY <1>1, <1>2, <1>3, <1>4

LEMMA ScrubBegins == Card!ScrubAssumption /\ Card!Init => Scrubbing
<1> SUFFICES ASSUME Card!ScrubAssumption, Card!Init PROVE Scrubbing
  OBVIOUS
<1>1. Card!TypeOK
  <2>1. Card!Key \in Card!Keys
    BY DEF Card!Init, Card!Key, Card!Keys, Card!ScrubAssumption
  <2>2. guest \in [VMIDs -> Card!Guests \cup {None}] /\
          task \in [VMIDs -> {"none", "running", "ok", "failed"}]
        /\ journal \in [VMIDs -> {"none", "asked", "cloning", "abandoned"}]
    BY DEF Card!Init
  <2>3. faults \in 0 .. MaxFaults
    BY DEF Card!Init, Card!ScrubAssumption
  <2>4. wants \in BOOLEAN
    BY DEF Card!Init
  <2>5. TypedCore
    BY <2>1, <2>4 DEF Card!Init, TypedCore
  <2>6. TypedTask
    BY DEF Card!Init, TypedTask, Steps, Card!Making
  <2>7. TypedHost /\ TypedLoop
    BY <2>2, <2>3 DEF Card!Init, TypedHost, TypedLoop
  <2> QED BY <2>5, <2>6, <2>7, Typed
<1>2. Card!AsksForward
  BY DEF Card!Init, Card!AsksForward, Card!Making
<1>3. \A v \in VMIDs : guest[v] = None
  BY DEF Card!Init
<1>4. Card!CardGiven /\ Card!CleanIsSaid /\ Card!ConcludedIsFree /\ Card!CleanWasSaid
  BY <1>3 DEF Card!Init, Card!CardGiven, Card!CleanIsSaid, Card!ConcludedIsFree, Card!CleanWasSaid,
       Card!Concluded, Card!Standing
<1> QED BY <1>1, <1>2, <1>4 DEF Scrubbing

\* What one change to a guest's record does.
LEMMA GuestEdits ==
  ASSUME NEW g \in Card!Guests, NEW w \in Card!Verdicts
  PROVE  /\ [g EXCEPT !.tag = TRUE] \in Card!Guests /\ [g EXCEPT !.card = TRUE] \in Card!Guests
         /\ [g EXCEPT !.up = TRUE] \in Card!Guests /\ [g EXCEPT !.up = FALSE] \in Card!Guests
         /\ [g EXCEPT !.late = TRUE] \in Card!Guests /\ [g EXCEPT !.says = w] \in Card!Guests
  BY DEF Card!Guests

LEMMA GuestsAre ==
  Card!TypeOK => \A v \in Card!Standing : v \in VMIDs /\ guest[v] \in Card!Guests
  BY DEF Card!TypeOK, Card!Standing

\* Gone, Cloned and Undone: the guest, its task and its record.
LEMMA HostTypes ==
  ASSUME Card!ScrubAssumption, Card!TypeOK, NEW v \in VMIDs
  PROVE  /\ Card!Gone(v) =>
              /\ guest' \in [VMIDs -> Card!Guests \cup {None}]
              /\ task' \in [VMIDs -> {"none", "running", "ok", "failed"}]
         /\ list \in Card!Keys /\ Card!Cloned(v) =>
              /\ guest' \in [VMIDs -> Card!Guests \cup {None}]
              /\ task' \in [VMIDs -> {"none", "running", "ok", "failed"}]
         /\ Card!Abandoned(v) => journal' \in [VMIDs -> {"none", "asked", "cloning", "abandoned"}]
         /\ Card!Undone(v) =>
              /\ guest' \in [VMIDs -> Card!Guests \cup {None}]
              /\ task' \in [VMIDs -> {"none", "running", "ok", "failed"}]
              /\ journal' \in [VMIDs -> {"none", "asked", "cloning", "abandoned"}]
<1>1. Card!Gone(v) =>
        /\ guest' \in [VMIDs -> Card!Guests \cup {None}]
        /\ task' \in [VMIDs -> {"none", "running", "ok", "failed"}]
  BY DEF Card!TypeOK, Card!Gone
<1>2. list \in Card!Keys /\ Card!Cloned(v) =>
        /\ guest' \in [VMIDs -> Card!Guests \cup {None}]
        /\ task' \in [VMIDs -> {"none", "running", "ok", "failed"}]
  <2> SUFFICES ASSUME list \in Card!Keys, Card!Cloned(v)
               PROVE  /\ guest' \in [VMIDs -> Card!Guests \cup {None}]
                      /\ task' \in [VMIDs -> {"none", "running", "ok", "failed"}]
    OBVIOUS
  <2>1. [key |-> list, tag |-> FALSE, card |-> FALSE, up |-> FALSE, late |-> FALSE,
          says |-> "nothing"] \in Card!Guests
    BY DEF Card!Guests
  <2> QED BY <2>1 DEF Card!TypeOK, Card!Cloned
<1>3. Card!Abandoned(v) => journal' \in [VMIDs -> {"none", "asked", "cloning", "abandoned"}]
  BY DEF Card!TypeOK, Card!Abandoned
<1>4. Card!Undone(v) => Card!Gone(v) /\
        journal' \in [VMIDs -> {"none", "asked", "cloning", "abandoned"}]
  BY DEF Card!TypeOK, Card!Undone
<1> QED BY <1>1, <1>2, <1>3, <1>4

LEMMA FaultsType ==
  Card!ScrubAssumption /\ TypedLoop /\ (UNCHANGED faults \/ Card!Fault) =>
     faults' \in 0 .. MaxFaults
  BY DEF Card!ScrubAssumption, TypedLoop, Card!Fault

LEMMA GoesToType ==
  ASSUME TypedTask, NEW p \in {"idle", "one", "clear", "sweep", "report"}, Card!GoesTo(p),
         list' \in {list, None}, held' \subseteq held
  PROVE  TypedTask'
  BY DEF TypedTask, Card!GoesTo, Steps, Card!Making

LEMMA TakesUpType ==
  ASSUME Card!ScrubAssumption, TypedTask, NEW p \in Card!Making \cup {"remove"}, NEW v \in VMIDs,
           Card!TakesUp(p, v),
         verdict' \in Card!Verdicts \cup {"nothing"}, UNCHANGED <<list, held>>
  PROVE  TypedTask'
  BY DEF TypedTask, Card!TakesUp, Steps, Card!ScrubAssumption

LEMMA CoreTypes == Card!ScrubAssumption /\ Card!TypeOK /\ Card!Core => Card!TypeOK'
<1> SUFFICES ASSUME Card!ScrubAssumption, Card!TypeOK, Card!Core PROVE Card!TypeOK'
  OBVIOUS
<1>1. UNCHANGED <<recorded, Card!host, Card!agent, settling, faults, cleaned>>
  BY DEF Card!Core
<1>2. Card!Key' \in Card!Keys /\ wants' \in BOOLEAN /\ tenant' \in BOOLEAN
  <2>0. /\ scrub \in 1 .. MaxKeys /\ attempt \in 1 .. MaxKeys /\ scrub + attempt =< MaxKeys /\
             MaxKeys \in Nat
        /\ wants \in BOOLEAN /\ tenant \in BOOLEAN
    BY DEF Card!TypeOK, Card!Key, Card!Keys, Card!ScrubAssumption
  <2>1. CASE Card!Sold \/ Card!Ends
    BY <2>0, <2>1 DEF Card!Sold, Card!Ends, Card!Key, Card!Keys
  <2>2. CASE Card!ComesBack
    <3>1. \A x, m \in Nat : x \in 1 .. m /\ x + 1 < m => x + 1 \in 1 .. m /\ 1 \in 1 .. m /\
            (x + 1) + 1 =< m
      OBVIOUS
    <3>2. scrub' \in 1 .. MaxKeys /\ attempt' \in 1 .. MaxKeys /\ scrub' + attempt' =< MaxKeys
      BY <2>0, <2>2, <3>1 DEF Card!ComesBack
    <3> QED BY <2>2, <3>2 DEF Card!ComesBack, Card!Key, Card!Keys
  <2>3. CASE Card!AsksAgain
    <3>1. \A x, y, m \in Nat : x \in 1 .. m /\ y \in 1 .. m /\ x + y < m => y + 1 \in 1 .. m /\
            x + (y + 1) =< m
      OBVIOUS
    <3>2. scrub' \in 1 .. MaxKeys /\ attempt' \in 1 .. MaxKeys /\ scrub' + attempt' =< MaxKeys
      BY <2>0, <2>3, <3>1 DEF Card!AsksAgain
    <3> QED BY <2>0, <2>3, <3>2 DEF Card!AsksAgain, Card!Key, Card!Keys
  <2> QED BY <2>1, <2>2, <2>3 DEF Card!Core
<1>3. TypedCore'
  BY <1>1, <1>2 DEF Card!TypeOK, TypedCore
<1>4. TypedLoop'
  BY <1>1, Typed DEF TypedLoop
<1> QED BY <1>1, <1>3, <1>4, Typed, TypedNext

LEMMA OtherTypes ==
  ASSUME Card!ScrubAssumption, Card!TypeOK, NEW v,
           (v \in VMIDs /\ (Card!CloneEnds(v) \/ Card!Program(v) \/ Card!Settle(v))) \/
              Card!SettleUndoes \/ Card!Crash
  PROVE  Card!TypeOK'
<1>a. TypedCore /\ TypedHost /\ TypedTask /\ TypedLoop
  BY Typed
<1>b. settling # None => settling \in VMIDs
  BY <1>a DEF TypedLoop
<1>c. \A x \in Card!Standing : guest[x] \in Card!Guests
  BY GuestsAre
<1>1. CASE v \in VMIDs /\ Card!CloneEnds(v)
  <2>1. UNCHANGED <<Card!core, journal, Card!agent, settling, cleaned>> /\
          (UNCHANGED faults \/ Card!Fault)
    BY <1>1 DEF Card!CloneEnds
  <2>2. TypedHost'
    BY <1>1, <1>a DEF Card!CloneEnds, TypedHost
  <2>3. TypedLoop'
    BY <2>1, <1>a, FaultsType DEF TypedLoop
  <2> QED BY <2>1, <2>2, <2>3, <1>a, Typed, TypedNext
<1>2. CASE v \in VMIDs /\ Card!Program(v)
  <2>1. UNCHANGED <<Card!core, task, journal, Card!agent, settling>> /\
          (UNCHANGED faults \/ Card!Fault)
    BY <1>2 DEF Card!Program, Card!Says, Card!RunsLate, Card!StopsFirst
  <2>2. TypedHost'
    <3>1. v \in Card!Standing /\ guest[v] \in Card!Guests
      BY <1>2, <1>c DEF Card!Program, Card!Says, Card!RunsLate, Card!StopsFirst
    <3>2. PICK g \in Card!Guests : guest' = [guest EXCEPT ![v] = g]
      BY <1>2, <3>1, GuestEdits DEF Card!Program, Card!Says, Card!RunsLate, Card!StopsFirst,
           Card!Verdicts
    <3> QED BY <2>1, <3>2, <1>a DEF TypedHost
  <2>3. TypedCore'
    <3>1. v \in Card!Standing /\ guest[v].key \in Card!Keys /\
            (UNCHANGED cleaned \/ cleaned' = cleaned \cup {guest[v].key})
      BY <1>2, <1>c DEF Card!Program, Card!Says, Card!RunsLate, Card!StopsFirst, Card!Guests
    <3> QED BY <2>1, <3>1, <1>a DEF TypedCore, Card!core, Card!Key
  <2>4. TypedLoop'
    BY <2>1, <1>a, FaultsType DEF TypedLoop
  <2> QED BY <2>1, <2>2, <2>3, <2>4, <1>a, Typed, TypedNext
<1>3. CASE v \in VMIDs /\ Card!Settle(v)
  <2>1. UNCHANGED <<Card!core, task, Card!agent, cleaned>> /\ (UNCHANGED faults \/ Card!Fault)
    BY <1>3 DEF Card!Settle, Card!Meets
  <2>2. TypedHost' /\ settling' \in VMIDs \cup {None}
    <3>1. CASE Card!SettleForgets(v)
      BY <2>1, <3>1, <1>a DEF Card!SettleForgets, Card!Forgets, TypedHost, TypedLoop
    <3>2. CASE Card!SettleTakes(v)
      <4>1. v \in Card!Standing /\ guest' = [guest EXCEPT ![v] = [guest[v] EXCEPT !.tag = TRUE]] /\
              Card!Abandoned(v) /\ settling' = v
        BY <3>2 DEF Card!SettleTakes
      <4>2. [guest[v] EXCEPT !.tag = TRUE] \in Card!Guests
        BY <4>1, <1>c, GuestEdits DEF Card!Verdicts
      <4>3. guest' \in [VMIDs -> Card!Guests \cup {None}]
        BY <4>1, <4>2, <1>a DEF TypedHost
      <4>4. journal' \in [VMIDs -> {"none", "asked", "cloning", "abandoned"}]
        BY <1>3, <4>1, HostTypes
      <4>5. task' \in [VMIDs -> {"none", "running", "ok", "failed"}]
        BY <2>1, <1>a DEF TypedHost
      <4>6. settling' \in VMIDs
        BY <1>3, <4>1
      <4> QED BY <4>3, <4>4, <4>5, <4>6 DEF TypedHost
    <3>3. CASE Card!SettleAgain(v)
      BY <1>3, <2>1, <3>3, <1>a DEF Card!SettleAgain, TypedHost
    <3> QED BY <1>3, <3>1, <3>2, <3>3 DEF Card!Settle
  <2>3. TypedLoop'
    BY <2>1, <2>2, <1>a, FaultsType DEF TypedLoop
  <2> QED BY <2>1, <2>2, <2>3, <1>a, Typed, TypedNext
<1>4. CASE Card!SettleUndoes
  <2>1. UNCHANGED <<Card!core, Card!agent, cleaned>> /\ (UNCHANGED faults \/ Card!Fault) /\
          settling' = None
    BY <1>4 DEF Card!SettleUndoes
  <2>2. TypedHost'
    BY <1>4, <1>a, <1>b, HostTypes DEF Card!SettleUndoes, TypedHost
  <2>3. TypedLoop'
    BY <2>1, <1>a, FaultsType DEF TypedLoop
  <2> QED BY <2>1, <2>2, <2>3, <1>a, Typed, TypedNext
<1>5. CASE Card!Crash
  <2>1. UNCHANGED <<Card!core, Card!host, cleaned>> /\ Card!Fault /\ Card!GoesTo("idle") /\
          list' = None /\ held' = {} /\ settling' = None
    BY <1>5 DEF Card!Crash
  <2>2. TypedTask'
    BY <2>1, <1>a, GoesToType
  <2>3. TypedLoop'
    BY <2>1, <1>a, FaultsType DEF TypedLoop
  <2> QED BY <2>1, <2>2, <2>3, <1>a, Typed, TypedNext
<1> QED BY <1>1, <1>2, <1>3, <1>4, <1>5

\* The steps of the task's look and of what it does of it.
LEMMA LookTypes ==
  Card!ScrubAssumption /\ Card!TypeOK /\ Card!AsksForward /\
     (Card!Ask \/ Card!Look \/ Card!Remove \/ Card!RemoveFails) => Card!TypeOK'
<1> SUFFICES ASSUME Card!ScrubAssumption, Card!TypeOK, Card!AsksForward, Card!Ask \/ Card!Look \/
   Card!Remove \/ Card!RemoveFails PROVE Card!TypeOK'
  OBVIOUS
<1>a. TypedCore /\ TypedHost /\ TypedTask /\ TypedLoop
  BY Typed
<1>b. UNCHANGED <<Card!core, settling, cleaned>> /\ (UNCHANGED faults \/ Card!Fault)
  BY DEF Card!Ask, Card!Look, Card!LookElsewhere, Card!LookAt, Card!Remove, Card!RemoveFails
<1>c. TypedLoop' /\ TypedCore'
  BY <1>a, <1>b, FaultsType, TypedNext DEF TypedLoop
<1>1. CASE Card!Ask
  <2>1. list' \in Card!Keys \cup {None} /\ UNCHANGED <<Card!host, held>>
    BY <1>1, <1>a DEF Card!Ask, TypedCore
  <2>2. TypedTask'
    BY <1>1, <1>a, <2>1 DEF Card!Ask, TypedTask, Card!GoesTo, Steps, Card!Making
  <2> QED BY <1>a, <1>c, <2>1, <2>2, Typed, TypedNext
<1>2. CASE Card!Look
  <2>1. UNCHANGED <<Card!host, list, held>>
    BY <1>2 DEF Card!Look
  <2>2. TypedTask'
    <3>1. CASE Card!LookElsewhere
      <4>1. Card!GoesTo("clear") \/ Card!GoesTo("sweep")
        BY <3>1 DEF Card!LookElsewhere
      <4> QED BY <2>1, <4>1, <1>a, GoesToType
    <3>2. ASSUME NEW v \in VMIDs, Card!LookAt(v) PROVE TypedTask'
      <4>1. v \in Card!Standing /\ guest[v].says \in Card!Verdicts \cup {"nothing"}
        BY <3>2, <1>a DEF Card!LookAt, Card!Claimed, Card!Standing, TypedHost, Card!Guests
      <4>2. Card!GoesTo("sweep") \/ (Card!TakesUp("remove", v) /\
              verdict' \in Card!Verdicts \cup {"nothing"})
        BY <3>2, <4>1 DEF Card!LookAt, Card!Concludes, Card!Read, Card!Verdicts
      <4> QED BY <2>1, <4>2, <1>a, GoesToType, TakesUpType
    <3> QED BY <1>2, <3>1, <3>2 DEF Card!Look
  <2> QED BY <1>a, <1>c, <2>1, <2>2, Typed, TypedNext
<1>3. CASE Card!Remove
  <2>1. at \in VMIDs /\ Card!Gone(at) /\ Card!GoesTo("sweep") /\ UNCHANGED <<journal, list>> /\
          Card!Holds(verdict) /\ pc = "remove"
    BY <1>3 DEF Card!Remove, Card!Standing
  <2>2. list \in Card!Keys /\ verdict \in Card!Verdicts \cup {"nothing"}
    BY <2>1, <1>a DEF Card!AsksForward, TypedTask
  <2>3. held' \in SUBSET [key : Card!Keys, outcome : Card!Verdicts]
    BY <2>1, <2>2, <1>a DEF Card!Holds, TypedTask
  <2>4. TypedTask'
    BY <1>a, <2>1, <2>3 DEF TypedTask, Card!GoesTo, Steps, Card!Making
  <2>5. TypedHost'
    BY <1>a, <2>1, HostTypes DEF TypedHost
  <2> QED BY <1>c, <2>4, <2>5, TypedNext
<1>4. CASE Card!RemoveFails
  <2>1. Card!GoesTo("sweep") /\ UNCHANGED <<journal, list, held>>
    BY <1>4 DEF Card!RemoveFails
  <2>2. TypedTask'
    BY <2>1, <1>a, GoesToType
  <2>3. TypedHost'
    <3>1. CASE UNCHANGED <<guest, task>>
      BY <2>1, <3>1, <1>a DEF TypedHost
    <3>2. CASE at \in Card!Standing /\ guest' = [guest EXCEPT ![at].up = FALSE] /\ UNCHANGED task
      <4>1. at \in VMIDs /\ [guest[at] EXCEPT !.up = FALSE] \in Card!Guests
        BY <3>2, GuestsAre, GuestEdits DEF Card!Verdicts
      <4> QED BY <2>1, <3>2, <4>1, <1>a DEF TypedHost
    <3>3. CASE at \in Card!Standing /\ Card!Gone(at)
      BY <2>1, <3>3, <1>a, HostTypes DEF TypedHost, Card!Standing
    <3> QED BY <1>4, <3>1, <3>2, <3>3 DEF Card!RemoveFails
  <2> QED BY <1>c, <2>2, <2>3, TypedNext
<1> QED BY <1>1, <1>2, <1>3, <1>4

\* The steps of start_scrub.
LEMMA MakeTypes ==
  ASSUME Card!ScrubAssumption, Card!TypeOK, Card!AsksForward, NEW v,
         (v \in VMIDs /\ Card!Begin(v)) \/ Card!Waits \/ Card!Clone \/ Card!CloneFails \/
            Card!Seen \/ Card!Finish \/ Card!Start \/ Card!FinishFails \/ Card!Undo
  PROVE  Card!TypeOK'
<1>a. TypedCore /\ TypedHost /\ TypedTask /\ TypedLoop
  BY Typed
<1>b. UNCHANGED <<Card!core, list, held, settling, cleaned>> /\ (UNCHANGED faults \/ Card!Fault)
  BY DEF Card!Begin, Card!Waits, Card!Clone, Card!CloneFails, Card!Seen, Card!Finish, Card!Start,
       Card!FinishFails, Card!Undo
<1>c. TypedLoop' /\ TypedCore'
  BY <1>a, <1>b, FaultsType, TypedNext DEF TypedLoop
<1>d. pc \in Card!Making => at \in VMIDs /\ list \in Card!Keys
  BY <1>a DEF TypedTask, Card!AsksForward
<1>e. at \in Card!Standing => guest[at] \in Card!Guests /\ at \in VMIDs
  BY GuestsAre
<1>f. ASSUME NEW x \in Card!Guests, at \in VMIDs, guest' = [guest EXCEPT ![at] = x]
      PROVE  guest' \in [VMIDs -> Card!Guests \cup {None}]
  BY <1>a, <1>f DEF TypedHost
<1>g. ASSUME at \in VMIDs, Card!Abandoned(at) \/ UNCHANGED journal \/
               \E w \in {"none", "asked", "cloning"} : journal' = [journal EXCEPT ![at] = w]
      PROVE  journal' \in [VMIDs -> {"none", "asked", "cloning", "abandoned"}]
  BY <1>a, <1>g DEF TypedHost, Card!Abandoned
<1>1. CASE v \in VMIDs /\ Card!Begin(v)
  <2>1. TypedTask'
    BY <1>1, <1>b, <1>a, TakesUpType DEF Card!Begin, Card!Making
  <2>2. TypedHost'
    BY <1>1, <1>a DEF Card!Begin, TypedHost
  <2> QED BY <1>c, <2>1, <2>2, TypedNext
<1>2. CASE Card!Waits
  <2>1. TypedTask' /\ TypedHost'
    BY <1>2, <1>b, <1>a, GoesToType, TypedNext DEF Card!Waits
  <2> QED BY <1>c, <2>1, TypedNext
<1>3. CASE Card!Clone
  <2>1. TypedTask'
    BY <1>3, <1>a DEF Card!Clone, TypedTask, Card!Making, Steps
  <2>2. TypedHost'
    BY <1>3, <1>d, <1>g, HostTypes DEF Card!Clone, Card!Making, TypedHost
  <2> QED BY <1>c, <2>1, <2>2, TypedNext
<1>4. CASE Card!CloneFails
  <2>1. TypedTask'
    BY <1>4, <1>b, <1>a, GoesToType DEF Card!CloneFails
  <2>2. TypedHost'
    BY <1>4, <1>a, <1>d, HostTypes DEF Card!CloneFails, Card!Making, TypedHost
  <2> QED BY <1>c, <2>1, <2>2, TypedNext
<1>5. CASE Card!Seen
  <2>1. TypedTask'
    <3>1. pc = "wait" /\ at \in VMIDs
      BY <1>5, <1>d DEF Card!Seen, Card!Making
    <3>2. verdict \in Card!Verdicts \cup {"nothing"}
      BY <1>a DEF TypedTask
    <3>3. Card!GoesTo("sweep") \/ ((Card!TakesUp("tag", at) \/ Card!TakesUp("undo", at)) /\
            UNCHANGED verdict)
      BY <1>5 DEF Card!Seen
    <3> QED BY <3>1, <3>2, <3>3, <1>a, <1>b, GoesToType, TakesUpType DEF Card!Making
  <2>2. TypedHost'
    BY <1>5, <1>a, <1>d, <1>g DEF Card!Seen, Card!Making, TypedHost
  <2> QED BY <1>c, <2>1, <2>2, TypedNext
<1>6. CASE Card!Finish
  <2>1. TypedTask'
    BY <1>6, <1>a DEF Card!Finish, Card!Tag, Card!Equip, TypedTask, Card!Making, Steps
  <2>2. TypedHost'
    <3>1. at \in VMIDs /\ guest[at] \in Card!Guests
      BY <1>6, <1>e DEF Card!Finish, Card!Tag, Card!Equip
    <3>2. \E x \in Card!Guests : guest' = [guest EXCEPT ![at] = x]
      BY <1>6, <3>1, GuestEdits DEF Card!Finish, Card!Tag, Card!Equip, Card!Verdicts
    <3>3. UNCHANGED task /\ (UNCHANGED journal \/ journal' = [journal EXCEPT ![at] = "none"])
      BY <1>6 DEF Card!Finish, Card!Tag, Card!Equip
    <3> QED BY <3>1, <3>2, <3>3, <1>a, <1>f, <1>g DEF TypedHost
  <2> QED BY <1>c, <2>1, <2>2, TypedNext
<1>7. CASE Card!Start
  <2>1. TypedTask'
    BY <1>7, <1>b, <1>a, GoesToType DEF Card!Start
  <2>2. TypedHost'
    <3>1. at \in VMIDs /\ guest[at] \in Card!Guests
      BY <1>7, <1>e DEF Card!Start
    <3>2. \E x \in Card!Guests : guest' = [guest EXCEPT ![at] = x]
      BY <1>7, <3>1, GuestEdits DEF Card!Start, Card!Verdicts
    <3> QED BY <1>7, <3>1, <3>2, <1>a, <1>f DEF Card!Start, TypedHost
  <2> QED BY <1>c, <2>1, <2>2, TypedNext
<1>8. CASE Card!FinishFails
  <2>1. TypedTask'
    BY <1>8, <1>a DEF Card!FinishFails, TypedTask, Card!Making, Steps
  <2>2. TypedHost'
    BY <1>8, <1>a, <1>d, <1>g DEF Card!FinishFails, Card!Making, TypedHost
  <2> QED BY <1>c, <2>1, <2>2, TypedNext
<1>9. CASE Card!Undo
  <2>1. TypedTask'
    BY <1>9, <1>b, <1>a, GoesToType DEF Card!Undo
  <2>2. TypedHost'
    BY <1>9, <1>a, <1>d, HostTypes DEF Card!Undo, Card!Making, TypedHost
  <2> QED BY <1>c, <2>1, <2>2, TypedNext
<1> QED BY <1>1, <1>2, <1>3, <1>4, <1>5, <1>6, <1>7, <1>8, <1>9

\* The sweep and the report.
LEMMA ReportTypes ==
  ASSUME Card!ScrubAssumption, Card!TypeOK, NEW v, (v \in VMIDs /\ Card!Sweep(v)) \/
           Card!SweepEnds \/ Card!Say
  PROVE  Card!TypeOK'
<1>a. TypedCore /\ TypedHost /\ TypedTask /\ TypedLoop
  BY Typed
<1>b. UNCHANGED <<settling, cleaned>> /\ (UNCHANGED faults \/ Card!Fault)
  BY DEF Card!Sweep, Card!SweepEnds, Card!Say
<1>c. TypedLoop'
  BY <1>a, <1>b, FaultsType DEF TypedLoop
<1>1. CASE v \in VMIDs /\ Card!Sweep(v)
  <2>1. TypedCore' /\ TypedTask'
    BY <1>1, <1>a, <1>b, TypedNext DEF Card!Sweep
  <2>2. TypedHost'
    BY <1>1, <1>a, HostTypes DEF Card!Sweep, TypedHost
  <2> QED BY <1>c, <2>1, <2>2, TypedNext
<1>2. CASE Card!SweepEnds
  <2>1. TypedCore' /\ TypedHost'
    BY <1>2, <1>a, <1>b, TypedNext DEF Card!SweepEnds
  <2>2. TypedTask'
    BY <1>2, <1>a, GoesToType DEF Card!SweepEnds
  <2> QED BY <1>c, <2>1, <2>2, TypedNext
<1>3. CASE Card!Say
  <2>1. TypedHost'
    BY <1>3, <1>a, TypedNext DEF Card!Say
  <2>2. TypedTask'
    BY <1>3, <1>a, GoesToType DEF Card!Say
  <2>3. TypedCore'
    <3>1. CASE UNCHANGED Card!core
      BY <1>b, <3>1, <1>a, TypedNext
    <3>2. CASE \E x \in held : Card!Records(x)
      <4>1. PICK x \in held : Card!Records(x)
        BY <3>2
      <4>2. x.key \in Card!Keys
        BY <1>a DEF TypedTask
      <4>3. recorded' \in SUBSET Card!Keys /\ wants' \in BOOLEAN /\ tenant' \in BOOLEAN
        <5>1. recorded' \in SUBSET Card!Keys
          BY <4>1, <4>2, <1>a DEF Card!Records, TypedCore
        <5>2. wants' \in BOOLEAN /\ tenant' \in BOOLEAN
          BY <4>1, <1>a DEF Card!Records, TypedCore
        <5> QED BY <5>1, <5>2
      <4>4. Card!Key' \in Card!Keys
        <5>0. scrub \in 1 .. MaxKeys /\ attempt \in 1 .. MaxKeys /\ scrub + attempt =< MaxKeys /\
                MaxKeys \in Nat
          BY <1>a DEF TypedCore, Card!Key, Card!Keys, Card!ScrubAssumption
        <5>1. CASE UNCHANGED attempt
          BY <4>1, <5>1, <1>a DEF Card!Records, TypedCore, Card!Key
        <5>2. CASE attempt' = attempt + 1 /\ scrub + attempt < MaxKeys
          <6>1. \A i, j, m \in Nat : i \in 1 .. m /\ j \in 1 .. m /\ i + j < m =>
                  j + 1 \in 1 .. m /\ i + (j + 1) =< m
            OBVIOUS
          <6>2. scrub' \in 1 .. MaxKeys /\ attempt' \in 1 .. MaxKeys /\ scrub' + attempt' =< MaxKeys
            BY <4>1, <5>0, <5>2, <6>1 DEF Card!Records
          <6> QED BY <6>2 DEF Card!Key, Card!Keys
        <5> QED BY <4>1, <5>1, <5>2 DEF Card!Records
      <4> QED BY <1>b, <1>a, <4>3, <4>4 DEF TypedCore
    <3> QED BY <1>3, <3>1, <3>2 DEF Card!Say
  <2> QED BY <1>c, <2>1, <2>2, <2>3, TypedNext
<1> QED BY <1>1, <1>2, <1>3

LEMMA ScrubTypes == Card!ScrubAssumption /\ Card!TypeOK /\ Card!AsksForward /\ Card!Next =>
   Card!TypeOK'
<1> SUFFICES ASSUME Card!ScrubAssumption, Card!TypeOK, Card!AsksForward, Card!Next
   PROVE Card!TypeOK'
  OBVIOUS
<1>1. CASE Card!Core \/ Card!Ask \/ Card!Look \/ Card!Remove \/ Card!RemoveFails
  BY <1>1, CoreTypes, LookTypes
<1>2. CASE Card!Crash \/ Card!SettleUndoes \/ \E v \in VMIDs : Card!CloneEnds(v) \/
             Card!Program(v) \/ Card!Settle(v)
  BY <1>2, OtherTypes
<1>3. CASE Card!Waits \/ Card!Clone \/ Card!CloneFails \/ Card!Seen \/ Card!Finish \/ Card!Start \/
             Card!FinishFails \/ Card!Undo \/ \E v \in VMIDs : Card!Begin(v)
  BY <1>3, MakeTypes
<1>4. CASE Card!SweepEnds \/ Card!Say \/ \E v \in VMIDs : Card!Sweep(v)
  BY <1>4, ReportTypes
<1> QED BY <1>1, <1>2, <1>3, <1>4 DEF Card!Next, Card!Task, Card!Reconcile

-----------------------------------------------------------------------------
\* The attempts in the order Core asks for them.
LEMMA BeforeOrders ==
  \A k, l, m \in Card!Keys :
    /\ Card!Before(k, k)
    /\ Card!Before(k, l) /\ Card!Before(l, m) => Card!Before(k, m)
    /\ Card!Before(k, l) /\ Card!Before(l, k) => k = l
  BY DEF Card!Before, Card!Keys

LEMMA AsksOn ==
  ASSUME Card!Key \in Card!Keys, Card!Key' \in Card!Keys,
         scrub' = scrub + 1 \/ (scrub' = scrub /\ attempt' = attempt + 1)
  PROVE  \A k \in Card!Keys : Card!Before(k, Card!Key) => Card!Before(k, Card!Key') /\ k # Card!Key'
<1>1. scrub \in Int /\ attempt \in Int
  BY DEF Card!Key, Card!Keys
<1> QED BY <1>1 DEF Card!Before, Card!Key, Card!Keys

\* Where the task has an attempt in hand.
Works == Card!Making \cup {"one", "clear", "remove"}

\* What most steps do not change: what Core asks, and what was heard of it.
Calm ==
  /\ UNCHANGED Card!core /\ held' \subseteq held /\ list' \in {list, None}
  /\ pc' \in Works => pc \in Works /\ list' = list
LEMMA CalmSteps ==
  ASSUME NEW v,
         \/ Card!Look \/ Card!RemoveFails \/ Card!Begin(v) \/ Card!Waits \/ Card!Clone \/
              Card!CloneFails \/ Card!Seen \/ Card!Finish
         \/ Card!Start \/ Card!FinishFails \/ Card!Undo \/ Card!Sweep(v) \/ Card!SweepEnds \/
              Card!CloneEnds(v) \/ Card!Program(v)
         \/ Card!Settle(v) \/ Card!SettleUndoes \/ Card!Crash
  PROVE  Calm
<1> USE DEF Calm, Works, Card!Making
<1>1. CASE Card!Look
  BY <1>1 DEF Card!Look
<1>2. CASE Card!RemoveFails \/ Card!Waits \/ Card!SweepEnds \/ Card!Crash
  BY <1>2 DEF Card!RemoveFails, Card!Waits, Card!SweepEnds, Card!Crash, Card!GoesTo
<1>3. CASE Card!Begin(v) \/ Card!Clone \/ Card!CloneFails \/ Card!Seen
  BY <1>3 DEF Card!Begin, Card!Clone, Card!CloneFails, Card!Seen
<1>4. CASE Card!Finish \/ Card!Start \/ Card!FinishFails \/ Card!Undo
  BY <1>4 DEF Card!Finish, Card!Tag, Card!Equip, Card!Start, Card!FinishFails, Card!Undo
<1>5. CASE Card!Sweep(v) \/ Card!CloneEnds(v) \/ Card!Program(v) \/ Card!Settle(v) \/
             Card!SettleUndoes
  BY <1>5 DEF Card!Sweep, Card!CloneEnds, Card!Program, Card!Settle, Card!SettleUndoes, Card!agent
<1> QED BY <1>1, <1>2, <1>3, <1>4, <1>5

LEMMA NextSteps ==
  ASSUME Card!Next
  PROVE  \/ Card!Core \/ Card!Ask \/ Card!Remove \/ Card!Say
         \/ \E v : \/ Card!Look \/ Card!RemoveFails \/ Card!Begin(v) \/ Card!Waits \/ Card!Clone \/
                        Card!CloneFails \/ Card!Seen \/ Card!Finish
                   \/ Card!Start \/ Card!FinishFails \/ Card!Undo \/ Card!Sweep(v) \/
                        Card!SweepEnds \/ Card!CloneEnds(v) \/ Card!Program(v)
                   \/ Card!Settle(v) \/ Card!SettleUndoes \/ Card!Crash
  BY DEF Card!Next, Card!Task, Card!Reconcile

LEMMA AsksForwardStep ==
  Card!ScrubAssumption /\ Card!TypeOK /\ Card!AsksForward /\ Card!Next => Card!AsksForward'
<1> SUFFICES ASSUME Card!ScrubAssumption, Card!TypeOK, Card!AsksForward, Card!Next
   PROVE Card!AsksForward'
  OBVIOUS
<1>a. /\ Card!Key \in Card!Keys /\ recorded \in SUBSET Card!Keys /\
           list \in Card!Keys \cup {None} /\ None \notin Card!Keys
      /\ held \in SUBSET [key : Card!Keys, outcome : Card!Verdicts]
  BY DEF Card!TypeOK, Card!ScrubAssumption
<1>b. Card!TypeOK' /\ Card!Key' \in Card!Keys
  BY ScrubTypes DEF Card!TypeOK
<1>1. ASSUME Calm PROVE Card!AsksForward'
  <2>1. Card!Key' = Card!Key /\ recorded' = recorded /\ wants' = wants /\ tenant' = tenant
    BY <1>1 DEF Calm, Card!core, Card!Key
  <2>2. held' \subseteq held /\ list' \in {list, None} /\
          (pc' \in Works => pc \in Works /\ list' = list)
    BY <1>1 DEF Calm
  <2>3. list # None => Card!Before(list, Card!Key) /\ \A x \in held : Card!Before(x.key, list)
    BY DEF Card!AsksForward
  <2>4. list' # None => Card!Before(list', Card!Key') /\ \A x \in held' : Card!Before(x.key, list')
    BY <2>1, <2>2, <2>3
  <2> QED BY <2>1, <2>2, <2>4 DEF Card!AsksForward, Works
<1>2. CASE Card!Core
  <2>1. UNCHANGED <<recorded, list, held, pc>>
    BY <1>2 DEF Card!Core, Card!agent
  <2>2. CASE Card!Sold \/ Card!Ends
    <3>1. Card!Key' = Card!Key /\ (wants' => wants) /\ (tenant' => tenant \/ Card!Key \in recorded)
      BY <2>2 DEF Card!Sold, Card!Ends, Card!Key
    <3> QED BY <2>1, <3>1 DEF Card!AsksForward
  <2>3. CASE Card!ComesBack \/ Card!AsksAgain
    <3>1. \A k \in Card!Keys : Card!Before(k, Card!Key) => Card!Before(k, Card!Key') /\
            k # Card!Key'
      BY <2>3, <1>a, <1>b, AsksOn DEF Card!ComesBack, Card!AsksAgain
    <3>2. Card!Key' \notin recorded'
      BY <2>1, <3>1, <1>a DEF Card!AsksForward
    <3>3. ~tenant'
      BY <2>3 DEF Card!ComesBack, Card!AsksAgain, Card!AsksForward
    <3>4. /\ \A k \in recorded' : Card!Before(k, Card!Key')
          /\ \A x \in held' : Card!Before(x.key, Card!Key')
          /\ list' # None => Card!Before(list', Card!Key')
      BY <2>1, <3>1, <1>a DEF Card!AsksForward
    <3> QED BY <2>1, <3>2, <3>3, <3>4 DEF Card!AsksForward
  <2> QED BY <1>2, <2>2, <2>3 DEF Card!Core
<1>3. CASE Card!Ask
  <2>1. UNCHANGED Card!core /\ held' = held /\ Card!Key' = Card!Key /\
          list' = (IF wants THEN Card!Key ELSE None)
    BY <1>3 DEF Card!Ask, Card!core, Card!Key
  <2>2. pc' \in Works => wants
    BY <1>3 DEF Card!Ask, Card!GoesTo, Works, Card!Making
  <2>3. list' # None => Card!Before(list', Card!Key') /\ \A x \in held' : Card!Before(x.key, list')
    BY <2>1, <1>a, BeforeOrders DEF Card!AsksForward
  <2>4. wants => list' # None
    BY <2>1, <1>a
  <2> QED BY <2>1, <2>2, <2>3, <2>4 DEF Card!AsksForward, Works, Card!core
<1>4. CASE Card!Remove
  <2>1. UNCHANGED Card!core /\ list' = list /\ Card!Key' = Card!Key /\ pc' = "sweep"
    BY <1>4 DEF Card!Remove, Card!core, Card!Key, Card!GoesTo
  <2>2. list \in Card!Keys /\ Card!Before(list, Card!Key) /\ Card!Before(list, list)
    BY <1>4, <1>a, BeforeOrders DEF Card!Remove, Card!AsksForward
  <2>3. \A x \in held' : x \in held \/ x.key = list
    BY <1>4 DEF Card!Remove, Card!Holds
  <2>4. \A x \in held' : Card!Before(x.key, Card!Key') /\ Card!Before(x.key, list')
    BY <2>1, <2>2, <2>3, <1>a DEF Card!AsksForward
  <2> QED BY <2>1, <2>2, <2>4, <1>a DEF Card!AsksForward, Card!core, Card!Making
<1>5. CASE Card!Say
  <2>1. list' = None /\ held' \subseteq held /\ pc' = "idle"
    BY <1>5 DEF Card!Say, Card!GoesTo
  <2>2. CASE UNCHANGED Card!core
    BY <2>1, <2>2 DEF Card!AsksForward, Card!core, Card!Key, Card!Making
  <2>3. CASE \E x \in held : wants /\ x.key = Card!Key /\ Card!Records(x)
    <3>1. PICK x \in held : wants /\ x.key = Card!Key /\ Card!Records(x)
      BY <2>3
    <3>2. Card!Key \notin recorded /\ ~tenant /\ ~tenant'
      BY <3>1 DEF Card!AsksForward, Card!Records
    <3>3. CASE attempt' = attempt + 1 /\ recorded' = recorded /\ scrub' = scrub
      <4>1. \A k \in Card!Keys : Card!Before(k, Card!Key) => Card!Before(k, Card!Key') /\
              k # Card!Key'
        BY <3>3, <1>a, <1>b, AsksOn
      <4>2. \A k \in recorded' : Card!Before(k, Card!Key') /\ k # Card!Key'
        BY <3>3, <4>1, <1>a DEF Card!AsksForward
      <4>3. \A y \in held' : Card!Before(y.key, Card!Key')
        BY <2>1, <4>1, <1>a DEF Card!AsksForward
      <4> QED BY <2>1, <3>2, <4>2, <4>3 DEF Card!AsksForward, Card!Making
    <3>4. CASE wants' = FALSE /\ Card!Key' = Card!Key /\
                 recorded' \subseteq recorded \cup {Card!Key}
      <4>1. \A k \in recorded' : Card!Before(k, Card!Key')
        BY <3>4, <1>a, BeforeOrders DEF Card!AsksForward
      <4> QED BY <2>1, <3>2, <3>4, <4>1 DEF Card!AsksForward, Card!Making
    <3> QED BY <3>1, <3>3, <3>4 DEF Card!Records, Card!Key
  <2> QED BY <1>5, <2>2, <2>3 DEF Card!Say
<1> QED BY <1>1, <1>2, <1>3, <1>4, <1>5, NextSteps, CalmSteps

-----------------------------------------------------------------------------
\* What every step but two does of the guests: one that stands after it stood before
\* and was given no card, or is a new clone, which is not run yet.
Kept(v) ==
  /\ v \in Card!Standing /\ guest'[v].key = guest[v].key /\ guest'[v].card = guest[v].card
  /\ guest'[v].up => guest[v].up
  /\ guest'[v].says = "clean" => guest[v].says = "clean" \/ guest[v].key \in cleaned'
New(v) == ~guest'[v].card /\ ~guest'[v].up /\ guest'[v].says = "nothing"
Quiet ==
  /\ cleaned \subseteq cleaned'
  /\ \A v \in Card!Standing' : Kept(v) \/ (New(v) /\ pc' \in {"wait", "sweep"})

LEMMA StillKept ==
  ASSUME UNCHANGED guest, cleaned \subseteq cleaned'
  PROVE  Quiet
  BY DEF Quiet, Kept, Card!Standing

\* One guest's record changes, or the guest goes.
LEMMA EditKept ==
  ASSUME Card!TypeOK, None \notin Card!Guests, cleaned \subseteq cleaned', NEW v \in VMIDs, NEW x,
         guest' = [guest EXCEPT ![v] = x],
         \/ x = None
         \/ /\ v \in Card!Standing
            /\ \/ x = [guest[v] EXCEPT !.tag = TRUE]
               \/ x = [guest[v] EXCEPT !.up = FALSE]
               \/ x = [guest[v] EXCEPT !.late = TRUE]
               \/ x = [guest[v] EXCEPT !.says = "failed"]
               \/ x = [guest[v] EXCEPT !.says = "clean"] /\ guest[v].key \in cleaned'
  PROVE  Quiet
<1>1. guest' \in [VMIDs -> Card!Guests \cup {None, x}] /\ guest'[v] = x /\ \A w \in VMIDs \ {v} :
        guest'[w] = guest[w]
  BY DEF Card!TypeOK
<1>2. \A w \in Card!Standing' \ {v} : Kept(w)
  BY <1>1 DEF Kept, Card!Standing
<1>3. ASSUME v \in Card!Standing' PROVE Kept(v)
  <2>1. x # None /\ v \in Card!Standing
    BY <1>1, <1>3 DEF Card!Standing
  <2>2. guest[v] \in Card!Guests
    BY <2>1, GuestsAre
  <2>3. /\ x.key = guest[v].key /\ x.card = guest[v].card
        /\ x.up => guest[v].up
        /\ x.says = "clean" => guest[v].says = "clean" \/ guest[v].key \in cleaned'
    BY <2>1, <2>2 DEF Card!Guests
  <2> QED BY <1>1, <2>1, <2>3 DEF Kept
<1> QED BY <1>2, <1>3 DEF Quiet

LEMMA CloneKept ==
  ASSUME Card!TypeOK, cleaned \subseteq cleaned', NEW v \in VMIDs, Card!Cloned(v),
           pc' \in {"wait", "sweep"}
  PROVE  Quiet
<1> DEFINE x == [key |-> list, tag |-> FALSE, card |-> FALSE, up |-> FALSE, late |-> FALSE,
   says |-> "nothing"]
<1>1. ~x.card /\ ~x.up /\ x.says = "nothing"
  OBVIOUS
<1>2. guest' = [guest EXCEPT ![v] = x]
  BY DEF Card!Cloned
<1> HIDE DEF x
<1>3. guest'[v] = x /\ \A w \in VMIDs \ {v} : guest'[w] = guest[w]
  BY <1>2 DEF Card!TypeOK
<1>4. \A w \in Card!Standing' \ {v} : Kept(w)
  BY <1>3 DEF Kept, Card!Standing
<1>5. New(v)
  BY <1>1, <1>3 DEF New
<1> QED BY <1>4, <1>5 DEF Quiet

LEMMA QuietSteps ==
  ASSUME Card!ScrubAssumption, Card!TypeOK, Card!Next, ~(Card!Finish /\ Card!Equip), ~Card!Start
  PROVE  Quiet
<1>a. None \notin Card!Guests
  BY DEF Card!ScrubAssumption
<1>b. pc \in Card!Making \cup {"remove"} => at \in VMIDs
  BY DEF Card!TypeOK
<1>c. settling # None => settling \in VMIDs
  BY DEF Card!TypeOK
<1>1. CASE Card!Core \/ Card!Ask \/ Card!Look \/ Card!Waits \/ Card!Seen \/ Card!FinishFails \/
             Card!SweepEnds \/ Card!Say \/ Card!Crash
  <2>1. UNCHANGED <<guest, cleaned>>
    BY <1>1 DEF Card!Core, Card!Ask, Card!Look, Card!Waits, Card!Seen, Card!FinishFails,
         Card!SweepEnds, Card!Say, Card!Crash, Card!host
  <2> QED BY <2>1, StillKept
<1>2. ASSUME NEW v \in VMIDs, Card!Begin(v) \/ Card!Sweep(v) \/ Card!CloneEnds(v) PROVE Quiet
  <2>1. cleaned' = cleaned
    BY <1>2 DEF Card!Begin, Card!Sweep, Card!CloneEnds
  <2>2. UNCHANGED guest \/ guest' = [guest EXCEPT ![v] = None]
    BY <1>2 DEF Card!Begin, Card!Sweep, Card!CloneEnds, Card!Gone
  <2> QED BY <1>a, <2>1, <2>2, StillKept, EditKept
<1>3. CASE Card!Remove \/ Card!RemoveFails
  <2>1. cleaned' = cleaned /\ at \in VMIDs
    BY <1>3, <1>b DEF Card!Remove, Card!RemoveFails
  <2>2. \/ UNCHANGED guest
        \/ guest' = [guest EXCEPT ![at] = None]
        \/ at \in Card!Standing /\ guest' = [guest EXCEPT ![at] = [guest[at] EXCEPT !.up = FALSE]]
    BY <1>3 DEF Card!Remove, Card!RemoveFails, Card!Gone
  <2> QED BY <1>a, <2>1, <2>2, StillKept, EditKept
<1>4. CASE Card!Clone \/ Card!CloneFails
  <2>1. cleaned' = cleaned /\ at \in VMIDs /\ pc' \in {"wait", "sweep"} /\
          (Card!Cloned(at) \/ UNCHANGED guest)
    BY <1>4, <1>b DEF Card!Clone, Card!CloneFails, Card!Making, Card!GoesTo
  <2> QED BY <2>1, StillKept, CloneKept
<1>5. CASE Card!Finish \/ Card!Undo
  <2>1. cleaned' = cleaned /\ at \in VMIDs
    BY <1>5, <1>b DEF Card!Finish, Card!Tag, Card!Equip, Card!Undo, Card!Making
  <2>2. \/ UNCHANGED guest
        \/ guest' = [guest EXCEPT ![at] = None]
        \/ at \in Card!Standing /\ guest' = [guest EXCEPT ![at] = [guest[at] EXCEPT !.tag = TRUE]]
    BY <1>5 DEF Card!Finish, Card!Tag, Card!Undo, Card!Undone, Card!Gone
  <2> QED BY <1>a, <2>1, <2>2, StillKept, EditKept
<1>6. CASE Card!SettleUndoes
  <2>1. cleaned' = cleaned /\ settling \in VMIDs
    BY <1>6, <1>c DEF Card!SettleUndoes
  <2>2. UNCHANGED guest \/ guest' = [guest EXCEPT ![settling] = None]
    BY <1>6 DEF Card!SettleUndoes, Card!Undone, Card!Gone
  <2> QED BY <1>a, <2>1, <2>2, StillKept, EditKept
<1>7. ASSUME NEW v \in VMIDs, Card!Settle(v) PROVE Quiet
  <2>1. cleaned' = cleaned
    BY <1>7 DEF Card!Settle
  <2>2. \/ UNCHANGED guest
        \/ v \in Card!Standing /\ guest' = [guest EXCEPT ![v] = [guest[v] EXCEPT !.tag = TRUE]]
    BY <1>7 DEF Card!Settle, Card!SettleForgets, Card!Forgets, Card!SettleTakes, Card!SettleAgain
  <2> QED BY <1>a, <2>1, <2>2, StillKept, EditKept
<1>8. ASSUME NEW v \in VMIDs, Card!Program(v) PROVE Quiet
  <2>1. v \in Card!Standing /\ cleaned \subseteq cleaned'
    BY <1>8 DEF Card!Program, Card!Says, Card!RunsLate, Card!StopsFirst
  <2>2. \/ guest' = [guest EXCEPT ![v] = [guest[v] EXCEPT !.up = FALSE]]
        \/ guest' = [guest EXCEPT ![v] = [guest[v] EXCEPT !.late = TRUE]]
        \/ guest' = [guest EXCEPT ![v] = [guest[v] EXCEPT !.says = "failed"]]
        \/ guest' = [guest EXCEPT ![v] = [guest[v] EXCEPT !.says = "clean"]] /\
             guest[v].key \in cleaned'
    BY <1>8 DEF Card!Program, Card!Says, Card!RunsLate, Card!StopsFirst, Card!Verdicts
  <2> QED BY <1>a, <2>1, <2>2, EditKept
<1> QED BY <1>1, <1>2, <1>3, <1>4, <1>5, <1>6, <1>7, <1>8 DEF Card!Next, Card!Task, Card!Reconcile

\* Of the cards and the words, what a step that is quiet keeps.
LEMMA QuietKeeps ==
  ASSUME Card!CardGiven, Card!CleanIsSaid, Quiet
  PROVE  /\ \A v, w \in Card!Standing' : guest'[v].card /\ guest'[w].card => v = w
         /\ \A v \in Card!Standing' : guest'[v].up => guest'[v].card
         /\ \A v \in Card!Standing' : guest'[v].says = "clean" => guest'[v].key \in cleaned'
         /\ (\A v \in Card!Standing : ~guest[v].card) => \A v \in Card!Standing' : ~guest'[v].card
         /\ pc' \notin {"wait", "sweep"} => \A v \in Card!Standing' : v \in Card!Standing /\
              guest'[v].card = guest[v].card
<1>1. \A v \in Card!Standing' :
        \/ v \in Card!Standing /\ guest'[v].card = guest[v].card
        \/ ~guest'[v].card /\ pc' \in {"wait", "sweep"}
  BY DEF Quiet, Kept, New
<1>2. \A v, w \in Card!Standing' : guest'[v].card /\ guest'[w].card => v = w
  BY <1>1 DEF Card!CardGiven
<1>3. ASSUME NEW v \in Card!Standing' PROVE guest'[v].up => guest'[v].card
  BY <1>3 DEF Quiet, Kept, New, Card!CardGiven
<1>4. ASSUME NEW v \in Card!Standing' PROVE guest'[v].says = "clean" => guest'[v].key \in cleaned'
  <2>1. CASE Kept(v)
    BY <2>1 DEF Kept, Card!CleanIsSaid, Quiet
  <2>2. CASE New(v)
    BY <2>2 DEF New
  <2> QED BY <2>1, <2>2 DEF Quiet
<1> QED BY <1>1, <1>2, <1>3, <1>4

\* What of the task's place in its pass the invariants are about.
NoCardYet == {"asked", "wait", "tag", "equip"}
LEMMA TaskMoves ==
  ASSUME Card!Next, ~(Card!Finish /\ Card!Equip), ~Card!Start
  PROVE  /\ pc' \in NoCardYet => pc \in NoCardYet \/ Card!Unnamed
         /\ pc' = "start" => pc = "start" /\ at' = at
         /\ pc' = "remove" /\ verdict' = "clean" =>
              \/ pc = "remove" /\ verdict = "clean" /\ at' = at /\ list' = list
              \/ /\ list' = list /\ at' \in Card!Standing
                 /\ guest[at'].up /\ guest[at'].says = "clean" /\ guest[at'].key = list
         /\ pc' \in Card!Making \cup {"clear"} => pc \in Card!Making \cup {"clear"} \/
              (pc = "one" /\ ~Card!Answered)
<1> DEFINE Moves ==
         /\ pc' \in NoCardYet => pc \in NoCardYet \/ Card!Unnamed
         /\ pc' = "start" => pc = "start" /\ at' = at
         /\ pc' = "remove" /\ verdict' = "clean" =>
              \/ pc = "remove" /\ verdict = "clean" /\ at' = at /\ list' = list
              \/ /\ list' = list /\ at' \in Card!Standing
                 /\ guest[at'].up /\ guest[at'].says = "clean" /\ guest[at'].key = list
         /\ pc' \in Card!Making \cup {"clear"} => pc \in Card!Making \cup {"clear"} \/
              (pc = "one" /\ ~Card!Answered)
<1>1. CASE UNCHANGED Card!agent
  BY <1>1 DEF Card!agent
<1>2. CASE Card!Ask \/ Card!Remove \/ Card!RemoveFails \/ Card!Waits \/ Card!CloneFails \/
             Card!Undo \/ Card!SweepEnds \/ Card!Say \/ Card!Crash
  <2>1. pc' \in {"one", "idle", "sweep", "report"}
    BY <1>2 DEF Card!Ask, Card!Remove, Card!RemoveFails, Card!Waits, Card!CloneFails, Card!Undo,
         Card!SweepEnds, Card!Say, Card!Crash, Card!GoesTo
  <2> QED BY <2>1 DEF Card!Making, NoCardYet
<1>3. CASE Card!Look
  <2>1. pc = "one" /\ list' = list
    BY <1>3 DEF Card!Look
  <2>2. CASE Card!LookElsewhere
    <3>1. pc' = "sweep" \/ (pc' = "clear" /\ ~Card!Answered)
      BY <2>2 DEF Card!LookElsewhere, Card!GoesTo
    <3> QED BY <2>1, <3>1 DEF Card!Making, NoCardYet
  <2>3. ASSUME NEW v \in VMIDs, Card!LookAt(v) PROVE Moves
    <3>1. pc' \in {"sweep", "remove"} /\ v \in Card!Standing
      BY <2>3 DEF Card!LookAt, Card!GoesTo, Card!TakesUp, Card!Claimed
    <3>2. ASSUME verdict' = "clean", pc' = "remove"
          PROVE  at' = v /\ guest[v].up /\ guest[v].says = "clean" /\ guest[v].key = list
      <4>1. ~Card!OtherAttempt(v)
        BY <2>3, <3>2 DEF Card!LookAt
      <4>2. PICK saying \in {Card!Read(v), "nothing"} : Card!Concludes(v, saying) # "nothing" /\
                   Card!TakesUp("remove", v) /\ verdict' = Card!Concludes(v, saying)
        BY <2>3, <3>2, <4>1 DEF Card!LookAt, Card!GoesTo
      <4>3. saying = "clean"
        BY <3>2, <4>2 DEF Card!Concludes
      <4>4. Card!Read(v) = "clean"
        BY <4>2, <4>3
      <4> QED BY <4>1, <4>2, <4>4 DEF Card!Read, Card!OtherAttempt, Card!TakesUp
    <3> QED BY <2>1, <3>1, <3>2 DEF Card!Making, NoCardYet
  <2> QED BY <1>3, <2>2, <2>3 DEF Card!Look
<1>4. ASSUME NEW v \in VMIDs, Card!Begin(v) PROVE Moves
  BY <1>4 DEF Card!Begin, Card!TakesUp, Card!Making, NoCardYet
<1>5. CASE Card!Clone \/ Card!Seen \/ Card!Finish \/ Card!FinishFails
  BY <1>5 DEF Card!Clone, Card!Seen, Card!Finish, Card!Tag, Card!FinishFails, Card!TakesUp,
       Card!GoesTo, Card!Making, NoCardYet
<1>6. Card!Core \/ Card!SettleUndoes \/
        (\E v \in VMIDs : Card!Sweep(v) \/ Card!Settle(v) \/ Card!CloneEnds(v) \/
           Card!Program(v)) => UNCHANGED Card!agent
  BY DEF Card!Core, Card!SettleUndoes, Card!Sweep, Card!Settle, Card!CloneEnds, Card!Program,
       Card!agent
<1> QED BY <1>1, <1>2, <1>3, <1>4, <1>5, <1>6 DEF Card!Next, Card!Task, Card!Reconcile

\* The two that are not quiet: the guest in hand is given the card, and it is run.
LEMMA EquipStep ==
  ASSUME Card!ScrubAssumption, Card!TypeOK, Card!CardGiven, Card!CleanIsSaid, Card!Finish,
           Card!Equip
  PROVE  Card!CardGiven' /\ Card!CleanIsSaid'
<1>1. at \in Card!Standing /\ at \in VMIDs /\ guest[at] \in Card!Guests /\ \A v \in Card!Standing :
        ~guest[v].card
  BY GuestsAre DEF Card!Equip, Card!CardGiven
<1>2. guest'[at] = [guest[at] EXCEPT !.card = TRUE] /\ \A v \in VMIDs \ {at} : guest'[v] = guest[v]
  BY <1>1 DEF Card!Equip, Card!TypeOK
<1>3. pc = "equip" /\ pc' = "start" /\ UNCHANGED <<at, list, verdict, held, cleaned>>
  BY DEF Card!Finish, Card!Equip
<1>4. guest'[at].card = TRUE /\ guest'[at].says = guest[at].says /\ guest'[at].key = guest[at].key
  BY <1>1, <1>2 DEF Card!Guests
<1>5. \A v \in Card!Standing' : v # at => v \in Card!Standing /\ guest'[v] = guest[v]
  BY <1>2 DEF Card!Standing
<1>6. Card!CardGiven'
  BY <1>1, <1>3, <1>4, <1>5 DEF Card!CardGiven
<1>7. Card!CleanIsSaid'
  BY <1>1, <1>3, <1>4, <1>5 DEF Card!CleanIsSaid
<1> QED BY <1>6, <1>7

LEMMA StartStep ==
  ASSUME Card!ScrubAssumption, Card!TypeOK, Card!CardGiven, Card!CleanIsSaid, Card!Start
  PROVE  Card!CardGiven' /\ Card!CleanIsSaid' /\
           ((\A v \in Card!Standing : ~guest[v].card) => \A v \in Card!Standing' : ~guest'[v].card)
<1>1. at \in Card!Standing /\ at \in VMIDs /\ guest[at] \in Card!Guests /\ guest[at].card
  BY GuestsAre DEF Card!Start, Card!CardGiven
<1>2. guest'[at] = [guest[at] EXCEPT !.up = TRUE] /\ \A v \in VMIDs \ {at} : guest'[v] = guest[v]
  BY <1>1 DEF Card!Start, Card!TypeOK
<1>3. pc' = "sweep" /\ UNCHANGED <<list, held, cleaned>>
  BY DEF Card!Start, Card!GoesTo
<1>4. guest'[at].card = guest[at].card /\ guest'[at].says = guest[at].says /\
        guest'[at].key = guest[at].key
  BY <1>1, <1>2 DEF Card!Guests
<1>5. \A v \in Card!Standing' : v # at => v \in Card!Standing /\ guest'[v] = guest[v]
  BY <1>2 DEF Card!Standing
<1>6. Card!CardGiven'
  BY <1>1, <1>3, <1>4, <1>5 DEF Card!CardGiven
<1>7. Card!CleanIsSaid'
  BY <1>1, <1>3, <1>4, <1>5 DEF Card!CleanIsSaid
<1> QED BY <1>1, <1>6, <1>7

LEMMA CardGivenStep ==
  ASSUME Card!ScrubAssumption, Card!TypeOK, Card!CardGiven, Card!CleanIsSaid, Card!Next
  PROVE  Card!CardGiven'
<1>1. CASE (Card!Finish /\ Card!Equip) \/ Card!Start
  BY <1>1, EquipStep, StartStep
<1>2. CASE ~(Card!Finish /\ Card!Equip) /\ ~Card!Start
  <2>1. Quiet
    BY <1>2, QuietSteps
  <2>2. pc' \in NoCardYet => \A v \in Card!Standing' : ~guest'[v].card
    BY <1>2, <2>1, TaskMoves, QuietKeeps DEF Card!CardGiven, NoCardYet, Card!Unnamed
  <2>3. ASSUME at' \in Card!Standing', pc' = "start" \/ (pc' = "remove" /\ verdict' = "clean")
        PROVE  guest'[at'].card
    <3>1. guest'[at'].card = guest[at'].card /\ at' \in Card!Standing
      BY <2>1, <2>3, QuietKeeps
    <3>2. guest[at'].card
      BY <1>2, <2>3, <3>1, TaskMoves DEF Card!CardGiven
    <3> QED BY <3>1, <3>2
  <2> QED BY <2>1, <2>2, <2>3, QuietKeeps DEF Card!CardGiven, NoCardYet
<1> QED BY <1>1, <1>2

LEMMA CleanIsSaidStep ==
  ASSUME Card!ScrubAssumption, Card!TypeOK, Card!CardGiven, Card!CleanIsSaid, Card!Next
  PROVE  Card!CleanIsSaid'
<1>1. CASE (Card!Finish /\ Card!Equip) \/ Card!Start
  BY <1>1, EquipStep, StartStep
<1>2. CASE ~(Card!Finish /\ Card!Equip) /\ ~Card!Start
  <2>1. Quiet
    BY <1>2, QuietSteps
  <2>2. cleaned \subseteq cleaned'
    BY <2>1 DEF Quiet
  <2>3. pc' = "remove" /\ verdict' = "clean" => list' \in cleaned'
    BY <1>2, <2>2, TaskMoves DEF Card!CleanIsSaid
  <2>4. \A x \in held' : x \in held \/ (x.outcome = "clean" => x.key \in cleaned)
    <3>1. CASE Card!Remove
      BY <3>1 DEF Card!Remove, Card!Holds, Card!CleanIsSaid
    <3>2. CASE Card!Core \/ Card!Ask \/ Card!Say
      BY <3>2 DEF Card!Core, Card!agent, Card!Ask, Card!Say
    <3>3. CASE Calm
      BY <3>3 DEF Calm
    <3> QED BY <3>1, <3>2, <3>3, NextSteps, CalmSteps
  <2>5. \A x \in held' : x.outcome = "clean" => x.key \in cleaned'
    BY <2>2, <2>4 DEF Card!CleanIsSaid
  <2> QED BY <2>1, <2>3, <2>5, QuietKeeps DEF Card!CleanIsSaid
<1> QED BY <1>1, <1>2

\* Known clean, an attempt is at its end: no step makes a guest of it.
LEMMA ConcludedStep ==
  ASSUME Card!ScrubAssumption, Card!TypeOK, Card!AsksForward, Card!CardGiven, Card!CleanIsSaid,
           Card!ConcludedIsFree, Card!Next
  PROVE  Card!ConcludedIsFree'
<1>a. /\ Card!Key \in Card!Keys /\ recorded \in SUBSET Card!Keys /\
           list \in Card!Keys \cup {None} /\ None \notin Card!Keys
      /\ held \in SUBSET [key : Card!Keys, outcome : Card!Verdicts]
  BY DEF Card!TypeOK, Card!ScrubAssumption
<1>b. Card!Key' \in Card!Keys
  BY ScrubTypes DEF Card!TypeOK
<1>1. Card!Concluded => pc \notin Card!Making \cup {"clear"} /\ ~(pc = "one" /\ ~Card!Answered)
  <2>1. ASSUME Card!Concluded, pc = "one" PROVE Card!Answered
    <3>1. list \in Card!Keys /\ Card!Key \notin recorded
      BY <1>a, <2>1 DEF Card!AsksForward
    <3>2. PICK x \in held : x.key = Card!Key
      BY <2>1, <3>1 DEF Card!Concluded
    <3>3. Card!Before(Card!Key, list) /\ Card!Before(list, Card!Key)
      BY <3>1, <3>2, <1>a DEF Card!AsksForward
    <3>4. list = Card!Key
      BY <3>1, <3>3, <1>a, BeforeOrders
    <3> QED BY <3>2, <3>4 DEF Card!Answered
  <2> QED BY <2>1 DEF Card!ConcludedIsFree
<1>2. Card!Concluded' => Card!Concluded \/ (Card!Remove /\ verdict = "clean" /\ list = Card!Key)
  <2>1. ASSUME Card!Concluded', Card!Remove PROVE Card!Concluded \/
                 (verdict = "clean" /\ list = Card!Key)
    <3>1. Card!Key' = Card!Key /\ recorded' = recorded
      BY <2>1 DEF Card!Remove, Card!core, Card!Key
    <3>2. \A x \in held' : x \in held \/ x = [key |-> list, outcome |-> verdict]
      BY <2>1 DEF Card!Remove, Card!Holds
    <3> QED BY <2>1, <3>1, <3>2 DEF Card!Concluded
  <2>2. ASSUME Card!Concluded', Calm \/ Card!Ask PROVE Card!Concluded
    <3>1. Card!Key' = Card!Key /\ recorded' = recorded /\ held' \subseteq held
      BY <2>2 DEF Calm, Card!Ask, Card!core, Card!Key
    <3> QED BY <2>2, <3>1 DEF Card!Concluded
  <2>3. ASSUME Card!Concluded', Card!Core PROVE Card!Concluded
    <3>1. UNCHANGED <<recorded, held>>
      BY <2>3 DEF Card!Core, Card!agent
    <3>2. CASE Card!Sold \/ Card!Ends
      <4>1. Card!Key' = Card!Key
        BY <3>2 DEF Card!Sold, Card!Ends, Card!Key
      <4> QED BY <2>3, <3>1, <4>1 DEF Card!Concluded
    <3>3. CASE Card!ComesBack \/ Card!AsksAgain
      <4>1. \A k \in Card!Keys : Card!Before(k, Card!Key) => k # Card!Key'
        BY <3>3, <1>a, <1>b, AsksOn DEF Card!ComesBack, Card!AsksAgain
      <4>2. Card!Key' \notin recorded' /\ \A x \in held' : x.key # Card!Key'
        BY <3>1, <4>1, <1>a DEF Card!AsksForward
      <4> QED BY <2>3, <4>2 DEF Card!Concluded
    <3> QED BY <2>3, <3>2, <3>3 DEF Card!Core
  <2>4. ASSUME Card!Concluded', Card!Say PROVE Card!Concluded
    <3>1. held' \subseteq held
      BY <2>4 DEF Card!Say
    <3>2. CASE UNCHANGED Card!core
      <4>1. Card!Key' = Card!Key /\ recorded' = recorded
        BY <3>2 DEF Card!core, Card!Key
      <4> QED BY <2>4, <3>1, <4>1 DEF Card!Concluded
    <3>3. CASE \E x \in held : x.key = Card!Key /\ Card!Records(x)
      <4>1. PICK x \in held : x.key = Card!Key /\ Card!Records(x)
        BY <3>3
      <4>2. CASE x.outcome = "clean"
        BY <4>1, <4>2 DEF Card!Concluded
      <4>3. CASE x.outcome # "clean" /\ attempt' = attempt
        <5>1. Card!Key' = Card!Key /\ recorded' = recorded
          BY <4>1, <4>3 DEF Card!Records, Card!Key
        <5> QED BY <2>4, <3>1, <5>1 DEF Card!Concluded
      <4>4. CASE x.outcome # "clean" /\ attempt' = attempt + 1
        <5>1. recorded' = recorded /\ scrub' = scrub
          BY <4>1, <4>4 DEF Card!Records
        <5>2. \A k \in Card!Keys : Card!Before(k, Card!Key) => k # Card!Key'
          BY <4>4, <5>1, <1>a, <1>b, AsksOn
        <5>3. Card!Key' \notin recorded' /\ \A y \in held' : y.key # Card!Key'
          BY <3>1, <5>1, <5>2, <1>a DEF Card!AsksForward
        <5> QED BY <2>4, <5>3 DEF Card!Concluded
      <4> QED BY <4>1, <4>2, <4>3, <4>4 DEF Card!Records
    <3> QED BY <2>4, <3>2, <3>3 DEF Card!Say
  <2> QED BY <2>1, <2>2, <2>3, <2>4, NextSteps, CalmSteps
<1>3. ASSUME Card!Concluded, Card!Concluded' PROVE pc' \notin Card!Making \cup {"clear"} /\
               \A v \in Card!Standing' : ~guest'[v].card
  <2>1. ~(Card!Finish /\ Card!Equip) /\ ~Card!Start
    BY <1>1, <1>3 DEF Card!Equip, Card!Start, Card!Making
  <2>2. pc' \notin Card!Making \cup {"clear"}
    BY <1>1, <1>3, <2>1, TaskMoves
  <2>3. \A v \in Card!Standing' : ~guest'[v].card
    BY <1>3, <2>1, QuietSteps, QuietKeeps DEF Card!ConcludedIsFree
  <2> QED BY <2>2, <2>3
<1>4. ASSUME Card!Remove, verdict = "clean" PROVE pc' \notin Card!Making \cup {"clear"} /\
               \A v \in Card!Standing' : ~guest'[v].card
  <2>1. pc' = "sweep"
    BY <1>4 DEF Card!Remove, Card!GoesTo
  <2>2. at \in Card!Standing /\ guest[at].card
    BY <1>4 DEF Card!Remove, Card!CardGiven
  <2>3. \A v \in Card!Standing \ {at} : ~guest[v].card
    BY <2>2 DEF Card!CardGiven
  <2>4. \A v \in Card!Standing' : v \in Card!Standing \ {at} /\ guest'[v] = guest[v]
    BY <1>4 DEF Card!Remove, Card!Gone, Card!Standing, Card!TypeOK
  <2> QED BY <2>1, <2>3, <2>4 DEF Card!Making
<1> QED BY <1>2, <1>3, <1>4 DEF Card!ConcludedIsFree

LEMMA CleanWasSaidStep ==
  ASSUME Card!ScrubAssumption, Card!TypeOK, Card!CleanIsSaid, Card!CleanWasSaid, Card!Next
  PROVE  Card!CleanWasSaid'
<1>1. cleaned \subseteq cleaned'
  <2>1. CASE (Card!Finish /\ Card!Equip) \/ Card!Start
    BY <2>1 DEF Card!Finish, Card!Start
  <2> QED BY <2>1, QuietSteps DEF Quiet
<1>2. UNCHANGED recorded \/ \E x \in held : x.outcome = "clean" /\ recorded' = recorded \cup {x.key}
  <2>1. CASE Card!Core \/ Card!Ask \/ Card!Remove \/ Calm
    BY <2>1 DEF Card!Core, Card!Ask, Card!Remove, Calm, Card!core
  <2>2. CASE Card!Say
    BY <2>2 DEF Card!Say, Card!Records, Card!core
  <2> QED BY <2>1, <2>2, NextSteps, CalmSteps
<1> QED BY <1>1, <1>2 DEF Card!CleanWasSaid, Card!CleanIsSaid

LEMMA ScrubStepKeeps == Card!ScrubAssumption /\ Scrubbing /\ [Card!Next]_(Card!scrubVars) =>
   Scrubbing'
<1>1. Scrubbing /\ UNCHANGED Card!scrubVars => Scrubbing'
  <2> SUFFICES ASSUME Scrubbing, UNCHANGED Card!scrubVars PROVE Scrubbing'
    OBVIOUS
  <2>1. /\ UNCHANGED <<scrub, attempt, wants, recorded, tenant, guest, task, journal>>
        /\ UNCHANGED <<pc, list, at, verdict, held, settling, faults, cleaned>>
    BY DEF Card!scrubVars, Card!core, Card!host, Card!agent
  <2>2. Card!TypeOK' /\ Card!AsksForward'
    BY <2>1 DEF Scrubbing, Card!TypeOK, Card!AsksForward, Card!Key
  <2>3. Card!CardGiven' /\ Card!CleanIsSaid' /\ Card!ConcludedIsFree' /\ Card!CleanWasSaid'
    BY <2>1 DEF Scrubbing, Card!CardGiven, Card!CleanIsSaid, Card!ConcludedIsFree, Card!Concluded,
         Card!CleanWasSaid, Card!Key, Card!Standing
  <2> QED BY <2>2, <2>3 DEF Scrubbing
<1>2. Card!ScrubAssumption /\ Scrubbing /\ Card!Next => Scrubbing'
  BY ScrubTypes, AsksForwardStep, CardGivenStep, CleanIsSaidStep, ConcludedStep, CleanWasSaidStep
       DEF Scrubbing
<1> QED BY <1>1, <1>2

LEMMA SoldIsClean == Scrubbing => Card!SoldCardIsClean
  BY DEF Scrubbing, Card!SoldCardIsClean, Card!SoldCardIsFree, Card!AsksForward,
       Card!ConcludedIsFree, Card!Concluded

(* Whatever crashes, fails, is answered late or settled meanwhile: a card   *)
(* is sold only for an attempt whose own guest, given the card, said it is  *)
(* clean, and no scrub guest is configured with it while it is sold.        *)
THEOREM CardIsSoldClean == Spec => []SoldCardIsClean
<1> DEFINE Inv == Scrubbing
<1>1. Init => Inv
  BY HostAssumption, ScrubBegins DEF Init
<1>2. Inv /\ [Next]_hostVars => Inv'
  BY HostAssumption, OwnParts, ScrubStepKeeps
<1>3. Inv => SoldCardIsClean
  BY SoldIsClean DEF SoldCardIsClean
<1> QED BY <1>1, <1>2, <1>3, PTL DEF Spec

-----------------------------------------------------------------------------
(* A web machine's certificate: its type.                                   *)

\* The records of a run; what it was answered is a token where it keeps one, and
\* a certificate where it puts one in place.
RunRecords ==
  [step : {"over", "exchange", "keep", "fetch", "key", "chain", "hooks", "fingerprint"},
   got : 0 .. MaxIssued + MaxLapses + 1, traded : BOOLEAN]
Answered(x) ==
  /\ x.step = "keep" => x.got \in Web!Given
  /\ x.step \in {"key", "chain", "hooks", "fingerprint"} => x.got \in Web!Certificates

\* The inductive invariant.
Trading == Web!TypeOK /\ \A r \in {"timer", "first"} : Answered(run[r])

\* What is in place, and what the front serves of it.
LiveFits ==
  /\ live \in [key : Web!Certificates, chain : Web!Certificates, fingerprint : Web!Certificates]
  /\ front \in Web!Certificates \cup {Web!NoPair}
CoreFits == newest \in Web!Certificates /\ known \in Web!Given /\ own \in Web!Given /\
   lapses \in 0 .. MaxLapses
RunsFit == run \in [{"timer", "first"} -> RunRecords] /\ \A r \in {"timer", "first"} :
   Answered(run[r])

LEMMA TradingParts ==
  /\ Trading => LiveFits /\ CoreFits /\ RunsFit /\ spent \in BOOLEAN
  /\ LiveFits' /\ CoreFits' /\ RunsFit' /\ spent' \in BOOLEAN => Trading'
  BY DEF Trading, Web!TypeOK, LiveFits, CoreFits, RunsFit, RunRecords

LEMMA WebBegins == Web!CertificateAssumption /\ Web!Init => Trading
<1> SUFFICES ASSUME Web!CertificateAssumption, Web!Init PROVE Trading
  OBVIOUS
<1>1. spent \in BOOLEAN
  BY DEF Web!Init
<1>2. 0 \in Web!Certificates /\ 0 \in Web!Given /\ 0 \in 0 .. MaxLapses /\
        0 \in 0 .. MaxIssued + MaxLapses + 1
  BY DEF Web!CertificateAssumption, Web!Certificates, Web!Given
<1>3. Web!Over \in RunRecords /\ Answered(Web!Over)
  BY <1>2 DEF Web!Over, RunRecords, Answered
<1> QED BY <1>1, <1>2, <1>3 DEF Web!Init, Trading, Web!TypeOK, RunRecords

\* One run moves to a record that fits.
LEMMA RunFits ==
  ASSUME RunsFit, NEW r \in {"timer", "first"}, NEW x \in RunRecords, Answered(x),
           run' = [run EXCEPT ![r] = x]
  PROVE  RunsFit'
  BY DEF RunsFit, Answered, RunRecords

LEMMA WebStepKeeps == Web!CertificateAssumption /\ Trading /\ [Web!Next]_(Web!certificateVars) =>
   Trading'
<1> SUFFICES ASSUME Web!CertificateAssumption, Trading, [Web!Next]_(Web!certificateVars)
   PROVE Trading'
  OBVIOUS
<1> LiveFits /\ CoreFits /\ RunsFit /\ spent \in BOOLEAN
  BY TradingParts
<1> SUFFICES LiveFits' /\ CoreFits' /\ RunsFit' /\ spent' \in BOOLEAN
  BY TradingParts
<1>0. MaxIssued \in Nat \ {0} /\ MaxLapses \in Nat
  BY DEF Web!CertificateAssumption
<1>1. UNCHANGED <<live, front>> => LiveFits'
  BY DEF LiveFits
<1>2. UNCHANGED run => RunsFit'
  BY DEF RunsFit
<1>3. UNCHANGED <<newest, known, own>> /\ (UNCHANGED lapses \/ Web!Lapse) => CoreFits'
  BY <1>0 DEF CoreFits, Web!Lapse
<1>4. UNCHANGED spent => spent' \in BOOLEAN
  OBVIOUS
<1>5. Web!Over \in RunRecords /\ Answered(Web!Over)
  BY <1>0 DEF Web!Over, RunRecords, Answered
<1>6. \A g : g \in Web!Given \/ g \in Web!Certificates => g \in 0 .. MaxIssued + MaxLapses + 1
  BY <1>0 DEF Web!Given, Web!Certificates
<1>7. ASSUME NEW r \in {"timer", "first"}, Web!Ends(r) PROVE RunsFit'
  BY <1>5, <1>7, RunFits DEF Web!Ends
<1>8. CASE UNCHANGED Web!certificateVars
  BY <1>1, <1>2, <1>3, <1>4, <1>8 DEF Web!certificateVars
<1>9. CASE Web!Issues
  <2>1. CoreFits'
    BY <1>0, <1>9 DEF Web!Issues, CoreFits, Web!Certificates
  <2> QED BY <1>1, <1>2, <1>4, <1>9, <2>1 DEF Web!Issues
<1>10. CASE Web!Restarts
  <2>1. LiveFits'
    BY <1>10 DEF Web!Restarts, LiveFits
  <2>2. RunsFit'
    BY <1>5, <1>10 DEF Web!Restarts, RunsFit
  <2> QED BY <1>3, <1>4, <1>10, <2>1, <2>2 DEF Web!Restarts
<1>11. ASSUME NEW r \in {"timer", "first"}, Web!Begins(r), UNCHANGED newest
       PROVE  LiveFits' /\ CoreFits' /\ RunsFit' /\ spent' \in BOOLEAN
  <2>1. RunsFit'
    BY <1>11 DEF Web!Begins, RunsFit, RunRecords, Answered
  <2> QED BY <1>1, <1>3, <1>4, <1>11, <2>1 DEF Web!Begins
<1>12. ASSUME NEW r \in {"timer", "first"}, Web!Exchange(r), UNCHANGED newest
       PROVE  LiveFits' /\ CoreFits' /\ RunsFit' /\ spent' \in BOOLEAN
  <2>1. CASE spent
    BY <1>1, <1>3, <1>4, <1>7, <1>12, <2>1 DEF Web!Exchange
  <2>2. CASE ~spent
    <3>1. known' = known + 1 /\ known' \in Web!Given
      BY <1>0, <1>12, <2>2 DEF Web!Exchange, CoreFits, Web!Given
    <3>2. UNCHANGED lapses \/ Web!Lapse
      BY <1>12, <2>2 DEF Web!Exchange
    <3>3. CoreFits'
      BY <1>0, <1>12, <3>1, <3>2 DEF Web!Exchange, CoreFits, Web!Lapse
    <3>4. CASE run' = [run EXCEPT ![r].step = "keep", ![r].got = known']
      <4>1. known' \in 0 .. MaxIssued + MaxLapses + 1
        BY <1>6, <3>1
      <4> QED BY <1>1, <1>4, <1>12, <3>1, <3>3, <3>4, <4>1 DEF Web!Exchange, RunsFit, RunRecords,
           Answered
    <3> QED BY <1>1, <1>4, <1>7, <1>12, <2>2, <3>3, <3>4 DEF Web!Exchange
  <2> QED BY <2>1, <2>2
<1>13. ASSUME NEW r \in {"timer", "first"}, Web!Keeps(r), UNCHANGED newest
       PROVE  LiveFits' /\ CoreFits' /\ RunsFit' /\ spent' \in BOOLEAN
  <2>1. RunsFit'
    BY <1>13 DEF Web!Keeps, Web!Goes, RunsFit, RunRecords, Answered
  <2>2. CoreFits'
    BY <1>13 DEF Web!Keeps, RunsFit, CoreFits, Answered
  <2> QED BY <1>1, <1>4, <1>13, <2>1, <2>2 DEF Web!Keeps
<1>14. ASSUME NEW r \in {"timer", "first"}, Web!Fetch(r), UNCHANGED newest
       PROVE  LiveFits' /\ CoreFits' /\ RunsFit' /\ spent' \in BOOLEAN
  <2>1. CoreFits'
    BY <1>0, <1>14 DEF Web!Fetch, CoreFits, Web!Lapse, Web!Given
  <2>2. spent' \in BOOLEAN
    BY <1>14 DEF Web!Fetch
  <2>3. CASE Web!Ends(r)
    BY <1>1, <1>7, <1>14, <2>1, <2>2, <2>3 DEF Web!Fetch
  <2>4. CASE run' = [run EXCEPT ![r].step = "exchange", ![r].traded = TRUE]
    <3>1. RunsFit'
      BY <2>4 DEF RunsFit, RunRecords, Answered
    <3> QED BY <1>1, <1>14, <2>1, <2>2, <3>1 DEF Web!Fetch
  <2>5. CASE run' = [run EXCEPT ![r].step = "key", ![r].got = newest]
    <3>1. newest \in Web!Certificates /\ newest \in 0 .. MaxIssued + MaxLapses + 1
      BY <1>6 DEF CoreFits
    <3>2. RunsFit'
      BY <2>5, <3>1 DEF RunsFit, RunRecords, Answered
    <3> QED BY <1>1, <1>14, <2>1, <2>2, <3>2 DEF Web!Fetch
  <2> QED BY <1>14, <2>3, <2>4, <2>5 DEF Web!Fetch
<1>15. ASSUME NEW r \in {"timer", "first"}, Web!PutsKey(r) \/ Web!PutsChain(r), UNCHANGED newest
       PROVE  LiveFits' /\ CoreFits' /\ RunsFit' /\ spent' \in BOOLEAN
  <2>1. RunsFit'
    BY <1>15 DEF Web!PutsKey, Web!PutsChain, Web!Goes, RunsFit, RunRecords, Answered
  <2>2. LiveFits'
    BY <1>15 DEF Web!PutsKey, Web!PutsChain, RunsFit, LiveFits, Answered
  <2> QED BY <1>3, <1>4, <1>15, <2>1, <2>2 DEF Web!PutsKey, Web!PutsChain
<1>16. ASSUME NEW r \in {"timer", "first"}, Web!Hooks(r), UNCHANGED newest
       PROVE  LiveFits' /\ CoreFits' /\ RunsFit' /\ spent' \in BOOLEAN
  <2>1. LiveFits'
    BY <1>16 DEF Web!Hooks, LiveFits
  <2>2. ASSUME Web!Goes(r, "fingerprint") PROVE RunsFit'
    BY <1>16, <2>2 DEF Web!Hooks, Web!Goes, RunsFit, RunRecords, Answered
  <2>3. ASSUME Web!Ends(r) PROVE RunsFit'
    BY <1>7, <2>3
  <2>4. RunsFit'
    BY <1>16, <1>7, <2>2, <2>3 DEF Web!Hooks, Web!AfterHooks, Web!Ends
  <2> QED BY <1>3, <1>4, <1>16, <2>1, <2>4 DEF Web!Hooks
<1>17. ASSUME NEW r \in {"timer", "first"}, Web!WritesFingerprint(r), UNCHANGED newest
       PROVE  LiveFits' /\ CoreFits' /\ RunsFit' /\ spent' \in BOOLEAN
  <2>1. LiveFits'
    BY <1>17 DEF Web!WritesFingerprint, RunsFit, LiveFits, Answered
  <2> QED BY <1>3, <1>4, <1>7, <1>17, <2>1 DEF Web!WritesFingerprint
<1> QED
  BY <1>8, <1>9, <1>10, <1>11, <1>12, <1>13, <1>14, <1>15, <1>16, <1>17 DEF Web!Next, Web!Moves

-----------------------------------------------------------------------------
(* The tunnel: what Core can end, and what an ended console holds.          *)

\* The inductive invariant: an id that did not come has no task and is of no
\* connection, inputs are held by consoles past their insertion, and whose task is
\* told to abort was let go of.
Tunnelling ==
  /\ Link!TypeOK /\ Link!CancelReaches /\ Link!NothingHeld
  /\ link = "up" => conn # 0
  /\ \A i \in Ids :
       /\ of[i] =< conn
       /\ of[i] = 0 => taskOf[i] = "none"
       /\ taskOf[i] = "opened" => i \notin requests
       /\ i \in sessions => taskOf[i] \in {"inserted", "pumping", "ended"}
  /\ aborting \subseteq letGo
  /\ hand # Link!NoFrame => hand[2] \in letGo /\ hand[2] \in Ids

LEMMA LinkBegins == Link!TunnelAssumption /\ Link!Init => Tunnelling
  BY DEF Link!TunnelAssumption, Link!Init, Tunnelling, Link!TypeOK, Link!CancelReaches,
       Link!NothingHeld,
         Link!Current, Link!Live, Link!Running, Link!NoFrame, Link!Consoles

\* A task that ends leaves every other as it is.
LEMMA EndsKeeps ==
  ASSUME Tunnelling, NEW i \in Ids, NEW inputs \in SUBSET sessions, Link!Live(taskOf, i),
         i \in inputs => i \in letGo, Link!Ends(i, inputs),
         UNCHANGED <<link, conn, of, requests, bridge, inflight, hand, aborting, letGo>>
  PROVE  Tunnelling'
<1>1. sessions' \subseteq inputs
  BY DEF Link!Ends, Link!Kept
<1>2. taskOf' = [taskOf EXCEPT ![i] = "ended"]
  BY DEF Link!Ends
<1> QED
  BY <1>1, <1>2 DEF Tunnelling, Link!TypeOK, Link!CancelReaches, Link!NothingHeld, Link!Current,
       Link!Live,
       Link!Running, Link!Consoles

LEMMA LinkStepKeeps == Link!TunnelAssumption /\ Tunnelling /\ [Link!Next]_(Link!tunnelVars) =>
   Tunnelling'
<1> SUFFICES ASSUME Link!TunnelAssumption, Tunnelling, [Link!Next]_(Link!tunnelVars)
   PROVE Tunnelling'
  OBVIOUS
<1> USE DEF Link!TunnelAssumption
<1>1. CASE UNCHANGED Link!tunnelVars
  BY <1>1 DEF Link!tunnelVars, Link!tunnelTables, Tunnelling, Link!TypeOK, Link!CancelReaches,
       Link!NothingHeld,
       Link!Current, Link!Live, Link!Consoles
<1>2. CASE Link!Connect
  BY <1>2 DEF Link!Connect, Link!tunnelTables, Tunnelling, Link!TypeOK, Link!CancelReaches,
       Link!NothingHeld,
       Link!Current, Link!Live, Link!Consoles
<1>3. CASE Link!Disconnected
  <2>1. sessions' \subseteq sessions
    BY <1>3 DEF Link!Disconnected, Link!Kept
  <2> QED
    BY <1>3, <2>1 DEF Link!Disconnected, Tunnelling, Link!TypeOK, Link!CancelReaches,
         Link!NothingHeld,
       Link!Current, Link!Live, Link!Consoles, Link!NoFrame
<1>4. CASE Link!AbortTask
  BY <1>4 DEF Link!AbortTask, Link!Told, Tunnelling, Link!TypeOK, Link!CancelReaches,
       Link!NothingHeld,
       Link!Current, Link!Live, Link!Consoles, Link!NoFrame
<1>5. ASSUME NEW i \in Ids, Link!Open(i) PROVE Tunnelling'
  BY <1>5 DEF Link!Open, Link!Reading, Link!Pruned, Tunnelling, Link!TypeOK, Link!CancelReaches,
       Link!NothingHeld,
       Link!Current, Link!Live, Link!Running, Link!Consoles
<1>6. ASSUME NEW i \in Ids, Link!Cancel(i) \/ Link!Overflows(i) PROVE Tunnelling'
  BY <1>6 DEF Link!Cancel, Link!Overflows, Link!Reading, Tunnelling, Link!TypeOK,
       Link!CancelReaches, Link!NothingHeld,
       Link!Current, Link!Live, Link!Consoles, Link!NoFrame
<1>7. ASSUME NEW i \in Ids, Link!Aborted(i) PROVE Tunnelling'
  BY <1>7, EndsKeeps DEF Link!Aborted, Tunnelling
<1>8. ASSUME NEW i \in Ids, Link!Task(i) PROVE Tunnelling'
  <2>1. CASE Link!OpenFails(i) \/ Link!MachineEnded(i) \/ Link!SendFails(i)
    BY <1>8, <2>1, EndsKeeps DEF Link!Task, Link!OpenFails, Link!MachineEnded, Link!SendFails,
         Link!EndOfOutput,
         Link!Live, Link!Running, Tunnelling
  <2>2. CASE Link!Opened(i)
    BY <1>8, <2>2 DEF Link!Task, Link!Opened, Tunnelling, Link!TypeOK, Link!CancelReaches,
         Link!NothingHeld,
         Link!Current, Link!Live, Link!Running, Link!Consoles
  <2>3. CASE Link!Insert(i)
    BY <1>8, <2>3 DEF Link!Task, Link!Insert, Tunnelling, Link!TypeOK, Link!CancelReaches,
         Link!NothingHeld,
         Link!Current, Link!Live, Link!Running, Link!Consoles
  <2>4. CASE Link!Head(i) /\ Link!Current(i)
    BY <1>8, <2>4 DEF Link!Task, Link!Head, Tunnelling, Link!TypeOK, Link!CancelReaches,
         Link!NothingHeld,
         Link!Current, Link!Live, Link!Running, Link!Consoles
  <2>5. CASE Link!Head(i) /\ ~Link!Current(i)
    BY <1>8, <2>5, EndsKeeps DEF Link!Task, Link!Head, Link!Live, Link!Running, Tunnelling
  <2> QED BY <1>8, <2>1, <2>2, <2>3, <2>4, <2>5 DEF Link!Task
<1>9. ASSUME NEW i \in Ids, Link!Shuts(i) PROVE Tunnelling'
  BY <1>9 DEF Link!Shuts, Link!tunnelTables, Tunnelling, Link!TypeOK, Link!CancelReaches,
       Link!NothingHeld,
       Link!Current, Link!Live, Link!Consoles
<1> QED
  BY <1>1, <1>2, <1>3, <1>4, <1>5, <1>6, <1>7, <1>8, <1>9
  DEF Link!Next, Link!InputGone, Link!Unread, Link!MachineCloses

(* Whatever connections drop, consoles end, are cut or cancelled: Core can  *)
(* end every task of its connection, and a console whose task is over holds *)
(* no input, unless Core let it go as it was opened.                        *)
THEOREM ConsolesAreReached == Spec => [](Link!CancelReaches /\ Link!NothingHeld)
<1>1. Init => Tunnelling
  BY HostAssumption, LinkBegins DEF Init
<1>2. Tunnelling /\ [Next]_hostVars => Tunnelling'
  BY HostAssumption, OwnParts, LinkStepKeeps
<1>3. Tunnelling => (Link!CancelReaches /\ Link!NothingHeld)
  BY DEF Tunnelling
<1> QED BY <1>1, <1>2, <1>3, PTL DEF Spec

-----------------------------------------------------------------------------
(* The report: what Core takes for gone.                                    *)

\* The records of a pass.
Passes ==
  [step : {"rest", "restoring", "viewed", "looking"}, view : Told!Views, said : Told!Results,
   looked : SUBSET Machines, unobserved : BOOLEAN, listed : BOOLEAN, unclaimed : SUBSET Machines]

\* A machine that was asked to end, and has: it is not asked for again, no pass
\* under way would build it, and it does not stand.
Ended(i) == ledger[i] \in {"absent", "dropped", "gone"} /\ looking.view[i] # "run" /\
   i \notin hosting

\* What a pass has of each item: one to end is over in Core's ledger too, one not
\* looked at makes the pass incomplete.
PassFollows ==
  \A i \in Machines :
    /\ looking.view[i] = "absent" => ledger[i] \in {"absent", "dropped", "gone"}
    /\ looking.view[i] = "none" => looking.said[i] = "not asked"
    /\ i \in looking.looked /\ looking.said[i] = "left out" => looking.unobserved

\* What is said gone has ended, in the pass, on the wire and in Core's ledger; a
\* complete report leaves nothing out.
GoneHaveEnded ==
  /\ \A i \in Machines : ledger[i] = "gone" \/ looking.said[i] = "gone" => Ended(i)
  /\ \A n \in 1 .. Len(wire) :
       /\ \A i \in Machines : wire[n].said[i] = "gone" => Ended(i)
       /\ wire[n].complete => \A i \in Machines : wire[n].said[i] # "left out"

\* The inductive invariant.
Telling == Told!TypeOK /\ PassFollows /\ GoneHaveEnded

\* The type, in parts.
LedgerFits ==
  ledger \in [Machines -> {"none", "run", "absent", "dropped", "gone"}] /\ kept \in Told!Reports /\
     hosting \subseteq Machines
WireFits == wire \in Seq(Told!Reports) /\ Len(wire) =< MaxWire
TimesFit == interval \in Periods /\ heard \in Periods /\ armed \in {Told!Period(w) : w \in Periods}
CountsFit == refreshes \subseteq Machines /\ changes \in 0 .. MaxChanges /\
   falters \in 0 .. MaxFalters

LEMMA TellingParts ==
  /\ Telling => LedgerFits /\ WireFits /\ TimesFit /\ CountsFit /\ looking \in Passes /\
       named \in BOOLEAN
                  /\ PassFollows /\ GoneHaveEnded
  /\ LedgerFits' /\ WireFits' /\ TimesFit' /\ CountsFit' /\ looking' \in Passes /\
       named' \in BOOLEAN
       /\ PassFollows' /\ GoneHaveEnded' => Telling'
  BY DEF Telling, Told!TypeOK, LedgerFits, WireFits, TimesFit, CountsFit, Passes

LEMMA RestingFits ==
  /\ Told!Resting \in Passes
  /\ \A i \in Machines : Told!Resting.view[i] = "none" /\ Told!Resting.said[i] = "not asked"
  BY DEF Told!Resting, Told!Unsaid, Passes, Told!Views, Told!Results

LEMMA ToldBegins == Told!ReportAssumption /\ Told!Init => Telling
<1> SUFFICES ASSUME Told!ReportAssumption, Told!Init PROVE Telling
  OBVIOUS
<1> DEFINE first == {CHOOSE i \in Machines : TRUE}
<1>1. /\ ledger = [i \in Machines |-> IF i \in first THEN "run" ELSE "none"] /\ hosting = first
      /\ named = FALSE /\ kept = Told!NoReport
      /\ interval = Ceiling /\ looking = Told!Resting /\ refreshes = {} /\ wire = <<>>
      /\ heard = 0 /\ armed = DefaultPeriod /\ changes = 0 /\ falters = 0
  BY DEF Told!Init
<1>2. first \subseteq Machines /\ {0, Ceiling} \subseteq Periods /\ MaxWire \in Nat /\
        MaxChanges \in Nat /\ MaxFalters \in Nat
  BY DEF Told!ReportAssumption
<1> HIDE DEF first
<1>3. named \in BOOLEAN
  BY <1>1
<1>4. kept \in Told!Reports
  BY <1>1 DEF Told!NoReport, Told!Reports, Told!Unsaid, Told!Results
<1>5. LedgerFits
  BY <1>1, <1>2, <1>4 DEF LedgerFits
<1>6. WireFits /\ Len(wire) = 0
  BY <1>1, <1>2 DEF WireFits
<1>7. TimesFit
  BY <1>1, <1>2 DEF TimesFit, Told!Period
<1>8. CountsFit
  BY <1>1, <1>2 DEF CountsFit
<1>9. PassFollows
  BY <1>1, RestingFits DEF PassFollows
<1>10. GoneHaveEnded
  <2>1. \A i \in Machines : ledger[i] # "gone"
    BY <1>1
  <2>2. \A i \in Machines : looking.said[i] # "gone"
    BY <1>1, RestingFits
  <2>3. 1 .. Len(wire) = {}
    BY <1>6
  <2> QED BY <2>1, <2>2, <2>3 DEF GoneHaveEnded
<1> QED
  BY <1>1, <1>3, <1>5, <1>6, <1>7, <1>8, <1>9, <1>10, RestingFits
  DEF Telling, Told!TypeOK, LedgerFits, WireFits, TimesFit, CountsFit, Passes

\* A period that is said is one the report task may be armed with.
LEMMA PeriodFits == \A w \in Periods : Told!Period(w) \in {Told!Period(u) : u \in Periods}
  OBVIOUS

\* A report posted in the place of the last, or lost.
LEMMA PostsFit ==
  ASSUME Told!ReportAssumption, WireFits, CountsFit, NEW report \in Told!Reports,
           NEW well \in BOOLEAN, Told!Posts(report, well)
  PROVE  /\ WireFits' /\ falters' \in 0 .. MaxFalters
         /\ \A n \in 1 .. Len(wire') : wire'[n] = report \/
              (n \in 1 .. Len(wire) /\ wire'[n] = wire[n])
<1>1. falters' \in 0 .. MaxFalters
  BY DEF Told!Posts, Told!Hitch, CountsFit, Told!ReportAssumption
<1>2. CASE Len(wire) < MaxWire /\ wire' = Append(wire, report)
  BY <1>1, <1>2 DEF WireFits, Told!ReportAssumption
<1>3. CASE UNCHANGED wire
  BY <1>1, <1>3 DEF WireFits
<1> QED BY <1>2, <1>3 DEF Told!Posts

LEMMA ToldStepKeeps == Told!ReportAssumption /\ Telling /\ [Told!Next]_(Told!reportVars) => Telling'
<1> SUFFICES ASSUME Told!ReportAssumption, Telling, [Told!Next]_(Told!reportVars) PROVE Telling'
  OBVIOUS
<1> LedgerFits /\ WireFits /\ TimesFit /\ CountsFit /\ looking \in Passes /\ named \in BOOLEAN
      /\ PassFollows /\ GoneHaveEnded
  BY TellingParts
<1>1. UNCHANGED <<ledger, kept, hosting>> => LedgerFits'
  BY DEF LedgerFits
<1>2. UNCHANGED wire => WireFits'
  BY DEF WireFits
<1>3. UNCHANGED <<interval, heard, armed>> => TimesFit'
  BY DEF TimesFit
<1>4. (UNCHANGED falters \/ Told!Hitch) /\ UNCHANGED changes /\ refreshes' \subseteq Machines =>
        CountsFit'
  BY DEF CountsFit, Told!Hitch, Told!ReportAssumption
<1>5. UNCHANGED named => named' \in BOOLEAN
  OBVIOUS
<1>6. UNCHANGED <<ledger, looking>> => PassFollows'
  BY DEF PassFollows
<1>7. UNCHANGED <<ledger, looking, hosting, wire>> => GoneHaveEnded'
  BY DEF GoneHaveEnded, Ended
<1>8. refreshes \subseteq Machines
  BY DEF CountsFit
<1>9. CASE UNCHANGED Told!reportVars
  BY <1>1, <1>2, <1>3, <1>4, <1>5, <1>6, <1>7, <1>8, <1>9, TellingParts DEF Told!reportVars
<1>10. CASE Told!Core
  <2>1. CountsFit'
    BY <1>10 DEF Told!Core, CountsFit, Told!ReportAssumption
  <2>2. named' \in BOOLEAN
    BY <1>10 DEF Told!Core
  <2>3. TimesFit'
    BY <1>10 DEF Told!Core, TimesFit
  <2>4. UNCHANGED ledger \/ \E i \in Machines : Told!Wants(i) \/ Told!Ends(i) \/ Told!Drops(i)
    BY <1>10 DEF Told!Core
  <2>5. LedgerFits'
    BY <1>10, <2>4 DEF Told!Core, Told!Wants, Told!Ends, Told!Drops, LedgerFits
  <2>6. \A i \in Machines :
         /\ ledger[i] \in {"absent", "dropped", "gone"} =>
              ledger'[i] \in {"absent", "dropped", "gone"}
         /\ ledger'[i] = "gone" => ledger[i] = "gone"
    BY <2>4 DEF Told!Wants, Told!Ends, Told!Drops, Told!Asked, LedgerFits
  <2>7. UNCHANGED <<looking, hosting, wire>>
    BY <1>10 DEF Told!Core
  <2>8. PassFollows'
    BY <2>6, <2>7 DEF PassFollows
  <2>9. \A i \in Machines : Ended(i) => Ended(i)'
    BY <2>6, <2>7 DEF Ended
  <2>10. GoneHaveEnded'
    BY <2>6, <2>7, <2>9 DEF GoneHaveEnded
  <2> QED BY <1>2, <1>10, <2>1, <2>2, <2>3, <2>5, <2>7, <2>8, <2>10, TellingParts DEF Told!Core
<1>11. ASSUME NEW n \in 1 .. Len(wire), Told!Arrives(n) PROVE Telling'
  <2>1. wire[n] \in Told!Reports
    BY DEF WireFits
  <2>2. WireFits' /\ \A k \in 1 .. Len(wire') : wire'[k] = wire[k + n] /\ k + n \in 1 .. Len(wire)
    BY <1>11 DEF Told!Arrives, WireFits, Told!ReportAssumption
  <2>3. LedgerFits'
    BY <1>11, <2>1 DEF Told!Arrives, LedgerFits
  <2>4. \A i \in Machines : ledger'[i] = ledger[i] \/
          (ledger'[i] = "gone" /\ wire[n].said[i] = "gone")
    BY <1>11 DEF Told!Arrives, Told!TakenForGone, LedgerFits, GoneHaveEnded
  <2>5. \A i \in Machines : Ended(i) => Ended(i)'
    BY <1>11, <2>4 DEF Told!Arrives, Ended
  <2>6. PassFollows'
    BY <1>11, <2>4 DEF Told!Arrives, PassFollows
  <2>7. \A i \in Machines : ledger'[i] = "gone" \/ looking'.said[i] = "gone" => Ended(i)'
    BY <1>11, <2>4, <2>5 DEF Told!Arrives, GoneHaveEnded
  <2>8. GoneHaveEnded'
    BY <2>2, <2>5, <2>7 DEF GoneHaveEnded
  <2> QED BY <1>3, <1>4, <1>5, <1>8, <1>11, <2>2, <2>3, <2>6, <2>8, TellingParts DEF Told!Arrives
<1>12. CASE Told!Begins
  <2>0. UNCHANGED <<ledger, hosting, wire>>
    BY <1>12 DEF Told!Begins
  <2>1. /\ looking' \in Passes
        /\ \A i \in Machines :
             /\ looking'.view[i] = IF i \in Told!Asked THEN ledger[i] ELSE "none"
             /\ looking'.said[i] = IF i \in Told!Asked THEN "left out" ELSE "not asked"
        /\ looking'.looked = {}
    BY <1>12, RestingFits DEF Told!Begins, Told!Resting, Told!Asked, Passes, Told!Views,
         Told!Results, LedgerFits
  <2>2. PassFollows'
    BY <2>0, <2>1 DEF PassFollows, Told!Asked
  <2>3. \A i \in Machines : Ended(i) => Ended(i)'
    BY <2>0, <2>1 DEF Ended, Told!Asked
  <2>4. GoneHaveEnded'
    BY <2>0, <2>1, <2>3 DEF GoneHaveEnded
  <2>5. TimesFit'
    BY <1>12 DEF Told!Begins, TimesFit
  <2> QED BY <1>1, <1>2, <1>4, <1>5, <1>8, <1>12, <2>1, <2>2, <2>4, <2>5, TellingParts
       DEF Told!Begins
<1>13. ASSUME looking' = Told!Resting, UNCHANGED <<ledger, hosting>>
       PROVE  looking' \in Passes /\ PassFollows' /\ \A i \in Machines :
                looking'.said[i] # "gone" /\ (Ended(i) => Ended(i)')
  BY <1>13, RestingFits DEF PassFollows, Ended
<1>14. CASE Told!ReportsRestoring
  <2>1. PICK l \in BOOLEAN :
          Told!Posts([Told!NoReport EXCEPT !.said = looking.said, !.listed = l,
                              !.unclaimed = Told!Surveyed(l).unclaimed], l)
    BY <1>14 DEF Told!ReportsRestoring
  <2> DEFINE report == [Told!NoReport EXCEPT !.said = looking.said, !.listed = l,
     !.unclaimed = Told!Surveyed(l).unclaimed]
  <2>2. Told!Surveyed(l).unclaimed \subseteq Machines
    BY DEF Told!Surveyed, Told!Unclaimed, LedgerFits, Passes
  <2>3. report \in Told!Reports /\ report.said = looking.said /\ ~report.complete
    BY <2>2 DEF Told!NoReport, Told!Reports, Passes
  <2> HIDE DEF report
  <2>4. /\ WireFits' /\ falters' \in 0 .. MaxFalters
        /\ \A n \in 1 .. Len(wire') : wire'[n] = report \/
             (n \in 1 .. Len(wire) /\ wire'[n] = wire[n])
    BY <2>1, <2>3, PostsFit DEF report
  <2>5. GoneHaveEnded'
    BY <1>13, <1>14, <2>3, <2>4 DEF Told!ReportsRestoring, GoneHaveEnded
  <2>6. CountsFit'
    BY <1>14, <2>4 DEF Told!ReportsRestoring, CountsFit
  <2> QED BY <1>1, <1>3, <1>5, <1>13, <1>14, <2>4, <2>5, <2>6, TellingParts
       DEF Told!ReportsRestoring
<1>15. CASE Told!Lists
  <2>0. UNCHANGED <<ledger, hosting, wire>>
    BY <1>15 DEF Told!Lists
  <2>1. PICK l \in BOOLEAN : looking' = [Told!Surveyed(l) EXCEPT !.step = "looking"]
    BY <1>15 DEF Told!Lists
  <2>2. looking' \in Passes /\ looking'.view = looking.view /\ looking'.said = looking.said
          /\ looking'.looked = looking.looked /\ looking'.unobserved = looking.unobserved
    BY <2>1 DEF Told!Surveyed, Told!Unclaimed, LedgerFits, Passes
  <2>3. PassFollows'
    BY <2>0, <2>2 DEF PassFollows
  <2>4. GoneHaveEnded'
    BY <2>0, <2>2 DEF GoneHaveEnded, Ended
  <2> QED BY <1>1, <1>2, <1>3, <1>4, <1>5, <1>8, <1>15, <2>2, <2>3, <2>4, TellingParts
       DEF Told!Lists
<1>16. ASSUME NEW i \in Machines, Told!Looks(i) PROVE Telling'
  <2>1. PICK said \in {"left out", "error", "here", "gone"} :
          /\ Told!Result(i, said)
          /\ said = "here" => looking.view[i] = "run" /\ hosting' = hosting \cup {i}
          /\ said = "gone" => looking.view[i] = "absent" /\ hosting' = hosting \ {i}
          /\ said \in {"left out", "error"} => hosting' = hosting
    BY <1>16 DEF Told!Looks, Told!Untouched
  <2>2. /\ looking' \in Passes /\ looking'.view = looking.view
        /\ looking'.said[i] = said /\ \A j \in Machines \ {i} : looking'.said[j] = looking.said[j]
        /\ looking'.looked = looking.looked \cup {i}
        /\ looking'.unobserved = (looking.unobserved \/ said \in {"left out", "error"})
    BY <2>1 DEF Told!Result, Told!Unobserved, Passes, Told!Results
  <2>3. UNCHANGED <<ledger, named, kept, interval, wire, heard, armed, changes>> /\
          looking.view[i] # "none"
    BY <1>16 DEF Told!Looks
  <2>4. LedgerFits'
    BY <2>1, <2>3 DEF LedgerFits
  <2>5. refreshes' \subseteq Machines /\ (UNCHANGED falters \/ Told!Hitch)
    BY <1>8, <1>16 DEF Told!Looks, Told!Untouched
  <2>6. PassFollows'
    BY <2>2, <2>3 DEF PassFollows
  <2>7. \A j \in Machines : Ended(j) => Ended(j)'
    BY <2>1, <2>2, <2>3 DEF Ended
  <2>8. said = "gone" => Ended(i)'
    BY <2>1, <2>2, <2>3 DEF Ended, PassFollows
  <2>9. GoneHaveEnded'
    BY <2>2, <2>3, <2>7, <2>8 DEF GoneHaveEnded
  <2> QED BY <1>2, <1>3, <1>4, <1>5, <2>2, <2>3, <2>4, <2>5, <2>6, <2>9, TellingParts
<1>17. CASE Told!ReportsAll
  <2> DEFINE report == [said |-> looking.said, complete |-> Told!Complete,
     listed |-> looking.listed,
                        unclaimed |-> looking.unclaimed, failed |-> Told!Drained]
  <2>1. Told!Posts(report, TRUE)
    BY <1>17 DEF Told!ReportsAll
  <2>2. Told!Complete \in BOOLEAN
    BY DEF Told!Complete, Passes
  <2>3. report \in Told!Reports /\ report.said = looking.said
    BY <1>8, <2>2 DEF Told!Reports, Passes, Told!Drained
  <2>4. report.complete => \A i \in Machines : looking.said[i] # "left out"
    BY <1>17 DEF Told!ReportsAll, Told!Complete, PassFollows
  <2> HIDE DEF report
  <2>5. /\ WireFits' /\ falters' \in 0 .. MaxFalters
        /\ \A n \in 1 .. Len(wire') : wire'[n] = report \/
             (n \in 1 .. Len(wire) /\ wire'[n] = wire[n])
    BY <2>1, <2>3, PostsFit
  <2>6. GoneHaveEnded'
    BY <1>13, <1>17, <2>3, <2>4, <2>5 DEF Told!ReportsAll, GoneHaveEnded
  <2>7. CountsFit'
    BY <1>17, <2>5 DEF Told!ReportsAll, CountsFit
  <2> QED BY <1>1, <1>3, <1>5, <1>13, <1>17, <2>5, <2>6, <2>7, TellingParts DEF Told!ReportsAll
<1>18. CASE Told!Restarts
  <2>1. TimesFit'
    BY <1>18, PeriodFits DEF Told!Restarts, TimesFit
  <2>2. GoneHaveEnded'
    BY <1>13, <1>18 DEF Told!Restarts, GoneHaveEnded
  <2> QED BY <1>1, <1>2, <1>4, <1>5, <1>13, <1>18, <2>1, <2>2, TellingParts DEF Told!Restarts
<1>19. CASE Told!Ticks
  <2>1. TimesFit'
    BY <1>19, PeriodFits DEF Told!Ticks, TimesFit
  <2> QED BY <1>1, <1>2, <1>4, <1>5, <1>6, <1>7, <1>8, <1>19, <2>1, TellingParts DEF Told!Ticks
<1> QED
  BY <1>9, <1>10, <1>11, <1>12, <1>14, <1>15, <1>16, <1>17, <1>18, <1>19 DEF Told!Next, Told!Agent

(* Whatever was not looked at, failed, was lost or overtaken on the wire,   *)
(* dropped from the ledger or cut by a restart: no machine that stands is   *)
(* taken for gone.                                                          *)
THEOREM StandingIsNotGone == Spec => []Told!GoneIsGone
<1>1. Init => Telling
  BY HostAssumption, ToldBegins DEF Init
<1>2. Telling /\ [Next]_hostVars => Telling'
  BY HostAssumption, OwnParts, ToldStepKeeps
<1>3. Telling => Told!GoneIsGone
  BY DEF Telling, GoneHaveEnded, Ended, Told!GoneIsGone, Told!TypeOK
<1> QED BY <1>1, <1>2, <1>3, PTL DEF Spec

-----------------------------------------------------------------------------
(* The first-boot files: what a configuration names is there.               *)

\* The records of a pass of the sweep.
Sweeps ==
  [step : Files!Steps, item : Machines \cup {Nobody}, view :
     [Machines -> {"none", "run", "absent"}],
   todo : SUBSET Machines, live : SUBSET Machines, complete : BOOLEAN]

\* What a pass knows: of the machine it makes, which files it wrote; and of a sweep
\* that saw every configuration, the owners they name.
PassWrote ==
  /\ sweeping.step \in {"net", "clone", "configure", "destroy"} => sweeping.item \in Machines
  /\ sweeping.step = "net" => "user" \in files[sweeping.item]
  /\ sweeping.step \in {"clone", "configure"} =>
       Files!Refs(sweeping.item) \subseteq files[sweeping.item]
HostWorkers == {CHOOSE i \in Machines : TRUE}
SweepSaw ==
  sweeping.complete =>
    /\ sweeping.step = "collect" => \A i \in Machines : standing[i] = "refers" =>
         i \in sweeping.live
    /\ \/ sweeping.step \in {"collect", "instances"}
       \/ sweeping.step \in {"net", "clone", "configure", "destroy"} /\
            sweeping.item \notin HostWorkers

\* The inductive invariant.
Sweeping == Files!TypeOK /\ PassWrote /\ SweepSaw /\ Files!Whole

\* The type, in parts.
FilesFit ==
  /\ askedOf \in [Machines -> {"none", "run", "absent", "over"}]
  /\ standing \in [Machines -> {"none", "bare", "refers"}] /\
       files \in [Machines -> SUBSET Files!Kinds]
  /\ torn \subseteq Machines /\ undone \subseteq Machines
BoundsFit == asks \in 0 .. MaxAsks /\ faltered \in 0 .. MaxFaltered

LEMMA SweepingParts ==
  /\ Sweeping => FilesFit /\ BoundsFit /\ sweeping \in Sweeps /\ PassWrote /\ SweepSaw /\
       Files!Whole
  /\ FilesFit' /\ BoundsFit' /\ sweeping' \in Sweeps /\ PassWrote' /\ SweepSaw' /\ Files!Whole' =>
       Sweeping'
  BY DEF Sweeping, Files!TypeOK, FilesFit, BoundsFit, Sweeps

\* No worker here is of the old naming: what is written is what is named.
LEMMA RefsAre == \A i \in Machines : Files!Refs(i) = Files!Written(i) /\
   Files!Refs(i) \subseteq {"user", "net"}
  BY DEF Files!Refs, Files!Written

\* A step of a pass to an item, and on to the next.
LEMMA TakenIs ==
  ASSUME sweeping \in Sweeps, NEW i \in Machines, NEW next \in Files!Steps, Files!Taken(i, next)
  PROVE  /\ sweeping.step = IF i \in HostWorkers THEN "workers" ELSE "instances"
         /\ sweeping' \in Sweeps /\ sweeping'.step = next /\ sweeping'.complete = sweeping.complete
         /\ next # sweeping.step => sweeping'.item = i
<1>1. sweeping' = [sweeping EXCEPT !.todo = @ \ {i}, !.step = next,
        !.item = IF next = sweeping.step THEN Nobody ELSE i]
  BY DEF Files!Taken
<1>2. sweeping.step = IF i \in HostWorkers THEN "workers" ELSE "instances"
  BY DEF Files!Taken, HostWorkers
<1>3. sweeping' \in Sweeps
  BY <1>1 DEF Sweeps
<1> QED BY <1>1, <1>2, <1>3 DEF Sweeps

LEMMA NextItemIs ==
  ASSUME sweeping \in Sweeps, Files!NextItem
  PROVE  /\ sweeping' \in Sweeps /\ sweeping'.complete = sweeping.complete
         /\ sweeping'.step = IF sweeping.item \in HostWorkers THEN "workers" ELSE "instances"
<1>1. sweeping' = [sweeping EXCEPT !.step = Files!Onward, !.item = Nobody]
  BY DEF Files!NextItem
<1>2. Files!Onward = IF sweeping.item \in HostWorkers THEN "workers" ELSE "instances"
  BY DEF Files!Onward, HostWorkers
<1>3. Files!Onward \in Files!Steps
  BY <1>2 DEF Files!Steps
<1>4. sweeping' \in Sweeps
  BY <1>1, <1>3 DEF Sweeps
<1> QED BY <1>1, <1>2, <1>4 DEF Sweeps

LEMMA FilesBegin == Files!SweepAssumption /\ Files!Init => Sweeping
<1> SUFFICES ASSUME Files!SweepAssumption, Files!Init PROVE Sweeping
  OBVIOUS
<1>1. /\ askedOf = [i \in Machines |-> "none"] /\ standing = [i \in Machines |-> "none"]
      /\ files = [i \in Machines |-> {}] /\ torn = {} /\ undone = {} /\ sweeping = Files!Resting
      /\ asks = 0 /\ faltered = 0
  BY DEF Files!Init
<1>2. MaxAsks \in Nat /\ MaxFaltered \in Nat
  BY DEF Files!SweepAssumption
<1>3. Files!Resting \in Sweeps /\ Files!Resting.step = "rest" /\ ~Files!Resting.complete
  BY DEF Files!Resting, Sweeps, Files!Steps
<1> QED
  BY <1>1, <1>2, <1>3 DEF Sweeping, Files!TypeOK, Sweeps, PassWrote, SweepSaw, Files!Whole

LEMMA FilesStepKeeps == Files!SweepAssumption /\ Sweeping /\ [Files!Next]_(Files!sweepVars) =>
   Sweeping'
<1> SUFFICES ASSUME Files!SweepAssumption, Sweeping, [Files!Next]_(Files!sweepVars) PROVE Sweeping'
  OBVIOUS
<1> FilesFit /\ BoundsFit /\ sweeping \in Sweeps /\ PassWrote /\ SweepSaw /\ Files!Whole
  BY SweepingParts
<1>1. UNCHANGED asks /\ (UNCHANGED faltered \/ Files!Hitch) => BoundsFit'
  BY DEF BoundsFit, Files!Hitch, Files!SweepAssumption
<1>2. Files!Resting \in Sweeps /\ Files!Resting.step = "rest" /\ ~Files!Resting.complete
  BY DEF Files!Resting, Sweeps, Files!Steps
<1>3. ASSUME FilesFit', \A i \in Machines : standing'[i] = "refers" => standing[i] = "refers",
             \A i \in Machines : standing[i] = "refers" => files[i] \subseteq files'[i],
                undone \subseteq undone'
      PROVE  Files!Whole'
  BY <1>3 DEF Files!Whole
<1>4. CASE UNCHANGED Files!sweepVars
  BY <1>1, <1>4, SweepingParts DEF Files!sweepVars, FilesFit, PassWrote, SweepSaw, Files!Whole
<1>5. ASSUME NEW i \in Machines, Files!Asks(i) PROVE Sweeping'
  <2>1. FilesFit'
    BY <1>5 DEF Files!Asks, FilesFit
  <2>2. BoundsFit'
    BY <1>5 DEF Files!Asks, BoundsFit, Files!SweepAssumption
  <2>3. UNCHANGED <<standing, files, torn, undone, sweeping>>
    BY <1>5 DEF Files!Asks
  <2> QED BY <2>1, <2>2, <2>3, SweepingParts DEF PassWrote, SweepSaw, Files!Whole
<1>6. CASE Files!Begins
  <2>1. sweeping' \in Sweeps /\ sweeping'.step = "workers" /\ ~sweeping'.complete
    BY <1>2, <1>6 DEF Files!Begins, Sweeps, Files!Steps, FilesFit
  <2>2. standing' \in [Machines -> {"none", "bare", "refers"}]
          /\ \A i \in Machines : standing'[i] = "refers" => standing[i] = "refers"
    BY <1>6 DEF Files!Begins, FilesFit
  <2>3. UNCHANGED <<askedOf, files, torn, undone, asks, faltered>>
    BY <1>6 DEF Files!Begins
  <2>4. FilesFit'
    BY <2>2, <2>3 DEF FilesFit
  <2> QED BY <1>1, <1>3, <2>1, <2>2, <2>3, <2>4, SweepingParts DEF PassWrote, SweepSaw
<1>7. ASSUME NEW i \in Machines, Files!Syncs(i) PROVE Sweeping'
  <2>1. sweeping' \in Sweeps /\ UNCHANGED <<sweeping.step, sweeping.complete>> /\
          sweeping.step \in {"workers", "instances"}
    <3>1. sweeping.step \in Files!Steps
      BY DEF Sweeps
    <3> QED BY <1>7, <3>1, TakenIs DEF Files!Syncs
  <2>2. files' = files \/ files' = [files EXCEPT ![i] = @ \cup {"user"}]
    BY <1>7 DEF Files!Syncs
  <2>3. UNCHANGED <<askedOf, standing, torn, undone, asks>> /\ (UNCHANGED faltered \/ Files!Hitch)
    BY <1>7 DEF Files!Syncs
  <2>4. FilesFit' /\ \A k \in Machines : files[k] \subseteq files'[k]
    BY <2>2, <2>3 DEF FilesFit, Files!Kinds
  <2> QED BY <1>1, <1>3, <2>1, <2>3, <2>4, SweepingParts DEF PassWrote, SweepSaw
<1>8. ASSUME NEW i \in Machines, Files!Builds(i) PROVE Sweeping'
  <2>1. UNCHANGED <<askedOf, standing, torn, undone, asks, faltered>>
    BY <1>8 DEF Files!Builds
  <2>2. CASE i \in torn
    <3>1. sweeping.step \in Files!Steps /\ Files!Taken(i, sweeping.step) /\ UNCHANGED files
      BY <1>8, <2>2 DEF Files!Builds, Sweeps
    <3>2. sweeping' \in Sweeps /\ UNCHANGED <<sweeping.step, sweeping.complete>> /\
            sweeping.step \in {"workers", "instances"}
      BY <3>1, TakenIs
    <3> QED BY <1>1, <1>3, <2>1, <3>1, <3>2, SweepingParts DEF PassWrote, SweepSaw, FilesFit
  <2>3. CASE i \notin torn
    <3>1. files' = [files EXCEPT ![i] = @ \cup {"user"}]
      BY <1>8, <2>3 DEF Files!Builds
    <3>2. FilesFit' /\ (\A k \in Machines : files[k] \subseteq files'[k]) /\ "user" \in files'[i]
      BY <2>1, <3>1 DEF FilesFit, Files!Kinds
    <3>3. /\ sweeping' \in Sweeps /\ sweeping'.item = i /\ sweeping'.complete = sweeping.complete
          /\ sweeping'.step = IF "net" \in Files!Written(i) THEN "net" ELSE "clone"
          /\ sweeping.step = IF i \in HostWorkers THEN "workers" ELSE "instances"
      <4>1. Files!Taken(i, IF "net" \in Files!Written(i) THEN "net" ELSE "clone")
        BY <1>8, <2>3 DEF Files!Builds
      <4>2. (IF "net" \in Files!Written(i) THEN "net" ELSE "clone") \in Files!Steps
        BY DEF Files!Steps
      <4> QED BY <4>1, <4>2, TakenIs
    <3>4. "net" \notin Files!Written(i) => Files!Refs(i) \subseteq {"user"}
      BY RefsAre
    <3>5. PassWrote'
      BY <3>2, <3>3, <3>4 DEF PassWrote, Files!Refs
    <3> QED BY <1>1, <1>3, <2>1, <3>2, <3>3, <3>5, SweepingParts DEF SweepSaw
  <2> QED BY <2>2, <2>3
<1>9. CASE Files!WritesNet
  <2>1. /\ UNCHANGED <<askedOf, standing, torn, undone, asks, faltered>>
        /\ sweeping.item \in Machines /\ files' = [files EXCEPT ![sweeping.item] = @ \cup {"net"}]
    BY <1>9 DEF Files!WritesNet, PassWrote
  <2>2. FilesFit' /\ (\A k \in Machines : files[k] \subseteq files'[k]) /\
          {"user", "net"} \subseteq files'[sweeping.item]
    BY <1>9, <2>1 DEF FilesFit, Files!Kinds, Files!WritesNet, PassWrote
  <2>3. sweeping' \in Sweeps /\ sweeping'.step = "clone" /\
          UNCHANGED <<sweeping.item, sweeping.complete>>
          /\ sweeping.step = "net"
    BY <1>9 DEF Files!WritesNet, Files!Goes, Sweeps, Files!Steps
  <2>4. PassWrote'
    BY <2>1, <2>2, <2>3, RefsAre DEF PassWrote, Files!Refs
  <2> QED BY <1>1, <1>3, <2>1, <2>2, <2>3, <2>4, SweepingParts DEF SweepSaw
<1>10. CASE Files!Clones
  <2>1. UNCHANGED <<askedOf, files, torn, undone, asks>> /\ (UNCHANGED faltered \/ Files!Hitch)
    BY <1>10 DEF Files!Clones
  <2>2. /\ FilesFit' /\ \A i \in Machines : standing'[i] = "refers" => standing[i] = "refers"
    BY <1>10, <2>1 DEF Files!Clones, PassWrote, FilesFit
  <2>3. /\ sweeping' \in Sweeps
        /\ sweeping'.complete = sweeping.complete /\ sweeping.step = "clone"
        /\ \/ sweeping'.step = "configure" /\ sweeping'.item = sweeping.item
           \/ sweeping'.step = IF sweeping.item \in HostWorkers THEN "workers" ELSE "instances"
    <3>1. CASE Files!NextItem
      BY <1>10, <3>1, NextItemIs DEF Files!Clones
    <3>2. CASE Files!Goes("configure")
      BY <1>10, <3>2 DEF Files!Clones, Files!Goes, Sweeps, Files!Steps
    <3> QED BY <1>10, <3>1, <3>2 DEF Files!Clones
  <2>4. PassWrote'
    BY <1>10, <2>1, <2>3 DEF Files!Clones, PassWrote, Files!Refs
  <2> QED BY <1>1, <1>3, <2>1, <2>2, <2>3, <2>4, SweepingParts DEF SweepSaw
<1>11. CASE Files!Configures
  <2>1. UNCHANGED <<askedOf, files, torn, undone, asks>> /\ (UNCHANGED faltered \/ Files!Hitch)
    BY <1>11 DEF Files!Configures
  <2>2. FilesFit' /\ \A i \in Machines \ {sweeping.item} : standing'[i] = standing[i]
    BY <1>11, <2>1 DEF Files!Configures, FilesFit
  <2>3. /\ sweeping' \in Sweeps /\ sweeping'.complete = sweeping.complete /\
             sweeping.step = "configure"
        /\ sweeping'.step = IF sweeping.item \in HostWorkers THEN "workers" ELSE "instances"
    BY <1>11, NextItemIs DEF Files!Configures
  <2>4. Files!Refs(sweeping.item) \subseteq files[sweeping.item]
    BY <1>11 DEF Files!Configures, PassWrote
  <2>5. Files!Whole'
    BY <2>1, <2>2, <2>4 DEF Files!Whole, Files!Refs
  <2> QED BY <1>1, <2>1, <2>2, <2>3, <2>5, SweepingParts DEF SweepSaw, PassWrote
<1>12. ASSUME NEW i \in Machines, Files!RemovesFiles(i) PROVE Sweeping'
  <2>1. UNCHANGED <<askedOf, standing, torn, asks>> /\ undone' = undone \cup {i} /\
          (UNCHANGED faltered \/ Files!Hitch)
    BY <1>12 DEF Files!RemovesFiles
  <2>2. PICK stays \in {{}} \cup {{k} : k \in files[i]} : files' = [files EXCEPT ![i] = stays]
    BY <1>12 DEF Files!RemovesFiles
  <2>3. FilesFit' /\ \A k \in Machines \ {i} : files'[k] = files[k]
    BY <2>1, <2>2 DEF FilesFit
  <2>4. /\ sweeping' \in Sweeps /\ sweeping'.step = "destroy" /\ sweeping'.item = i /\
             sweeping'.complete = sweeping.complete
        /\ sweeping.step = IF i \in HostWorkers THEN "workers" ELSE "instances"
    BY <1>12, TakenIs DEF Files!RemovesFiles, Files!Steps
  <2>5. Files!Whole'
    BY <2>1, <2>3 DEF Files!Whole, Files!Refs
  <2> QED BY <1>1, <2>1, <2>3, <2>4, <2>5, SweepingParts DEF SweepSaw, PassWrote
<1>13. CASE Files!Destroys
  <2>1. UNCHANGED <<askedOf, files, undone, asks>> /\ (UNCHANGED faltered \/ Files!Hitch)
    BY <1>13 DEF Files!Destroys
  <2>2. FilesFit' /\ \A i \in Machines : standing'[i] = "refers" => standing[i] = "refers"
    BY <1>13, <2>1 DEF Files!Destroys, PassWrote, FilesFit
  <2>3. /\ sweeping' \in Sweeps /\ sweeping'.complete = sweeping.complete /\
             sweeping.step = "destroy"
        /\ sweeping'.step = IF sweeping.item \in HostWorkers THEN "workers" ELSE "instances"
    BY <1>13, NextItemIs DEF Files!Destroys
  <2> QED BY <1>1, <1>3, <2>1, <2>2, <2>3, SweepingParts DEF SweepSaw, PassWrote
<1>14. CASE Files!Observes
  <2>1. UNCHANGED <<askedOf, standing, files, torn, undone, asks>> /\
          (UNCHANGED faltered \/ Files!Hitch)
    BY <1>14 DEF Files!Observes
  <2>2. sweeping.step = "workers" /\ ~sweeping.complete
    BY <1>14 DEF Files!Observes, SweepSaw
  <2>3. /\ sweeping' \in Sweeps /\ sweeping'.step = "collect"
        /\ sweeping'.complete => sweeping'.live = {i \in Machines : standing[i] = "refers"}
    <3>1. CASE sweeping' = [sweeping EXCEPT !.step = "collect", !.complete = TRUE,
                                            !.live = {i \in Machines : standing[i] = "refers"}]
      BY <3>1 DEF Sweeps, Files!Steps
    <3>2. CASE sweeping' = [sweeping EXCEPT !.step = "collect"]
      BY <2>2, <3>2 DEF Sweeps, Files!Steps
    <3> QED BY <1>14, <3>1, <3>2 DEF Files!Observes, Files!Goes
  <2> QED BY <1>1, <1>3, <2>1, <2>3, SweepingParts DEF SweepSaw, PassWrote, FilesFit
<1>15. CASE Files!Collects
  <2>1. UNCHANGED <<askedOf, standing, torn, undone, asks>> /\ (UNCHANGED faltered \/ Files!Hitch)
    BY <1>15 DEF Files!Collects
  <2>2. PICK stays \in SUBSET Machines :
          files' = [i \in Machines |-> IF Files!Collectable(i) /\
             i \notin stays THEN files[i] \cap {"old"} ELSE files[i]]
    BY <1>15 DEF Files!Collects
  <2>3. \A i \in Machines : Files!Collectable(i) => standing[i] # "refers"
    BY <1>15 DEF Files!Collects, Files!Collectable, SweepSaw
  <2>4. FilesFit' /\ \A i \in Machines : standing[i] = "refers" => files'[i] = files[i]
    BY <2>1, <2>2, <2>3 DEF FilesFit
  <2>5. sweeping' \in Sweeps /\ sweeping'.step = "instances"
    BY <1>15 DEF Files!Collects, Files!Goes, Sweeps, Files!Steps
  <2> QED BY <1>1, <1>3, <2>1, <2>4, <2>5, SweepingParts DEF SweepSaw, PassWrote
<1>16. CASE Files!Over \/ Files!Dies
  <2>1. UNCHANGED <<askedOf, standing, files, torn, undone, asks>> /\
          (UNCHANGED faltered \/ Files!Hitch)
          /\ sweeping' = Files!Resting
    BY <1>16 DEF Files!Over, Files!Dies
  <2> QED BY <1>1, <1>2, <1>3, <2>1, SweepingParts DEF SweepSaw, PassWrote, FilesFit
<1> QED
  BY <1>4, <1>5, <1>6, <1>7, <1>8, <1>9, <1>10, <1>11, <1>12, <1>13, <1>14, <1>15, <1>16
  DEF Files!Next, Files!Agent

(* Whatever row is lost, listing fails or agent dies: a machine has every   *)
(* file its configuration names, until a delete of it began.                *)
THEOREM FilesAreWhole == Spec => []Files!Whole
<1>1. Init => Sweeping
  BY HostAssumption, FilesBegin DEF Init
<1>2. Sweeping /\ [Next]_hostVars => Sweeping'
  BY HostAssumption, OwnParts, FilesStepKeeps
<1>3. Sweeping => Files!Whole
  BY DEF Sweeping
<1> QED BY <1>1, <1>2, <1>3, PTL DEF Spec

-----------------------------------------------------------------------------
(* The type of the host.                                                    *)

\* The invariants of all parts, of one that takes turns when it is its turn.
PartsKeep ==
  /\ Ports!TypeOK /\ Holding /\ Scrubbing
  /\ Wires!TypeOK /\ Wires!InHand
  /\ Work!TypeOK /\ Work!Knows
  /\ Trading /\ Tunnelling /\ Telling /\ Sweeping
TurnKeeps ==
  /\ component = "offer" => Selling
  /\ component = "residue" => Residing
  /\ component = "joining" => Serving
  /\ component = "telemetry" => Showing
  /\ component = "boot" => Installing
  /\ component = "upkeep" => Keeps!Keeping

\* Every variable of every part has its type, whichever part moves, for every
\* value of the constants.
THEOREM TypeCorrect == Spec => []TypeOK
<1>1. Init => PartsKeep
  <2> SUFFICES ASSUME Init PROVE PartsKeep
    OBVIOUS
  <2>1. Ports!TypeOK /\ Wires!TypeOK
    BY HostAssumption, Ports!InitType, Wires!InitType DEF Init
  <2>2. Wires!InHand
    BY DEF Init, Wires!Init, Wires!InHand
  <2>3. Holding /\ Scrubbing
    BY HostAssumption, MirrorBegins, ScrubBegins DEF Init
  <2>4. Work!TypeOK /\ Work!Knows
    BY HostAssumption, Work!TypeInit, Work!KnowsInit DEF Init
  <2>5. Trading /\ Tunnelling /\ Telling /\ Sweeping
    BY HostAssumption, WebBegins, LinkBegins, ToldBegins, FilesBegin DEF Init
  <2> QED BY <2>1, <2>2, <2>3, <2>4, <2>5 DEF PartsKeep
<1>2. Init => TurnKeeps
  BY HostAssumption, SaleBegins, RemainsBegin, JoinBegins, SaysBegins, BootBegins, Keeps!KeepBegins
  DEF Init, TakeTurns, TurnKeeps
<1>3. PartsKeep /\ [Next]_hostVars => PartsKeep'
  <2> SUFFICES ASSUME PartsKeep, [Next]_hostVars PROVE PartsKeep'
    OBVIOUS
  <2>1. Ports!TypeOK' /\ Wires!TypeOK' /\ Wires!InHand'
    BY HostAssumption, OwnParts, Ports!NextType, Wires!NextType, Wires!InHandStep DEF PartsKeep
  <2>2. Holding' /\ Scrubbing'
    BY HostAssumption, OwnParts, MirrorStepKeeps, ScrubStepKeeps DEF PartsKeep
  <2>3. Work!TypeOK' /\ Work!Knows'
    BY HostAssumption, OwnParts, Work!KnowsStep DEF PartsKeep
  <2>4. Trading' /\ Tunnelling' /\ Telling' /\ Sweeping'
    BY HostAssumption, OwnParts, WebStepKeeps, LinkStepKeeps, ToldStepKeeps, FilesStepKeeps
         DEF PartsKeep
  <2> QED BY <2>1, <2>2, <2>3, <2>4 DEF PartsKeep
<1>4. TurnKeeps /\ [Next]_hostVars => TurnKeeps'
  BY HostAssumption, TurnParts, SaleStepKeeps, RemainsStepKeeps, JoinStepKeeps, SaysStepKeeps,
       BootStepKeeps,
     Keeps!KeepStep DEF TurnKeeps
<1>5. PartsKeep /\ TurnKeeps => TypeOK
  BY DEF PartsKeep, TurnKeeps, Holding, Scrubbing, Trading, Tunnelling, Telling, Sweeping, Selling,
       Residing, Serving,
     Showing, Installing, Keeps!Keeping, TypeOK
<1> QED BY <1>1, <1>2, <1>3, <1>4, <1>5, PTL DEF Spec

=============================================================================
