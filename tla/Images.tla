-------------------------------- MODULE Images --------------------------------
(***************************************************************************)
(* The image mirror (src/src/images.rs, crates/onv-images, and agent.rs's  *)
(* mirror_images and download_artefact): each pass of the reconcile loop   *)
(* hands over the catalogue and leaves one permit; the mirror's own task   *)
(* downloads an artefact, resumes what was interrupted, verifies it,       *)
(* retires the template at the image's number and builds the next there.   *)
(* What is held is read from the template itself, never remembered.        *)
(*                                                                         *)
(* One image, offered at one number.  A file is the set of sources its     *)
(* bytes came from: its digest is d when it is {d}, and {} is no file.     *)
(***************************************************************************)
EXTENDS Integers

CONSTANTS
  Digests,       \* what Core publishes under the image's id, in turn
  Noise,         \* bytes that are no artefact's
  NoDigest,      \* no sidecar, no marker
  NoGuest, Owners, \* at the image's number: nothing, or the owner's own guest
  MaxMoves,      \* bound: republications
  MaxTroubles    \* bound: failing calls, deaths, and what the owner does

Files == SUBSET (Digests \cup {Noise})
Stages == {"created", "disk", "finished", "template"}
\* `marker`: the digest in its description.  `disk`: what its disk was made from.
\* `shape`: it is of the family's shape.
Ours == [stage : Stages, marker : Digests \cup {NoDigest}, disk : Files, shape : BOOLEAN]
Built == [stage |-> "template", marker |-> NoDigest, disk |-> {Noise}, shape |-> TRUE]

ImagesAssumption ==
  /\ Noise \notin Digests /\ NoDigest \notin Digests /\ Digests # {}
  /\ {NoGuest, Owners} \cap Ours = {} /\ NoGuest # Owners
  /\ MaxMoves \in Nat /\ MaxTroubles \in Nat

VARIABLES
  published, moves,   \* Core's catalogue
  handed, permit,     \* mirror_wanted and mirror_kick
  mirror, copy,       \* the mirror's task, and the digest of its catalogue's copy
  part, stamp, dest,  \* <id>.qcow2.part, its sidecar, <id>.qcow2
  template,           \* what stands at the image's number
  troubles

catalogue == <<published, moves>>
files == <<part, stamp, dest>>
imageVars == <<catalogue, handed, permit, mirror, copy, files, template, troubles>>

Importing == {"retire", "create", "disk", "finish", "template"}

TypeOK ==
  /\ published \in Digests /\ moves \in 0 .. MaxMoves
  /\ handed \in Digests \cup {NoDigest} /\ permit \in BOOLEAN
  /\ mirror \in {"waits", "looks", "fetch", "stream", "verify"} \cup Importing
  /\ copy \in Digests \cup {NoDigest}
  /\ part \in Files /\ dest \in Files /\ stamp \in Digests \cup {NoDigest}
  /\ template \in Ours \cup {NoGuest, Owners}
  /\ troubles \in 0 .. MaxTroubles

Init ==
  /\ published \in Digests /\ moves = 0
  /\ handed = NoDigest /\ permit = FALSE /\ mirror = "waits" /\ copy = NoDigest
  /\ part = {} /\ stamp = NoDigest /\ dest = {}
  /\ template \in {NoGuest, Owners, Built}
  /\ troubles = 0

Trouble == troubles < MaxTroubles /\ troubles' = troubles + 1
Waits == mirror' = "waits" /\ copy' = NoDigest

-----------------------------------------------------------------------------
(* Core and the host's owner, external.                                     *)
Publish(d) ==
  /\ moves < MaxMoves /\ d # published /\ published' = d /\ moves' = moves + 1
  /\ UNCHANGED <<handed, permit, mirror, copy, files, template, troubles>>

\* The owner removes the template or edits its shape away, and puts a guest of
\* its own at a free number while no import is under way.
OwnersHand ==
  /\ Trouble
  /\ \/ template # NoGuest /\ template' = NoGuest
     \/ template \in Ours /\ template.stage = "template"
        /\ template' = [template EXCEPT !.shape = FALSE]
     \/ template = NoGuest /\ mirror \notin Importing /\ template' = Owners
  /\ UNCHANGED <<catalogue, handed, permit, mirror, copy, files>>

-----------------------------------------------------------------------------
(* What is held, as both the mirror and the report read it.                 *)

\* A slip: a half-built guest with the marker counts.
HeldUnfinished ==
  IF template \in Ours /\ template.marker # NoDigest
    THEN {template.marker} ELSE {}
Held ==
  IF /\ template \in Ours /\ template.stage = "template" /\ template.shape
     /\ template.marker # NoDigest
    THEN {template.marker} ELSE {}

\* reconcile_workers hands over the catalogue it read, and leaves one permit.
Pass ==
  /\ handed' = published /\ permit' = TRUE
  /\ UNCHANGED <<catalogue, mirror, copy, files, template, troubles>>

\* The catalogue is copied, once a node is online to mirror onto.
Wake ==
  /\ mirror = "waits" /\ permit /\ permit' = FALSE
  /\ \/ copy' = handed /\ mirror' = "looks" /\ UNCHANGED troubles
     \/ Trouble /\ Waits
  /\ UNCHANGED <<catalogue, handed, files, template>>

\* Nothing outstanding: the partials nothing wants go.
Reap == /\ part' = {} /\ stamp' = NoDigest /\ UNCHANGED dest

Staged == dest = {copy}

Look ==
  /\ mirror = "looks"
  /\ IF copy \in Held THEN Reap /\ Waits
     ELSE /\ mirror' = IF Staged THEN "retire" ELSE "fetch"
          /\ UNCHANGED <<copy, files>>
  /\ UNCHANGED <<catalogue, handed, permit, template, troubles>>

-----------------------------------------------------------------------------
(* download_artefact.                                                       *)

\* A partial is resumed only for the digest its sidecar names, and only short
\* of the published size; otherwise the sidecar is written for a fresh one.
Open ==
  /\ mirror = "fetch"
  /\ \/ stamp = copy /\ part # {} /\ UNCHANGED <<part, stamp>>
     \/ part' = {} /\ stamp' = copy
  /\ \/ mirror' = "stream" /\ UNCHANGED <<copy, troubles>>
     \/ Trouble /\ Waits
  /\ UNCHANGED <<catalogue, handed, permit, dest, template>>

\* The bytes the address serves: the artefact's, its successor's, or noise.
Arrives(bytes) == part \cup bytes
Served == {{copy}, {published}}

Same(file) == file = {copy}

Stream ==
  /\ mirror = "stream"
  /\ \E bytes \in Served \cup {{Noise}} :
       /\ IF bytes \in Served THEN UNCHANGED troubles ELSE Trouble
       /\ part' = {} /\ stamp' = NoDigest
       /\ IF Same(Arrives(bytes))
            THEN dest' = Arrives(bytes) /\ mirror' = "verify" /\ UNCHANGED copy
            ELSE Waits /\ UNCHANGED dest
  /\ UNCHANGED <<catalogue, handed, permit, template>>

\* The transfer stops, or stalls past its idle bound: the partial is kept.
Stall ==
  /\ mirror = "stream" /\ Trouble
  /\ \E bytes \in Served \cup {{}} : part' = Arrives(bytes)
  /\ Waits
  /\ UNCHANGED <<catalogue, handed, permit, stamp, dest, template>>

\* Hashed again, from the file.
Verify ==
  /\ mirror = "verify"
  /\ IF Same(dest) THEN mirror' = "retire" /\ UNCHANGED <<copy, dest>>
     ELSE dest' = {} /\ Waits
  /\ UNCHANGED <<catalogue, handed, permit, part, stamp, template, troubles>>

-----------------------------------------------------------------------------
(* import.                                                                  *)

\* A slip: whatever stands at the number is retired.
RetirableAny == TRUE
\* This image's template, or its half-built import.
Retirable == template \in Ours

Retire ==
  /\ mirror = "retire"
  /\ \/ template = NoGuest /\ mirror' = "create" /\ UNCHANGED <<copy, template, troubles>>
     \/ template # NoGuest /\ Retirable
        /\ template' = NoGuest /\ mirror' = "create" /\ UNCHANGED <<copy, troubles>>
     \/ template # NoGuest /\ ~Retirable /\ Waits /\ UNCHANGED <<template, troubles>>
     \/ Trouble /\ Waits /\ UNCHANGED template
  /\ UNCHANGED <<catalogue, handed, permit, files>>

Create ==
  /\ mirror = "create" /\ template = NoGuest
  /\ template' = [stage |-> "created", marker |-> copy, disk |-> {}, shape |-> TRUE]
  /\ mirror' = "disk" /\ UNCHANGED <<copy, files>>
ImportDisk ==
  /\ mirror = "disk" /\ template \in Ours
  /\ template' = [template EXCEPT !.stage = "disk", !.disk = dest]
  /\ mirror' = "finish" /\ UNCHANGED <<copy, files>>
FinishTemplate ==
  /\ mirror = "finish" /\ template \in Ours
  /\ template' = [template EXCEPT !.stage = "finished"]
  /\ mirror' = "template" /\ UNCHANGED <<copy, files>>
MakeTemplate ==
  /\ mirror = "template" /\ template \in Ours
  /\ template' = [template EXCEPT !.stage = "template"]
  /\ dest' = {} /\ UNCHANGED <<part, stamp>> /\ Waits

\* A call fails, with or without its effect, or the guest went: the half-built
\* import stays where it is.
ImportStep == Create \/ ImportDisk \/ FinishTemplate \/ MakeTemplate
Import ==
  /\ ImportStep /\ UNCHANGED <<catalogue, handed, permit, troubles>>
ImportFails ==
  /\ mirror \in Importing \ {"retire"}
  /\ IF (mirror = "create") = (template = NoGuest) THEN Trouble ELSE UNCHANGED troubles
  /\ Waits
  /\ UNCHANGED <<catalogue, handed, permit, files, template>>

\* The agent dies; what is on disk and on the host stays.
Dies ==
  /\ Trouble /\ Waits /\ handed' = NoDigest /\ permit' = FALSE
  /\ UNCHANGED <<catalogue, files, template>>

-----------------------------------------------------------------------------
Mirror == Wake \/ Look \/ Open \/ Stream \/ Stall \/ Verify \/ Retire \/ Import \/ ImportFails

Next == Pass \/ Mirror \/ OwnersHand \/ Dies \/ \E d \in Digests : Publish(d)

\* The loop comes round with Core's catalogue; the mirror's task goes on.
Fairness == WF_imageVars(Pass) /\ WF_imageVars(Mirror)

Spec == Init /\ [][Next]_imageVars /\ Fairness

-----------------------------------------------------------------------------
\* At every step: the mirror works for a digest it was handed, imports the bytes
\* of that digest, and a template has the bytes of its marker from its disk on.
ImportFollows ==
  /\ permit => handed \in Digests
  /\ mirror # "waits" => copy \in Digests
  /\ mirror \in Importing => dest = {copy}
  /\ template \in Ours /\ template.marker # NoDigest /\ template.stage # "created" =>
       template.disk = {template.marker}
  /\ mirror = "disk" /\ template \in Ours => template.marker = copy
  /\ mirror \in {"finish", "template"} /\ template \in Ours => template.stage # "created"

-----------------------------------------------------------------------------
(* What is reported held is a whole template made of exactly the bytes Core *)
(* published under the digest reported, over interrupted and resumed        *)
(* transfers, republications under one address, and half-built imports.     *)
HeldIsWhole == \A d \in Held : template.stage = "template" /\ template.disk = {d}

OwnersStand ==
  [][template = Owners /\ template' # Owners => template' = NoGuest /\ mirror' = mirror]_imageVars
Converged == template = Owners \/ Held = {published}

(* The owner's guest at the image's number is never taken away by the       *)
(* mirror, whatever it is in the middle of; and whatever failed, died or    *)
(* was left half-built, the provider comes to hold what Core last           *)
(* published, unless the owner's guest has the number.                      *)
MirrorSettles == OwnersStand /\ <>[]Converged
=============================================================================
