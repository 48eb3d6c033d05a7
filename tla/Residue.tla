------------------------------- MODULE Residue -------------------------------
(***************************************************************************)
(* What a deleted machine leaves on the storage (src/src/teardown.rs): the *)
(* proof of a delete names the volumes that stayed, every pass asks them to*)
(* go again, and a check for each tells Core when a listing finds it gone. *)
(* A volume is known by its name, a name by the number of the guest it was *)
(* made for, and a number is given again once it is free.                  *)
(*                                                                         *)
(* One number; each machine has one volume.  The hypervisor and its owner, *)
(* and Core, are external.  An owner does not act in the middle of a look, *)
(* and a removal the agent no longer waits for does not happen later:      *)
(* assumptions, both about calls that carry no condition.                  *)
(***************************************************************************)
EXTENDS Naturals, FiniteSets

CONSTANTS
  Machines, Nobody,
  MaxHitches  \* bound: volumes that stay, looks and writes that fail, reports lost

ResidueAssumption == IsFiniteSet(Machines) /\ Nobody \notin Machines /\ MaxHitches \in Nat

\* The volume names of the number, in the order the hypervisor gives them.
Volumes == 1 .. Cardinality(Machines)
NoVolume == 0

VARIABLES
  volume,     \* the storage: whose each volume is
  holder,     \* the guest at the number, and what its configuration names
  borrowed,   \* volumes named by a guest of another number
  tomb,       \* the tombstones
  pass,       \* the pass: its part, the machines yet to look at, and the look
  outcomes,   \* the residues this pass's statuses name
  open,       \* Core: residues, and those it closed
  shut,
  wronged,    \* history: a volume in use was removed
  hitches

residueVars == <<volume, holder, borrowed, tomb, pass, outcomes, open, shut, wronged, hitches>>

NoGuestThere == [of |-> Nobody, names |-> NoVolume]
\* owed: destroyed and not proven.  left: its volume is a residue; cleared:
\* it was, and a listing found it gone.
NoTomb == [at |-> "none", named |-> NoVolume, left |-> FALSE, cleared |-> FALSE]
AtRest == [part |-> "rest", todo |-> {}, of |-> Nobody, step |-> "look"]

Residues == Machines \X Volumes
TypeOK ==
  /\ volume \in [Volumes -> Machines \cup {Nobody}]
  /\ holder \in [of : Machines \cup {Nobody}, names : Volumes \cup {NoVolume}]
  /\ borrowed \subseteq Volumes
  /\ tomb \in [Machines -> [at : {"none", "owed", "proven", "reaped"}, named : Volumes \cup {NoVolume},
                            left : BOOLEAN, cleared : BOOLEAN]]
  /\ pass \in [part : {"rest", "prove", "retry"}, todo : SUBSET Machines,
               of : Machines \cup {Nobody}, step : {"look", "guests", "remove", "again"}]
  /\ outcomes \subseteq Residues /\ open \subseteq Residues /\ shut \subseteq Residues
  /\ wronged \in BOOLEAN /\ hitches \in 0 .. MaxHitches

Init ==
  /\ volume = [v \in Volumes |-> Nobody] /\ holder = NoGuestThere /\ borrowed = {}
  /\ tomb = [m \in Machines |-> NoTomb]
  /\ pass = AtRest /\ outcomes = {} /\ open = {} /\ shut = {} /\ wronged = FALSE /\ hitches = 0

Hitch == hitches < MaxHitches /\ hitches' = hitches + 1

-----------------------------------------------------------------------------
(* The host.                                                                *)
FirstFree == CHOOSE v \in Volumes : volume[v] = Nobody /\ \A w \in 1 .. v - 1 : volume[w] # Nobody

\* A machine's clone takes the number and allocates its volume, and has it
\* written into its configuration when the copy ends.  A scrub's clones, and
\* those the agent stopped waiting for, do so in the middle of a pass.
CloneBegins(m) ==
  /\ holder = NoGuestThere /\ tomb[m] = NoTomb
  /\ holder' = [of |-> m, names |-> NoVolume]
  /\ volume' = [volume EXCEPT ![FirstFree] = m]
  /\ UNCHANGED <<borrowed, tomb, hitches>>
CloneEnds ==
  /\ holder.of # Nobody /\ holder.names = NoVolume
  /\ holder' = [holder EXCEPT !.names = CHOOSE v \in Volumes : volume[v] = holder.of]
  /\ UNCHANGED <<volume, borrowed, tomb, hitches>>
\* tear_down: the tombstone, and the destroy, which may leave the volume.
Destroyed ==
  /\ holder.names # NoVolume /\ pass.part = "rest"
  /\ tomb' = [tomb EXCEPT ![holder.of] = [NoTomb EXCEPT !.at = "owed", !.named = holder.names]]
  /\ holder' = NoGuestThere
  /\ \/ volume' = [volume EXCEPT ![holder.names] = Nobody] /\ UNCHANGED hitches
     \/ Hitch /\ UNCHANGED volume
  /\ UNCHANGED borrowed
\* The owner removes what is left, or gives it to a guest of theirs, and takes
\* that away again.
Unused(v) == volume[v] # Nobody /\ volume[v] # holder.of /\ v \notin borrowed
Looking == pass.of # Nobody
OwnerActs(v) ==
  /\ ~Looking
  /\ \/ Unused(v) /\ volume' = [volume EXCEPT ![v] = Nobody] /\ UNCHANGED borrowed
     \/ Unused(v) /\ borrowed' = borrowed \cup {v} /\ UNCHANGED volume
     \/ v \in borrowed /\ borrowed' = borrowed \ {v} /\ UNCHANGED volume
  /\ UNCHANGED <<holder, tomb, hitches>>
Host ==
  /\ \/ \E m \in Machines : CloneBegins(m)
     \/ CloneEnds \/ Destroyed
     \/ \E v \in Volumes : OwnerActs(v)
  /\ UNCHANGED <<pass, outcomes, open, shut, wronged>>

-----------------------------------------------------------------------------
(* A pass: every delete that is not proven, then every residue, then the    *)
(* report.                                                                  *)
Owed == {m \in Machines : tomb[m].at = "owed"}
Left == {m \in Machines : tomb[m].left}

PassBegins ==
  /\ pass = AtRest /\ (Owed # {} \/ Left # {} \/ \E m \in Machines : tomb[m].cleared)
  /\ pass' = [AtRest EXCEPT !.part = "prove", !.todo = Owed]
  /\ UNCHANGED tomb
RetriesBegin ==
  /\ pass.part = "prove" /\ pass.todo = {} /\ ~Looking
  /\ pass' = [AtRest EXCEPT !.part = "retry", !.todo = Left]
  /\ UNCHANGED tomb
LookBegins(m) ==
  /\ ~Looking /\ m \in pass.todo
  /\ pass' = [pass EXCEPT !.of = m, !.todo = @ \ {m}]
  /\ UNCHANGED tomb
Goes ==
  /\ PassBegins \/ RetriesBegin \/ \E m \in Machines : LookBegins(m)
  /\ UNCHANGED <<volume, holder, borrowed, outcomes, open, shut, wronged, hitches>>

\* volume_left, of the volume the tombstone of pass.of names.
Named == tomb[pass.of].named
StepsTo(s) == pass' = [pass EXCEPT !.step = s] /\ UNCHANGED <<tomb, outcomes>>
LookEnds == pass' = [pass EXCEPT !.of = Nobody, !.step = "look"]

\* The answer is kept: a proof names the residue; a retry clears it, in memory
\* for this report at least.
Concludes(left) ==
  LET m == pass.of IN
  /\ LookEnds
  /\ IF pass.part = "prove"
     THEN /\ tomb' = [tomb EXCEPT ![m].at = "proven", ![m].left = left,
                                     ![m].cleared = @ \/ (tomb[m].left /\ ~left)]
          /\ outcomes' = IF left THEN outcomes \cup {<<m, Named>>} ELSE outcomes
     ELSE /\ tomb' = [tomb EXCEPT ![m].left = left, ![m].cleared = @ \/ ~left]
          /\ UNCHANGED outcomes
\* A listing fails, or the tombstone is not written: nothing is concluded.
LookFails == Looking /\ Hitch /\ LookEnds /\ UNCHANGED <<volume, tomb, outcomes, wronged>>

Look ==
  /\ Looking /\ pass.step = "look"
  /\ IF volume[Named] = Nobody THEN Concludes(FALSE) ELSE StepsTo("guests")
  /\ UNCHANGED <<volume, wronged, hitches>>

\* A slip: only the configurations are looked at.
NamedNow == Named \in borrowed \/ Named = holder.names
\* A number some guest holds is not judged; nor a volume that one names.
NotOurs == holder.of # Nobody \/ Named \in borrowed
Guests ==
  /\ Looking /\ pass.step = "guests"
  /\ \/ (IF NotOurs THEN Concludes(TRUE) ELSE StepsTo("remove")) /\ UNCHANGED hitches
     \* A guest's configuration cannot be read.
     \/ Hitch /\ Concludes(TRUE)
  /\ UNCHANGED <<volume, wronged>>

Remove ==
  /\ Looking /\ pass.step = "remove" /\ StepsTo("again")
  /\ \/ /\ volume' = [volume EXCEPT ![Named] = Nobody]
        /\ wronged' = (wronged \/ Named \in borrowed \/ (volume[Named] # Nobody /\ volume[Named] = holder.of))
        /\ UNCHANGED hitches
     \/ Hitch /\ UNCHANGED <<volume, wronged>>
\* The delete's own answer is not believed: the storage is listed again.
Again ==
  /\ Looking /\ pass.step = "again" /\ Concludes(volume[Named] # Nobody)
  /\ UNCHANGED <<volume, wronged, hitches>>
Looks ==
  /\ Look \/ Guests \/ Remove \/ Again \/ LookFails
  /\ UNCHANGED <<holder, borrowed, open, shut>>

\* A slip: a pass that some machine's tombstone says is said.
Cleared == {tomb[m].named : m \in {n \in Machines : tomb[n].cleared}}
\* A volume left for one machine and gone for another is said left.
SaidGone == Cleared \ {tomb[m].named : m \in Left}

\* Core ends the machine on its outcome, and closes a residue on its check.
Report ==
  /\ pass.part = "retry" /\ pass.todo = {} /\ ~Looking /\ pass' = AtRest /\ outcomes' = {}
  /\ \/ LET known == open \cup outcomes
            ends == {r \in known : r[2] \in SaidGone}
        IN open' = known \ ends /\ shut' = shut \cup ends /\ UNCHANGED <<tomb, hitches>>
     \* It is lost: the machine is still in the view, and proven again.
     \/ /\ Hitch /\ UNCHANGED <<open, shut>>
        /\ tomb' = [m \in Machines |-> IF <<m, tomb[m].named>> \in outcomes
                                        THEN [tomb[m] EXCEPT !.at = "owed"] ELSE tomb[m]]
  /\ UNCHANGED <<volume, holder, borrowed, wronged>>

\* reap_tombstones: proven long ago, no residue, and no guest with its claim.
Reap(m) ==
  /\ pass = AtRest /\ tomb[m].at = "proven" /\ ~tomb[m].left
  /\ tomb' = [tomb EXCEPT ![m] = [NoTomb EXCEPT !.at = "reaped"]]
  /\ UNCHANGED <<volume, holder, borrowed, pass, outcomes, open, shut, wronged, hitches>>

Next == Host \/ Goes \/ Looks \/ Report \/ \E m \in Machines : Reap(m)
Spec == Init /\ [][Next]_residueVars

-----------------------------------------------------------------------------
\* What the tombstones keep of the volumes: each is of the machine that is there, or
\* of one whose tombstone names it, not yet proven or proven to have left it.
TombsName ==
  \A m \in Machines :
    /\ tomb[m].at = "none" => tomb[m] = NoTomb
    /\ tomb[m].at \in {"owed", "proven"} => tomb[m].named \in Volumes
    /\ tomb[m].left => tomb[m].at \in {"owed", "proven"}
NamedOrLeft(m, v) ==
  tomb[m].named = v /\ (tomb[m].at = "owed" \/ (tomb[m].at = "proven" /\ tomb[m].left))
VolumesAreNamed ==
  /\ \A v \in Volumes : volume[v] \notin {Nobody, holder.of} => NamedOrLeft(volume[v], v)
  /\ \A v, w \in Volumes : volume[v] = volume[w] /\ volume[v] # Nobody => v = w
  /\ holder.of # Nobody => tomb[holder.of].at = "none" /\ \E v \in Volumes : volume[v] = holder.of
  /\ holder.names # NoVolume => holder.of # Nobody /\ volume[holder.names] = holder.of

\* What a look knows at each of its steps.
LookKnows ==
  /\ pass.part = "rest" => pass.todo = {} /\ ~Looking
  /\ ~Looking => pass.step = "look"
  /\ \A m \in pass.todo \cup ({pass.of} \ {Nobody}) : tomb[m].at \in {"owed", "proven"}
  /\ Looking /\ pass.step \in {"guests", "remove"} => volume[Named] # Nobody
  /\ Looking /\ pass.step = "remove" => Named \notin borrowed /\ volume[Named] # holder.of

\* A residue is of a machine that is gone; while its volume stands, that is known.
ResiduesAreLeft ==
  /\ \A r \in open \cup outcomes \cup shut : tomb[r[1]].at # "none"
  /\ \A r \in open \cup outcomes : volume[r[2]] = r[1] => tomb[r[1]].left

(* A residue Core closed is gone, that machine's own volume and not one of  *)
(* its name; and no look ever removes a volume a guest uses, not even of a  *)
(* guest that is being made and whose configuration does not name it yet.   *)
ResidueIsOwn ==
  /\ \A r \in shut : volume[r[2]] # r[1]
  /\ ~wronged
=============================================================================
