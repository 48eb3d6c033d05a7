-------------------------------- MODULE Sweep --------------------------------
(***************************************************************************)
(* The first-boot files of the machines on a host: written by a create     *)
(* before its clone, brought up to date while the machine stands, removed  *)
(* by its delete, and collected by a sweep once nothing needs them         *)
(* (crates/onv-driver-proxmox/src/snippets.rs; src/src/agent.rs, instance  *)
(* .rs and worker.rs, which call it).  Within a pass workers come before   *)
(* the sweep, and instances after it.                                      *)
(*                                                                         *)
(* Proxmox and Core are external.  A file is of the machine its name       *)
(* carries; one of the legacy name, of no kind, is never written.  All the *)
(* machines are on the node the sweep observes.                            *)
(***************************************************************************)
EXTENDS Naturals, FiniteSets

CONSTANTS
  Ids,         \* machines
  Workers,     \* those that are inference workers
  Old,         \* workers built before a file's name carried its kind
  Nobody,
  MaxEdits,    \* bound: what Core changes
  MaxHitches   \* bound: calls that fail, files not removed, deaths

SweepAssumption ==
  /\ IsFiniteSet(Ids) /\ Nobody \notin Ids /\ Workers \subseteq Ids /\ Old \subseteq Workers
  /\ MaxEdits \in Nat /\ MaxHitches \in Nat

VARIABLES
  wants,    \* Core: what it asks of each machine
  guest,    \* the host: none, bare until configured, refers to its files
  files,    \* the files of each machine that are there
  torn,     \* tombstones: machines destroyed, never built again
  undone,   \* history: machines whose delete has removed its files
  pass,     \* the pass: its step, its view, the items left, what it observed
  edits, hitches

sweepVars == <<wants, guest, files, torn, undone, pass, edits, hitches>>

Kinds == {"user", "net", "old"}
\* What a machine's configuration names; what a create writes.
Refs(i) == IF i \in Old THEN {"old"} ELSE IF i \in Workers THEN {"user"} ELSE {"user", "net"}
Written(i) == IF i \in Workers THEN {"user"} ELSE {"user", "net"}

Resting == [step |-> "rest", item |-> Nobody, view |-> [i \in Ids |-> "none"], todo |-> {}, live |-> {}, complete |-> FALSE]
Steps == {"rest", "workers", "collect", "instances", "net", "clone", "configure", "destroy"}

TypeOK ==
  /\ wants \in [Ids -> {"none", "run", "absent", "over"}]
  /\ guest \in [Ids -> {"none", "bare", "refers"}] /\ files \in [Ids -> SUBSET Kinds]
  /\ torn \subseteq Ids /\ undone \subseteq Ids
  /\ pass \in [step : Steps, item : Ids \cup {Nobody}, view : [Ids -> {"none", "run", "absent"}], todo : SUBSET Ids,
               live : SUBSET Ids, complete : BOOLEAN]
  /\ edits \in 0 .. MaxEdits /\ hitches \in 0 .. MaxHitches

\* A host whose old workers stand.
Init ==
  /\ wants = [i \in Ids |-> IF i \in Old THEN "run" ELSE "none"]
  /\ guest = [i \in Ids |-> IF i \in Old THEN "refers" ELSE "none"]
  /\ files = [i \in Ids |-> IF i \in Old THEN {"old"} ELSE {}]
  /\ torn = {} /\ undone = {} /\ pass = Resting /\ edits = 0 /\ hitches = 0

Hitch == hitches < MaxHitches /\ hitches' = hitches + 1

-----------------------------------------------------------------------------
(* Core asks for a machine, or for its end; takes that back while the       *)
(* machine was not destroyed; and ends its row, proven gone or lost.        *)
Asks(i) ==
  /\ \/ wants[i] = "none" /\ wants' = [wants EXCEPT ![i] = "run"]
     \/ wants[i] = "run" /\ wants' = [wants EXCEPT ![i] = "absent"]
     \/ wants[i] = "absent" /\ i \notin torn /\ wants' = [wants EXCEPT ![i] = "run"]
     \/ wants[i] \in {"run", "absent"} /\ wants' = [wants EXCEPT ![i] = "over"]
  /\ edits < MaxEdits /\ edits' = edits + 1
  /\ UNCHANGED <<guest, files, torn, undone, pass, hitches>>

-----------------------------------------------------------------------------
(* The pass.                                                                *)

Goes(step) == pass' = [pass EXCEPT !.step = step]
\* Where a pass goes on after an item, done or failed.
Onward == IF pass.item \in Workers THEN "workers" ELSE "instances"
NextItem == pass' = [pass EXCEPT !.step = Onward, !.item = Nobody]

\* The view; and of a clone owed, the record may have it taken back.
Begins ==
  /\ pass.step = "rest"
  /\ pass' = [Resting EXCEPT !.step = "workers",
                             !.view = [i \in Ids |-> IF wants[i] = "over" THEN "none" ELSE wants[i]],
                             !.todo = {i \in Ids : wants[i] \in {"run", "absent"}}]
  /\ \E back \in SUBSET {i \in Ids : guest[i] = "bare"} :
       guest' = [i \in Ids |-> IF i \in back THEN "none" ELSE guest[i]]
  /\ UNCHANGED <<wants, files, torn, undone, edits, hitches>>

Taken(i, step) ==
  /\ pass.step = IF i \in Workers THEN "workers" ELSE "instances"
  /\ i \in pass.todo
  /\ pass' = [pass EXCEPT !.todo = @ \ {i}, !.step = step, !.item = IF step = pass.step THEN Nobody ELSE i]

\* A machine that stands has its own file written when it is not as it should be.
Syncs(i) ==
  /\ pass.view[i] = "run" /\ guest[i] # "none" /\ Taken(i, pass.step)
  /\ \/ files' = [files EXCEPT ![i] = @ \cup {"user"}] /\ UNCHANGED hitches
     \/ "user" \notin files[i] /\ Hitch /\ UNCHANGED files
  /\ UNCHANGED <<wants, guest, torn, undone, edits>>
\* One torn down is refused; another is built, its file written first.
Builds(i) ==
  /\ pass.view[i] = "run" /\ guest[i] = "none"
  /\ IF i \in torn
     THEN Taken(i, pass.step) /\ UNCHANGED files
     ELSE /\ Taken(i, IF "net" \in Written(i) THEN "net" ELSE "clone")
          /\ files' = [files EXCEPT ![i] = @ \cup {"user"}]
  /\ UNCHANGED <<wants, guest, torn, undone, edits, hitches>>
WritesNet ==
  /\ pass.step = "net" /\ files' = [files EXCEPT ![pass.item] = @ \cup {"net"}] /\ Goes("clone")
  /\ UNCHANGED <<wants, guest, torn, undone, edits, hitches>>
\* The clone, and its configuration; what failed is taken back, or is left.
Clones ==
  /\ pass.step = "clone"
  /\ \/ guest' = [guest EXCEPT ![pass.item] = "bare"] /\ Goes("configure") /\ UNCHANGED hitches
     \/ Hitch /\ NextItem /\ UNCHANGED guest
  /\ UNCHANGED <<wants, files, torn, undone, edits>>
Configures ==
  /\ pass.step = "configure" /\ NextItem
  /\ \/ guest' = [guest EXCEPT ![pass.item] = "refers"] /\ UNCHANGED hitches
     \/ Hitch /\ \E left \in {"none", "bare"} : guest' = [guest EXCEPT ![pass.item] = left]
  /\ UNCHANGED <<wants, files, torn, undone, edits>>

\* A delete removes the files first, one that will not go left behind.
RemovesFiles(i) ==
  /\ pass.view[i] = "absent" /\ Taken(i, "destroy")
  /\ \E left \in {{}} \cup {{k} : k \in files[i]} :
       /\ files' = [files EXCEPT ![i] = left]
       /\ IF left = {} THEN UNCHANGED hitches ELSE Hitch
  /\ undone' = undone \cup {i}
  /\ UNCHANGED <<wants, guest, torn, edits>>
\* Then Core's view is read again, and the machine destroyed, or not.
Destroys ==
  /\ pass.step = "destroy" /\ NextItem
  /\ \/ /\ wants[pass.item] = "absent" /\ guest[pass.item] # "none"
        /\ guest' = [guest EXCEPT ![pass.item] = "none"] /\ torn' = torn \cup {pass.item} /\ UNCHANGED hitches
     \/ /\ wants[pass.item] # "absent" \/ guest[pass.item] = "none"
        /\ UNCHANGED <<guest, torn, hitches>>
     \/ Hitch /\ UNCHANGED <<guest, torn>>
  /\ UNCHANGED <<wants, files, undone, edits>>

\* observe: the owners of the files any machine's configuration names; one
\* configuration that cannot be read, and nothing is known.
Observes ==
  /\ pass.step = "workers" /\ pass.todo \cap Workers = {}
  /\ \/ pass' = [pass EXCEPT !.step = "collect", !.complete = TRUE, !.live = {i \in Ids : guest[i] = "refers"}]
        /\ UNCHANGED hitches
     \/ Hitch /\ Goes("collect")
  /\ UNCHANGED <<wants, guest, files, torn, undone, edits>>

Desired == {i \in Ids : pass.view[i] = "run"}
\* A slip: an incomplete view is taken for one that shows nothing.
Needless(i) == i \notin pass.live \cup Desired
\* sweep: of an owner neither there nor wanted, on a complete view.
Collectable(i) == pass.complete /\ i \notin pass.live \cup Desired
\* Every file of such an owner, but for one of a name that carries no kind.
Collects ==
  /\ pass.step = "collect" /\ Goes("instances")
  /\ \E stays \in SUBSET {i \in Ids : Collectable(i) /\ files[i] \ {"old"} # {}} :
       /\ files' = [i \in Ids |-> IF Collectable(i) /\ i \notin stays THEN files[i] \cap {"old"} ELSE files[i]]
       /\ IF stays = {} THEN UNCHANGED hitches ELSE Hitch
  /\ UNCHANGED <<wants, guest, torn, undone, edits>>

Over ==
  /\ pass.step = "instances" /\ pass.todo = {} /\ pass' = Resting
  /\ UNCHANGED <<wants, guest, files, torn, undone, edits, hitches>>

Dies ==
  /\ pass.step # "rest" /\ Hitch /\ pass' = Resting
  /\ UNCHANGED <<wants, guest, files, torn, undone, edits>>

Agent ==
  \/ Begins \/ WritesNet \/ Clones \/ Configures \/ Destroys \/ Observes \/ Collects \/ Over
  \/ \E i \in Ids : Syncs(i) \/ Builds(i) \/ RemovesFiles(i)

Next == Agent \/ Dies \/ \E i \in Ids : Asks(i)

Spec == Init /\ [][Next]_sweepVars /\ WF_sweepVars(Agent)

-----------------------------------------------------------------------------
Whole == \A i \in Ids : guest[i] = "refers" /\ i \notin undone => Refs(i) \subseteq files[i]
NoneLost == \A i \in Ids : wants[i] = "run" /\ guest[i] # "none" => "user" \in files[i]
NoneLeft == \A i \in Ids : wants[i] \notin {"run", "absent"} /\ guest[i] # "refers" => files[i] \subseteq {"old"}

(* A machine never lacks a file its configuration names, until a delete of  *)
(* it has begun, though its row be lost, a listing fail or the agent die;   *)
(* and in the end one that is wanted and stands has its own file again, and *)
(* what neither stands nor is wanted has left none, but one of no kind.     *)
BootFilesFollow == [][Whole']_sweepVars /\ <>[](NoneLost /\ NoneLeft)
=============================================================================
