-------------------------------- MODULE Scrub --------------------------------
(***************************************************************************)
(* A card's scrub (src/src/scrub.rs, crates/onv-scrub): the card task asks *)
(* Core which scrubs it wants, clones a guest that is given the card, reads*)
(* its program's verdict, removes it and reports.  Beside it the reconcile *)
(* loop settles every clone record (instance.rs, recover_pending), the     *)
(* scrub's too, under no lock the scrub takes.                             *)
(*                                                                         *)
(* One card.  A scrub is a tenancy's end, `Scrubs`, and Core asks for it in*)
(* attempts.  Core, the hypervisor, the scrub program and the tenant are   *)
(* external.  A report is recorded at the moment it is sent.               *)
(***************************************************************************)
EXTENDS Integers, FiniteSets

CONSTANTS
  VMIDs,        \* the numbers the hypervisor gives out
  None,         \* no guest, no number, no scrub
  MaxKeys,      \* bound: one more than the tenancies and further attempts together
  MaxFaults     \* bound: crashes, failing calls, lost answers, settles midway

Keys == {k \in [id : 1 .. MaxKeys, attempt : 1 .. MaxKeys] : k.id + k.attempt =< MaxKeys}
Verdicts == {"clean", "failed"}
\* `tag`: it carries the scrub's claim.  `card`: it is configured with the card.
\* `late`: up past timings.scrubGuestDeadline.  `says`: /run/onv/scrub.json.
Guests == [key : Keys, tag : BOOLEAN, card : BOOLEAN, up : BOOLEAN, late : BOOLEAN,
           says : Verdicts \cup {"nothing"}]

ScrubAssumption ==
  /\ VMIDs \subseteq Nat /\ None \notin VMIDs \cup Guests \cup Keys
  /\ MaxKeys \in Nat \ {0, 1} /\ MaxFaults \in Nat

VARIABLES
  scrub, attempt, wants,  \* Core: the scrub it asks for, if it asks
  recorded,               \* Core: the attempts recorded clean
  tenant,                 \* a tenant's machine is configured with the card
  guest, task,            \* the hypervisor: scrub guests, and clone tasks
  journal,                \* pending.rs: the clone records on disk
  pc, list, at, verdict,  \* the scrub task: its pass, Core's answer, the guest
                          \* in hand and what a look concluded
  held,                   \* outcomes read and not yet answered for
  settling,               \* the reconcile loop: the rollback under way
  faults,
  cleaned                 \* history: the attempts whose program said clean

core == <<scrub, attempt, wants, recorded, tenant>>
host == <<guest, task, journal>>
agent == <<pc, list, at, verdict, held>>
scrubVars == <<core, host, agent, settling, faults, cleaned>>

Key == [id |-> scrub, attempt |-> attempt]
Standing == {v \in VMIDs : guest[v] # None}
Fault == faults < MaxFaults /\ faults' = faults + 1
\* The steps of start_scrub that work on `at`.
Making == {"asked", "wait", "tag", "equip", "start", "undo"}

TypeOK ==
  /\ Key \in Keys
  /\ wants \in BOOLEAN /\ tenant \in BOOLEAN
  /\ recorded \in SUBSET Keys /\ cleaned \in SUBSET Keys
  /\ guest \in [VMIDs -> Guests \cup {None}]
  /\ task \in [VMIDs -> {"none", "running", "ok", "failed"}]
  /\ journal \in [VMIDs -> {"none", "asked", "cloning", "abandoned"}]
  /\ pc \in Making \cup {"idle", "one", "clear", "remove", "sweep", "report"}
  /\ list \in Keys \cup {None} /\ at \in VMIDs \cup {None}
  /\ (pc \in Making \cup {"remove"}) = (at # None)
  /\ verdict \in Verdicts \cup {"nothing"}
  /\ held \in SUBSET [key : Keys, outcome : Verdicts]
  /\ settling \in VMIDs \cup {None} /\ faults \in 0 .. MaxFaults

Init ==
  /\ scrub = 1 /\ attempt = 1 /\ wants \in BOOLEAN /\ recorded = {} /\ tenant = FALSE
  /\ guest = [v \in VMIDs |-> None] /\ task = [v \in VMIDs |-> "none"]
  /\ journal = [v \in VMIDs |-> "none"]
  /\ pc = "idle" /\ list = None /\ at = None /\ verdict = "nothing" /\ held = {}
  /\ settling = None /\ faults = 0 /\ cleaned = {}

-----------------------------------------------------------------------------
(* Core and the tenant, external.                                           *)

\* A card recorded clean is sold, and comes back for the next scrub; an
\* operator ends a scrub, or asks for its next attempt.
Sold == ~wants /\ Key \in recorded /\ ~tenant /\ tenant' = TRUE
        /\ UNCHANGED <<scrub, attempt, wants>>
ComesBack ==
  /\ ~wants /\ scrub + 1 < MaxKeys
  /\ scrub' = scrub + 1 /\ attempt' = 1 /\ wants' = TRUE /\ tenant' = FALSE
Ends == wants /\ wants' = FALSE /\ UNCHANGED <<scrub, attempt, tenant>>
AsksAgain ==
  /\ wants /\ scrub + attempt < MaxKeys /\ attempt' = attempt + 1
  /\ UNCHANGED <<scrub, wants, tenant>>
Core ==
  /\ Sold \/ ComesBack \/ Ends \/ AsksAgain
  /\ UNCHANGED <<recorded, host, agent, settling, faults, cleaned>>

(* The hypervisor and the scrub program, external.                          *)
CloneEnds(v) ==
  /\ task[v] = "running"
  /\ \/ task' = [task EXCEPT ![v] = "ok"] /\ UNCHANGED <<guest, faults>>
     \/ Fault /\ task' = [task EXCEPT ![v] = "failed"] /\ guest' = [guest EXCEPT ![v] = None]
  /\ UNCHANGED <<core, journal, agent, settling, cleaned>>

Says(v, w) ==
  /\ v \in Standing /\ guest[v].up /\ guest[v].says = "nothing"
  /\ guest' = [guest EXCEPT ![v].says = w]
  /\ cleaned' = IF w = "clean" THEN cleaned \cup {guest[v].key} ELSE cleaned
  /\ UNCHANGED faults
RunsLate(v) ==
  /\ v \in Standing /\ guest[v].up /\ ~guest[v].late /\ guest[v].says = "nothing"
  /\ guest' = [guest EXCEPT ![v].late = TRUE] /\ UNCHANGED <<cleaned, faults>>
StopsFirst(v) ==
  /\ v \in Standing /\ guest[v].up /\ Fault
  /\ guest' = [guest EXCEPT ![v].up = FALSE] /\ UNCHANGED cleaned
GrowsOld(v) == RunsLate(v) /\ UNCHANGED <<core, task, journal, agent, settling>>
Program(v) ==
  /\ (\E w \in Verdicts : Says(v, w)) \/ RunsLate(v) \/ StopsFirst(v)
  /\ UNCHANGED <<core, task, journal, agent, settling>>

-----------------------------------------------------------------------------
(* scrub_once and scrub_pass: the list, and one step for its scrub.         *)

\* A slip: the guest in hand is kept in mind.
GoesToKept(p) == pc' = p /\ UNCHANGED at /\ verdict' = "nothing"
GoesTo(p) == pc' = p /\ at' = None /\ verdict' = "nothing"
TakesUp(p, v) == pc' = p /\ at' = v

Ask ==
  /\ pc = "idle"
  /\ list' = IF wants THEN Key ELSE None
  /\ GoesTo(IF wants THEN "one" ELSE "sweep")
  /\ UNCHANGED <<core, host, held, settling, faults, cleaned>>

\* claimed_guests, by the scrub's id.
Claimed == {v \in Standing : guest[v].tag /\ guest[v].key.id = list.id}
Answered == \E s \in held : s.key = list

\* A slip: an earlier attempt's guest is looked at as this one's.
OtherAttemptMissed(v) == FALSE
OtherAttempt(v) == guest[v].key # list

\* step: the program's word, as far as it can be read, then the two failures
\* the program cannot say.
Read(v) == IF guest[v].up THEN guest[v].says ELSE "nothing"
Concludes(v, word) ==
  IF word # "nothing" THEN word
  ELSE IF ~guest[v].up \/ guest[v].late THEN "failed" ELSE "nothing"

\* Held already, nothing found, or too many found.
LookElsewhere ==
  /\ Answered \/ Cardinality(Claimed) # 1
  /\ GoesTo(IF Claimed = {} /\ ~Answered THEN "clear" ELSE "sweep")
  /\ UNCHANGED faults

LookAt(v) ==
  /\ ~Answered /\ Claimed = {v}
  /\ IF OtherAttempt(v) THEN TakesUp("remove", v) /\ verdict' = "nothing" /\ UNCHANGED faults
     ELSE \E word \in {Read(v), "nothing"} :
            /\ IF word = Read(v) THEN UNCHANGED faults ELSE Fault
            /\ IF Concludes(v, word) = "nothing" THEN GoesTo("sweep")
               ELSE TakesUp("remove", v) /\ verdict' = Concludes(v, word)

Look ==
  /\ pc = "one"
  /\ LookElsewhere \/ \E v \in VMIDs : LookAt(v)
  /\ UNCHANGED <<core, host, list, held, settling, cleaned>>

\* remove_scrub_guest: the outcome is held only once the guest is gone.
Gone(v) ==
  /\ guest' = [guest EXCEPT ![v] = None] /\ task' = [task EXCEPT ![v] = "none"]
Holds(w) == held' = IF w = "nothing" THEN held ELSE held \cup {[key |-> list, outcome |-> w]}
Remove ==
  /\ pc = "remove" /\ at \in Standing
  /\ Gone(at) /\ Holds(verdict) /\ GoesTo("sweep")
  /\ UNCHANGED <<core, journal, list, settling, faults, cleaned>>
\* A slip: the outcome is held whether or not the guest went.
RemoveFailsHeld ==
  /\ pc = "remove"
  /\ Fault /\ UNCHANGED <<guest, task>> /\ Holds(verdict) /\ GoesTo("sweep")
  /\ UNCHANGED <<core, journal, list, settling, cleaned>>
\* Not there any more, or a call failed, perhaps after the stop.
RemoveFails ==
  /\ pc = "remove"
  /\ \/ at \notin Standing /\ UNCHANGED <<guest, task, faults>>
     \/ Fault /\ at \in Standing
        /\ \/ guest' \in {guest, [guest EXCEPT ![at].up = FALSE]} /\ UNCHANGED task
           \/ Gone(at)
  /\ GoesTo("sweep")
  /\ UNCHANGED <<core, journal, list, held, settling, cleaned>>

-----------------------------------------------------------------------------
(* start_scrub.                                                             *)

Unnamed == ~tenant /\ \A v \in Standing : ~guest[v].card

\* No configuration names the card; the number is written down, then asked for.
Begin(v) ==
  /\ pc = "clear" /\ Unnamed
  /\ v \notin Standing /\ \A w \in VMIDs \ Standing : v =< w       \* nextid
  /\ journal' = [journal EXCEPT ![v] = "asked"] /\ TakesUp("asked", v) /\ verdict' = "nothing"
  /\ UNCHANGED <<core, guest, task, list, held, settling, faults, cleaned>>

\* The card is named somewhere: the scrub waits.  Or a read failed.
Waits ==
  /\ pc = "clear"
  /\ IF Unnamed /\ Standing # VMIDs THEN Fault ELSE UNCHANGED faults
  /\ GoesTo("sweep")
  /\ UNCHANGED <<core, host, list, held, settling, cleaned>>

\* The clone call, and its task written beside the number.
Cloned(v) ==
  /\ task' = [task EXCEPT ![v] = "running"]
  /\ guest' = [guest EXCEPT ![v] =
        [key |-> list, tag |-> FALSE, card |-> FALSE, up |-> FALSE, late |-> FALSE,
         says |-> "nothing"]]
Clone ==
  /\ pc = "asked" /\ Cloned(at)
  /\ journal' = [journal EXCEPT ![at] = "cloning"] /\ pc' = "wait"
  /\ UNCHANGED <<core, list, at, verdict, held, settling, faults, cleaned>>
\* Refused, or its answer lost: the record stays as it is.  A clone whose answer
\* is lost is left to the operator, who is not modelled; such clones never take
\* the last of VMIDs, a bound.
NumbersRemain == Cardinality(Standing) + 1 < Cardinality(VMIDs)
CloneFails ==
  /\ pc = "asked" /\ Fault
  /\ (NumbersRemain /\ Cloned(at)) \/ UNCHANGED <<guest, task>>
  /\ GoesTo("sweep")
  /\ UNCHANGED <<core, journal, list, held, settling, cleaned>>

Abandoned(v) == journal' = [journal EXCEPT ![v] = "abandoned"]
\* "none": it ended, and the clone was settled since.
Seen ==
  /\ pc = "wait"
  /\ \/ task[at] \in {"ok", "none"} /\ TakesUp("tag", at) /\ UNCHANGED <<journal, verdict, faults>>
     \/ task[at] = "failed" /\ TakesUp("undo", at) /\ Abandoned(at) /\ UNCHANGED <<verdict, faults>>
     \/ Fault /\ GoesTo("sweep") /\ UNCHANGED journal       \* TaskEnd::Unknown
  /\ UNCHANGED <<core, guest, task, list, held, settling, cleaned>>

Tag ==
  /\ pc = "tag" /\ at \in Standing
  /\ guest' = [guest EXCEPT ![at].tag = TRUE] /\ pc' = "equip" /\ UNCHANGED journal
Equip ==
  /\ pc = "equip" /\ at \in Standing
  /\ guest' = [guest EXCEPT ![at].card = TRUE] /\ pc' = "start"
  /\ journal' = [journal EXCEPT ![at] = "none"]
Finish ==
  /\ Tag \/ Equip
  /\ UNCHANGED <<core, task, list, at, verdict, held, settling, faults, cleaned>>

Start ==
  /\ pc = "start" /\ at \in Standing
  /\ guest' = [guest EXCEPT ![at].up = TRUE] /\ GoesTo("sweep")
  /\ UNCHANGED <<core, task, journal, list, held, settling, faults, cleaned>>

\* The guest went from under the create, or a call failed.
FinishFails ==
  /\ pc \in {"tag", "equip", "start"}
  /\ IF at \in Standing THEN Fault ELSE UNCHANGED faults
  /\ Abandoned(at) /\ pc' = "undo"
  /\ UNCHANGED <<core, guest, task, list, at, verdict, held, settling, cleaned>>

\* abandon_clone.
Undone(v) == Gone(v) /\ journal' = [journal EXCEPT ![v] = "none"]
Undo ==
  /\ pc = "undo"
  /\ \/ at \in Standing /\ Undone(at) /\ UNCHANGED faults
     \/ at \notin Standing /\ UNCHANGED <<guest, task, journal, faults>>
     \/ at \in Standing /\ Fault /\ UNCHANGED <<guest, task, journal>>
  /\ GoesTo("sweep")
  /\ UNCHANGED <<core, list, held, settling, cleaned>>

-----------------------------------------------------------------------------
(* sweep_scrub_guests, and the report.                                      *)

\* A slip: guests are swept only while Core wants no scrub at all.
UnwantedEnded(v) == guest[v].tag /\ list = None
Unwanted(v) == guest[v].tag /\ (IF list = None THEN TRUE ELSE guest[v].key.id # list.id)
Sweep(v) ==
  /\ pc = "sweep" /\ v \in Standing /\ Unwanted(v)
  /\ Gone(v) /\ UNCHANGED <<core, journal, agent, settling, faults, cleaned>>

\* Outcomes of what is no longer listed go.
SweepEnds ==
  /\ pc = "sweep"
  /\ IF \E v \in Standing : Unwanted(v) THEN Fault ELSE UNCHANGED faults
  /\ held' = {s \in held : s.key = list}
  /\ GoesTo("report")
  /\ UNCHANGED <<core, host, list, settling, cleaned>>

Records(s) ==
  /\ recorded' = IF s.outcome = "clean" THEN recorded \cup {s.key} ELSE recorded
  /\ IF s.outcome = "failed" /\ scrub + attempt < MaxKeys
       THEN attempt' = attempt + 1 /\ UNCHANGED wants
       ELSE wants' = FALSE /\ UNCHANGED attempt
  /\ UNCHANGED <<scrub, tenant>>

\* Core concludes on what it still asks for; an answer that is lost, or says
\* `held`, keeps the outcome.
Say ==
  /\ pc = "report"
  /\ IF \E s \in held : wants /\ s.key = Key
       THEN \E s \in held : s.key = Key /\ (Records(s) \/ (Fault /\ UNCHANGED core))
       ELSE UNCHANGED core
  /\ \/ held' = {} /\ faults' = faults
     \/ held # {} /\ Fault /\ UNCHANGED held
  /\ GoesTo("idle") /\ list' = None
  /\ UNCHANGED <<host, settling, cleaned>>

-----------------------------------------------------------------------------
(* recover_pending, of the reconcile loop, with nothing the scrub task holds.*)

\* The record is of a create under way; each time is a fault, for the bound.
Midway(v) == at = v /\ pc \in Making
Meets(v) == IF Midway(v) THEN Fault ELSE UNCHANGED faults
Forgets(v) == journal' = [journal EXCEPT ![v] = "none"] /\ UNCHANGED <<guest, settling>>

\* Nothing there; claimed; or no proof this agent made it.
SettleForgets(v) ==
  /\ \/ journal[v] \in {"asked", "abandoned"} /\ v \notin Standing
     \/ journal[v] = "cloning" /\ task[v] # "running" /\ (v \in Standing => guest[v].tag)
     \/ journal[v] = "asked" /\ v \in Standing
  /\ Forgets(v)
\* Its clone ended, its stamp on it, no tag: claimed, then taken away.
SettleTakes(v) ==
  /\ journal[v] = "cloning" /\ task[v] = "ok" /\ v \in Standing /\ ~guest[v].tag
  /\ guest' = [guest EXCEPT ![v].tag = TRUE] /\ Abandoned(v) /\ settling' = v
SettleAgain(v) ==
  /\ journal[v] = "abandoned" /\ v \in Standing
  /\ settling' = v /\ UNCHANGED <<guest, journal>>
Settle(v) ==
  /\ settling = None
  /\ SettleForgets(v) \/ SettleTakes(v) \/ SettleAgain(v)
  /\ Meets(v)
  /\ UNCHANGED <<core, task, agent, cleaned>>

SettleUndoes ==
  /\ settling # None
  /\ \/ settling \in Standing /\ Undone(settling) /\ UNCHANGED faults
     \/ settling \notin Standing /\ UNCHANGED <<guest, task, journal, faults>>
     \/ settling \in Standing /\ Fault /\ UNCHANGED <<guest, task, journal>>
  /\ settling' = None
  /\ UNCHANGED <<core, agent, cleaned>>

Crash ==
  /\ Fault
  /\ pc # "idle" \/ settling # None \/ held # {}
  /\ GoesTo("idle") /\ list' = None /\ held' = {} /\ settling' = None
  /\ UNCHANGED <<core, host, cleaned>>

-----------------------------------------------------------------------------
Task ==
  \/ Ask \/ Look \/ Remove \/ RemoveFails
  \/ \E v \in VMIDs : Begin(v)
  \/ Waits \/ Clone \/ CloneFails \/ Seen \/ Finish \/ Start \/ FinishFails \/ Undo
  \/ \E v \in VMIDs : Sweep(v)
  \/ SweepEnds \/ Say
Reconcile == SettleUndoes \/ \E v \in VMIDs : Settle(v)

Next ==
  \/ Core \/ Task \/ Reconcile \/ Crash
  \/ \E v \in VMIDs : CloneEnds(v) \/ Program(v)

\* The task's period comes round, so does the reconcile loop's; a clone ends;
\* a program speaks or its guest grows old.
Fairness ==
  /\ WF_scrubVars(Task) /\ WF_scrubVars(Reconcile)
  /\ WF_scrubVars(\E v \in VMIDs : CloneEnds(v))
  /\ WF_scrubVars(\E v \in VMIDs : GrowsOld(v))

Spec == Init /\ [][Next]_scrubVars /\ Fairness

-----------------------------------------------------------------------------
\* Core asks forward only: what is recorded, held or in hand is of an attempt it asks
\* for now or asked for before, and a card recorded clean is asked about no more.
Before(k, l) == k.id < l.id \/ (k.id = l.id /\ k.attempt =< l.attempt)
AsksForward ==
  /\ \A k \in recorded : Before(k, Key)
  /\ \A s \in held : Before(s.key, Key)
  /\ list # None => Before(list, Key) /\ \A s \in held : Before(s.key, list)
  /\ pc \in Making \cup {"one", "clear", "remove"} => list # None
  /\ Key \in recorded => ~wants /\ list = None
  /\ tenant => Key \in recorded

\* One scrub guest has the card, none while one is being made for it, and one that
\* runs, or is removed for its word that it is clean, has it.
CardGiven ==
  /\ \A v, w \in Standing : guest[v].card /\ guest[w].card => v = w
  /\ \A v \in Standing : guest[v].up => guest[v].card
  /\ pc \in {"asked", "wait", "tag", "equip"} => \A v \in Standing : ~guest[v].card
  /\ at \in Standing /\ (pc = "start" \/ (pc = "remove" /\ verdict = "clean")) => guest[at].card

\* A clean outcome is the word of a guest of the attempt it is an outcome of.
CleanIsSaid ==
  /\ \A v \in Standing : guest[v].says = "clean" => guest[v].key \in cleaned
  /\ pc = "remove" /\ verdict = "clean" => list \in cleaned
  /\ \A s \in held : s.outcome = "clean" => s.key \in cleaned

\* Once the attempt Core asks for is known clean, the card is out of every guest, and
\* no guest is being made.
Concluded == Key \in recorded \/ \E s \in held : s.key = Key /\ s.outcome = "clean"
ConcludedIsFree ==
  Concluded => pc \notin Making \cup {"clear"} /\ \A v \in Standing : ~guest[v].card

(* A tenant never meets a scrub guest that is configured with its card:     *)
(* Core sells the card on a report made only once the guest is gone.        *)
SoldCardIsFree == tenant => \A v \in Standing : ~guest[v].card

(* Core records an attempt clean only if that attempt's own guest, given    *)
(* the card, said so: never on an earlier attempt's word.                   *)
CleanWasSaid == recorded \subseteq cleaned

(* A card is sold scrubbed, and out of the scrub's hands.                   *)
SoldCardIsClean == SoldCardIsFree /\ CleanWasSaid

(* Every attempt Core asks for is concluded, or Core stops asking: no       *)
(* debris of an earlier attempt, crash or rollback keeps it from ending.    *)
EveryScrubEnds == \A k \in Keys : <>[]~(wants /\ Key = k)
=============================================================================
