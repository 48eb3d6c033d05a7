-------------------------------- MODULE Offer --------------------------------
(***************************************************************************)
(* A host's offer (src/src/proxmox.rs, disclosure.rs): the agent reads the *)
(* guests of a node one at a time, with its owner at work among them, and  *)
(* reports a card it can prove free or accounted for, and the room left    *)
(* beside what the owner's guest uses.  Before a machine is given the card,*)
(* the same survey answers for it again (instance.rs, cards_can_be_placed),*)
(* and before each start the gate looks once more (start_blockers).        *)
(*                                                                         *)
(* One node, one card.  The hypervisor refuses to start a second guest on  *)
(* a card that is in use: it, the owner and Core are external.             *)
(***************************************************************************)
EXTENDS Integers, FiniteSets

CONSTANTS
  Hosted,       \* machines of Core's
  Owner,        \* the owner's guest
  Unsold,       \* no machine
  Host, Contributed, Uses, \* the node's memory, the slice offered, the owner's guest
  MaxGlitches   \* bound: unreadable configurations and failing calls

Guests == Hosted \cup {Owner}
OfferAssumption ==
  /\ IsFiniteSet(Hosted) /\ Owner \notin Hosted /\ Unsold \notin Guests
  /\ Host \in Nat /\ Contributed \in Nat /\ Uses \in 0 .. Host /\ MaxGlitches \in Nat

VARIABLES
  power, carries,  \* the hypervisor: each guest's state, and who is given the card
  given, ending,   \* Core: the machine the card is sold to, and its end asked for
  offer,           \* Core: the last inventory has the card
  survey,          \* the survey under way
  through,         \* history: who has held the card since the survey began
  build, debris,   \* the machine a create works on, and the rollbacks that failed
  glitches

offerVars == <<power, carries, given, ending, offer, survey, through, build, debris, glitches>>

\* survey.use, survey.shown: the owner's use, while every guest of theirs is read.
Unasked == [ask |-> "nobody", accounts |-> Unsold, runs |-> {}, unread |-> {}, complete |-> TRUE,
            held |-> FALSE, accounted |-> FALSE, blocked |-> FALSE, use |-> 0, shown |-> TRUE]
NotBuilding == [of |-> Unsold, at |-> "rest"]

TypeOK ==
  /\ power \in [Guests -> {"none", "stopped", "running"}]
  /\ carries \in [Guests -> BOOLEAN]
  /\ given \in Hosted \cup {Unsold} /\ ending \in BOOLEAN
  /\ offer \in BOOLEAN
  /\ survey \in [ask : {"nobody", "report", "place"}, accounts : Hosted \cup {Unsold},
                 runs : SUBSET Guests, unread : SUBSET Guests, complete : BOOLEAN,
                 held : BOOLEAN, accounted : BOOLEAN, blocked : BOOLEAN,
                 use : 0 .. Host, shown : BOOLEAN]
  /\ through \in SUBSET Guests /\ debris \in SUBSET Hosted
  /\ build \in [of : Hosted \cup {Unsold}, at : {"rest", "look", "clone", "equip", "start", "undo"}]
  /\ glitches \in 0 .. MaxGlitches

Init ==
  /\ power = [g \in Guests |-> IF g = Owner THEN "stopped" ELSE "none"]
  /\ carries = [g \in Guests |-> FALSE]
  /\ given = Unsold /\ ending = FALSE /\ offer = FALSE
  /\ survey = Unasked /\ through = {} /\ build = NotBuilding /\ debris = {} /\ glitches = 0

Glitch == glitches < MaxGlitches /\ glitches' = glitches + 1
There == {g \in Guests : power[g] # "none"}
InUse(g) == \E o \in Guests \ {g} : power[o] = "running" /\ carries[o]

-----------------------------------------------------------------------------
(* The owner, external: the guest is given the card or rid of it while it   *)
(* is stopped, and started and stopped.                                     *)
Starts(g) ==
  /\ power[g] = "stopped" /\ (carries[g] => ~InUse(g))
  /\ power' = [power EXCEPT ![g] = "running"]
OwnerActs ==
  /\ \/ /\ power[Owner] = "stopped"
        /\ carries' = [carries EXCEPT ![Owner] = ~@]
        /\ UNCHANGED power
     \/ Starts(Owner) /\ UNCHANGED carries
     \/ power[Owner] = "running" /\ power' = [power EXCEPT ![Owner] = "stopped"] /\ UNCHANGED carries
  /\ UNCHANGED <<given, ending, offer, survey, build, debris, glitches>>

(* Core, external: it sells what it was offered, asks for a machine's end,  *)
(* and has the card back once the machine is gone, or was never made.       *)
Sells(m) ==
  /\ given = Unsold /\ offer /\ power[m] = "none"
  /\ given' = m /\ ending' = FALSE
AsksEnd == given # Unsold /\ ~ending /\ ending' = TRUE /\ UNCHANGED given
HasItBack ==
  /\ given # Unsold /\ build.of # given
  /\ IF given \in debris THEN TRUE ELSE ending /\ power[given] = "none"
  /\ given' = Unsold /\ ending' = FALSE
CoreSells ==
  /\ (\E m \in Hosted : Sells(m)) \/ AsksEnd \/ HasItBack
  /\ UNCHANGED <<power, carries, offer, survey, build, debris, glitches>>

-----------------------------------------------------------------------------
(* A survey: the listing, then each guest's configuration.                  *)

\* claimed_pci: who is there and who runs, in one answer.  A report accounts
\* for what Core's view, read before, says; a placement for nothing.
Listed(ask) ==
  [Unasked EXCEPT !.ask = ask, !.accounts = IF ask = "report" THEN given ELSE Unsold,
                  !.runs = {g \in There : power[g] = "running"}, !.unread = There]
BeginReport ==
  /\ survey.ask = "nobody" /\ survey' = Listed("report") /\ UNCHANGED build
\* place: a machine Core wants, and nothing of it is here.
BeginPlace ==
  /\ survey.ask = "nobody" /\ build = NotBuilding
  /\ given # Unsold /\ ~ending /\ power[given] = "none"
  /\ survey' = Listed("place") /\ build' = [of |-> given, at |-> "look"]
Begin ==
  /\ BeginReport \/ BeginPlace
  /\ UNCHANGED <<power, carries, given, ending, offer, debris, glitches>>

\* Only the owner's stopped guest is the owner's to lose the card of.
Claims(g) == g \in survey.runs \/ g \in Hosted

\* observe_vm.
Observed(g) ==
  LET has == carries[g]
      runs == g \in survey.runs
      sure == g = survey.accounts
  IN [survey EXCEPT
       !.unread = @ \ {g},
       !.held = @ \/ (has /\ runs),
       !.accounted = @ \/ (has /\ sure),
       !.blocked = @ \/ (has /\ ((runs /\ survey.held) \/ (~sure /\ Claims(g)))),
       !.use = IF g = Owner /\ runs THEN Uses ELSE @]
\* A slip: a guest that could not be read is passed over.
PassedOver(g) == [survey EXCEPT !.unread = @ \ {g}]
\* No card here can be proven free; a guest of the owner's is not sized.
Unreadable(g) ==
  [survey EXCEPT !.unread = @ \ {g}, !.complete = FALSE, !.shown = @ /\ g # Owner]
Observe(g) ==
  /\ g \in survey.unread
  /\ \/ power[g] # "none" /\ survey' = Observed(g) /\ UNCHANGED glitches
     \/ /\ survey' = Unreadable(g)
        /\ IF power[g] = "none" THEN UNCHANGED glitches ELSE Glitch
  /\ UNCHANGED <<power, carries, given, ending, offer, build, debris>>

Surveyed == survey.ask # "nobody" /\ survey.unread = {}
MayOffer == survey.complete /\ ~survey.blocked /\ (survey.held => survey.accounted)

\* disclosure::commitment: the owner's use that lies inside the slice.
Least(a, b) == IF a < b THEN a ELSE b
Slice == Least(Contributed, Host)
Committed(use) == LET over == use - (Host - Slice) IN IF over < 0 THEN 0 ELSE Least(over, Slice)
\* The slice, less what is disclosed; nothing disclosed, nothing sold.
Room == IF survey.shown THEN Slice - Committed(survey.use) ELSE 0

\* discover: what is reported; or a listing went unanswered, and nothing is.
Report ==
  /\ Surveyed /\ survey.ask = "report" /\ survey' = Unasked
  /\ \/ offer' = MayOffer /\ UNCHANGED glitches
     \/ Glitch /\ UNCHANGED offer
  /\ UNCHANGED <<power, carries, given, ending, build, debris>>

\* cards_can_be_placed: present, read in full, and free of any other guest.
Place ==
  /\ Surveyed /\ survey.ask = "place" /\ survey' = Unasked
  /\ build' = IF MayOffer THEN [build EXCEPT !.at = "clone"] ELSE NotBuilding
  /\ UNCHANGED <<power, carries, given, ending, offer, debris, glitches>>

-----------------------------------------------------------------------------
(* create: the clone, which carries the machine's claim, then the card,     *)
(* then the start through the gate, or the rollback.                        *)
Clone ==
  /\ build.at = "clone"
  /\ power' = [power EXCEPT ![build.of] = "stopped"] /\ build' = [build EXCEPT !.at = "equip"]
  /\ UNCHANGED <<carries, glitches>>
Equip ==
  /\ build.at = "equip"
  /\ carries' = [carries EXCEPT ![build.of] = TRUE] /\ build' = [build EXCEPT !.at = "start"]
  /\ UNCHANGED <<power, glitches>>
\* A step fails; nothing is owed before the clone.
Fails ==
  /\ build.at \in {"clone", "equip", "start"} /\ Glitch
  /\ build' = IF build.at = "clone" THEN NotBuilding ELSE [build EXCEPT !.at = "undo"]
  /\ UNCHANGED <<power, carries>>
Create ==
  /\ Clone \/ Equip \/ Fails
  /\ UNCHANGED <<given, ending, offer, survey, debris>>

StartsNow(m) ==
  IF build.of = m THEN build.at = "start"
  ELSE given = m /\ ~ending /\ power[m] = "stopped" /\ m \notin debris
Done(m) == build' = IF build.of = m THEN NotBuilding ELSE build
Refused(m) == build' = IF build.of = m THEN [build EXCEPT !.at = "undo"] ELSE build

\* start_when_ready: the gate looks at the cards of the guests that run; those
\* it cannot read, or compare, are the hypervisor's to refuse.  A build that is
\* refused is rolled back, and a machine that stands waits for the next pass.
Start(m) ==
  /\ StartsNow(m)
  /\ IF InUse(m) THEN Refused(m) /\ UNCHANGED power ELSE Starts(m) /\ Done(m)
  /\ UNCHANGED <<carries, given, ending, offer, survey, debris, glitches>>

\* A guest is destroyed with its configuration.
Destroyed(m) ==
  /\ power' = [power EXCEPT ![m] = "none"] /\ carries' = [carries EXCEPT ![m] = FALSE]
Undo ==
  /\ build.at = "undo" /\ build' = NotBuilding
  /\ \/ Destroyed(build.of) /\ UNCHANGED <<debris, glitches>>
     \/ Glitch /\ debris' = debris \cup {build.of} /\ UNCHANGED <<power, carries>>
  /\ UNCHANGED <<given, ending, offer, survey>>

\* recover_pending: a rollback owed; and a delete Core asked for.
Settle(m) ==
  /\ build.of # m /\ power[m] # "none" /\ (m \in debris \/ (given = m /\ ending))
  /\ Destroyed(m) /\ debris' = debris \ {m}
  /\ UNCHANGED <<given, ending, offer, survey, build, glitches>>

-----------------------------------------------------------------------------
\* Who holds the card, but for the machine the survey accounts for: a guest
\* that runs with it, and any of Core's that is configured with it.
Holding == {g \in There : carries[g] /\ (power[g] = "running" \/ g \in Hosted)} \ {survey.accounts}

Step ==
  \/ OwnerActs \/ CoreSells \/ Begin \/ Report \/ Place \/ Create \/ Undo
  \/ \E g \in Guests : Observe(g)
  \/ \E m \in Hosted : Start(m) \/ Settle(m)
Next ==
  /\ Step
  /\ through' = IF survey'.ask = "nobody" THEN {}
                ELSE IF survey.ask = "nobody" THEN Holding' ELSE through \cap Holding'

Spec == Init /\ [][Next]_offerVars

-----------------------------------------------------------------------------
\* What a survey under way keeps to: each guest that held the card so far is yet to
\* be read or speaks against it, and so does the owner's use.
SurveyTells ==
  survey.ask # "nobody" =>
    /\ \A g \in through :
         /\ g \in Holding /\ (g \in Hosted \/ g \in survey.runs)
         /\ g \in survey.unread \/ ~survey.complete \/ survey.blocked
    /\ Owner \in survey.runs => Owner \in survey.unread \/ ~survey.shown \/ survey.use = Uses

\* What a build keeps to: while its placement is surveyed, every machine with the
\* card has held it throughout; placed, it is the only one.
BuildKnows ==
  /\ build.at # "rest" => build.of \in Hosted
  /\ build.at \in {"equip", "start"} => power[build.of] # "none"
  /\ survey.ask = "place" =>
       /\ build.at = "look" /\ survey.accounts = Unsold
       /\ \A m \in Hosted : carries[m] => m \in through
  /\ build.at \in {"clone", "equip"} => \A m \in Hosted : ~carries[m]
  /\ build.at \in {"start", "undo"} => \A m \in Hosted : carries[m] => m = build.of
OneCarries ==
  /\ \A m \in Hosted : carries[m] => power[m] # "none"
  /\ \A m, n \in Hosted : carries[m] /\ carries[n] => m = n

(* A card is offered, or placed on, only if no guest other than the one     *)
(* Core's view accounts for held it all the while the guests were read; and *)
(* the room reported is not the owner's.                                    *)
OfferedWasFree ==
  /\ Surveyed /\ MayOffer => through = {}
  /\ Surveyed /\ Room > 0 /\ Owner \in survey.runs => Room + Uses =< Host

(* No two of the guests the agent made are ever configured with the card:   *)
(* not with a rollback that failed beside the machine the card went to next.*)
CardOfOne == Cardinality({m \in Hosted : carries[m]}) =< 1

(* A card has one holder: the one it is offered past, and placed on.        *)
OneHolder == OfferedWasFree /\ CardOfOne
=============================================================================
