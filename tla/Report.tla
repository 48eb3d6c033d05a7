-------------------------------- MODULE Report --------------------------------
(***************************************************************************)
(* What Core is told of a host (src/src/agent.rs, reconcile_workers, its   *)
(* report and report_restoring; src/src/survey.rs; crates/onv-core-link,   *)
(* report.rs).  A pass takes Core's view, lists the host's guests, looks   *)
(* at every item the view names, and reports what it saw, whether that is  *)
(* everything it was asked about, and the claimed guests the view does not *)
(* name.  The period of the inventory reports is Core's, heard with a view *)
(* or a handshake.                                                         *)
(*                                                                         *)
(* Core is external, as the code counts on it: it keeps the newest report  *)
(* by generation and sequence, and takes for gone an item said gone, or    *)
(* one the report's view named and a complete report does not.  A restart  *)
(* is a later generation, for systemd waits ten seconds and a generation is*)
(* the start's second.                                                     *)
(***************************************************************************)
EXTENDS Naturals, Sequences

CONSTANTS
  Ids, Hosted,     \* machines, by their whole ids, and those that stand at first
  Floor, Ceiling,  \* the range Core's period is held to
  Fallback,        \* the period of an agent whose Core says none
  Words,           \* the periods Core may say; 0 is none said
  MaxWire,         \* bound: reports on their way
  MaxEdits,        \* bound: what Core changes
  MaxHitches       \* bound: calls that fail, reports lost, deaths

ReportAssumption ==
  /\ Hosted \subseteq Ids
  /\ Floor \in Nat \ {0} /\ Ceiling \in Nat /\ Floor =< Ceiling /\ Fallback \in Nat \ {0}
  /\ Words \subseteq Nat /\ {0, Ceiling} \subseteq Words /\ MaxWire \in Nat \ {0} /\ MaxEdits \in Nat /\ MaxHitches \in Nat

VARIABLES
  ledger,      \* Core: what it wants of each machine, or how its row went: dropped, gone
  named,       \* Core: it names a restore
  kept,        \* Core: the newest report it has read
  word,        \* Core: the period it says
  stands,      \* the host: the machines that stand, claimed
  pass,        \* the pass: its step, its view, what it has seen
  refreshes,   \* survey::Refreshes: the machines whose drive was not refreshed
  wire,        \* reports on their way, the older first
  heard, armed,    \* the period heard last, 0 for none, and the task's
  edits, hitches

reportVars == <<ledger, named, kept, word, stands, pass, refreshes, wire, heard, armed, edits, hitches>>

Unsaid == [i \in Ids |-> "not asked"]
Resting == [step |-> "rest", view |-> [i \in Ids |-> "none"], said |-> Unsaid, looked |-> {}, unobserved |-> FALSE,
            listed |-> FALSE, unclaimed |-> {}]
NoReport == [said |-> Unsaid, complete |-> FALSE,
             listed |-> FALSE, unclaimed |-> {}, failed |-> {}]

Views == [Ids -> {"none", "run", "absent"}]
Results == [Ids -> {"not asked", "left out", "here", "gone", "error"}]
Reports == [said : Results, complete : BOOLEAN, listed : BOOLEAN,
            unclaimed : SUBSET Ids, failed : SUBSET Ids]

\* Heard::period.
Period(said) == IF said = 0 THEN Fallback
                ELSE IF said < Floor THEN Floor ELSE IF said > Ceiling THEN Ceiling ELSE said

TypeOK ==
  /\ ledger \in [Ids -> {"none", "run", "absent", "dropped", "gone"}] /\ named \in BOOLEAN /\ kept \in Reports
  /\ word \in Words /\ stands \subseteq Ids
  /\ pass \in [step : {"rest", "restoring", "viewed", "looking"}, view : Views, said : Results, looked : SUBSET Ids,
               unobserved : BOOLEAN, listed : BOOLEAN, unclaimed : SUBSET Ids]
  /\ refreshes \subseteq Ids /\ wire \in Seq(Reports) /\ Len(wire) =< MaxWire
  /\ heard \in Words /\ armed \in {Period(w) : w \in Words}
  /\ edits \in 0 .. MaxEdits /\ hitches \in 0 .. MaxHitches

\* A host whose machines stand, as its agent first starts.
Init ==
  /\ ledger = [i \in Ids |-> IF i \in Hosted THEN "run" ELSE "none"] /\ stands = Hosted
  /\ named = FALSE /\ kept = NoReport
  /\ word = Ceiling /\ pass = Resting /\ refreshes = {} /\ wire = <<>>
  /\ heard = 0 /\ armed = Fallback /\ edits = 0 /\ hitches = 0

Hitch == hitches < MaxHitches /\ hitches' = hitches + 1

-----------------------------------------------------------------------------
(* Core.                                                                    *)

\* A machine asked for, and asked to end; or its row lost, whatever it was.  An
\* id is a machine's for good.
Asked == {i \in Ids : ledger[i] \in {"run", "absent"}}
Wants(i) == ledger[i] = "none" /\ ledger' = [ledger EXCEPT ![i] = "run"]
Ends(i) == ledger[i] = "run" /\ ledger' = [ledger EXCEPT ![i] = "absent"]
Drops(i) == i \in Asked /\ ledger' = [ledger EXCEPT ![i] = "dropped"]
Core ==
  /\ edits < MaxEdits /\ edits' = edits + 1
  /\ \/ (\E i \in Ids : Wants(i) \/ Ends(i) \/ Drops(i)) /\ UNCHANGED <<named, word>>
     \/ named' = ~named /\ UNCHANGED <<ledger, word>>
     \/ word' \in Words \ {word} /\ UNCHANGED <<ledger, named>>
  /\ UNCHANGED <<kept, stands, pass, refreshes, wire, heard, armed, hitches>>

\* What Core reads in a report: an item said gone, or one of that report's view
\* which it leaves out and should not have.
TakenForGone(r) ==
  {i \in Asked : r.said[i] = "gone" \/ (r.complete /\ r.said[i] = "left out")}
\* A report arrives: those before it are older, and are refused when they do.
Arrives(n) ==
  /\ kept' = wire[n] /\ wire' = SubSeq(wire, n + 1, Len(wire))
  /\ ledger' = [i \in Ids |-> IF i \in TakenForGone(kept') THEN "gone" ELSE ledger[i]]
  /\ UNCHANGED <<named, word, stands, pass, refreshes, heard, armed, edits, hitches>>

-----------------------------------------------------------------------------
(* The agent's pass.                                                        *)

\* get_view: the restore Core names, and its period; none said is an old Core's.
Begins ==
  /\ pass.step = "rest"
  /\ pass' = [Resting EXCEPT !.step = IF named THEN "restoring" ELSE "viewed",
                             !.view = [i \in Ids |-> IF i \in Asked THEN ledger[i] ELSE "none"],
                             !.said = [i \in Ids |-> IF i \in Asked THEN "left out" ELSE "not asked"]]
  /\ heard' = word
  /\ UNCHANGED <<ledger, named, kept, word, stands, refreshes, wire, armed, edits, hitches>>

\* survey::checks: a claimed guest is asked for when the view names the id of
\* its stamp, to run or to end.
Unclaimed(view) == {i \in stands : view[i] = "none"}
Surveyed(listed) == [pass EXCEPT !.listed = listed, !.unclaimed = IF listed THEN Unclaimed(pass.view) ELSE {}]

\* The post; lost, Core reads a later one.
Posts(report, well) ==
  \/ Len(wire) < MaxWire /\ wire' = Append(wire, report) /\ (IF well THEN UNCHANGED hitches ELSE Hitch)
  \/ Hitch /\ UNCHANGED wire

\* report_restoring: nothing acted on, so nothing said of an item.
ReportsRestoring ==
  /\ pass.step = "restoring"
  /\ \E listed \in BOOLEAN :
       Posts([NoReport EXCEPT !.said = pass.said, !.listed = listed,
                              !.unclaimed = Surveyed(listed).unclaimed], listed)
  /\ pass' = Resting
  /\ UNCHANGED <<ledger, named, kept, word, stands, refreshes, heard, armed, edits>>

Lists ==
  /\ pass.step = "viewed"
  /\ \E listed \in BOOLEAN :
       /\ pass' = [Surveyed(listed) EXCEPT !.step = "looking"]
       /\ IF listed THEN UNCHANGED hitches ELSE Hitch
  /\ UNCHANGED <<ledger, named, kept, word, stands, refreshes, wire, heard, armed, edits>>

\* A slip: an item that was not looked at is left out, and nothing is said of it.
LeftOut(said) == said = "error"
\* NotLookedAt, and an error, which is the agent's and not the machine's.
Unobserved(said) == said \in {"left out", "error"}
Result(i, said) ==
  pass' = [pass EXCEPT !.looked = @ \cup {i}, !.said[i] = said, !.unobserved = @ \/ Unobserved(said)]

Untouched == UNCHANGED <<stands, refreshes>>
\* One item: looked at and acted on, or not.
Looks(i) ==
  /\ pass.step = "looking" /\ i \notin pass.looked /\ pass.view[i] # "none"
  /\ \/ Hitch /\ Untouched /\ \E said \in {"left out", "error"} : Result(i, said)
     \/ /\ pass.view[i] = "run" /\ Result(i, "here") /\ stands' = stands \cup {i}
        /\ \/ UNCHANGED <<refreshes, hitches>>
           \* Seen, then a step that failed, its drive's or another.
           \/ i \in stands /\ Hitch /\ refreshes' \in {refreshes, refreshes \cup {i}}
     \/ /\ pass.view[i] = "absent" /\ Result(i, "gone") /\ stands' = stands \ {i}
        /\ UNCHANGED <<refreshes, hitches>>
  /\ UNCHANGED <<ledger, named, kept, word, wire, heard, armed, edits>>

\* incompleteness: complete if every item of the view was observed.
Complete == ~pass.unobserved
\* Refreshes::drain: the machines whose drive was not brought up to date.
Drained == refreshes
\* The report: the refreshes drained, the view named.
ReportsAll ==
  /\ pass.step = "looking" /\ \A i \in Ids : pass.view[i] # "none" => i \in pass.looked
  /\ Posts([said |-> pass.said, complete |-> Complete,
            listed |-> pass.listed, unclaimed |-> pass.unclaimed, failed |-> Drained], TRUE)
  /\ pass' = Resting /\ refreshes' = {}
  /\ UNCHANGED <<ledger, named, kept, word, stands, heard, armed, edits>>

\* The agent dies, and another begins, with its handshake.
Restarts ==
  /\ Hitch /\ pass' = Resting /\ refreshes' = {}
  /\ heard' = word /\ armed' = Period(word)
  /\ UNCHANGED <<ledger, named, kept, word, stands, wire, edits>>

\* spawn_reports: after a tick, armed again if the period moved.
Ticks ==
  /\ armed # Period(heard) /\ armed' = Period(heard)
  /\ UNCHANGED <<ledger, named, kept, word, stands, pass, refreshes, wire, heard, edits, hitches>>

Agent == Begins \/ ReportsRestoring \/ Lists \/ (\E i \in Ids : Looks(i)) \/ ReportsAll

Next == Core \/ Agent \/ (\E n \in 1 .. Len(wire) : Arrives(n)) \/ Restarts \/ Ticks

\* The loop's timer and the report task's; and a report posted arrives.
Fairness ==
  /\ WF_reportVars(Agent) /\ WF_reportVars(Ticks)
  /\ WF_reportVars(\E n \in 1 .. Len(wire) : Arrives(n))

Spec == Init /\ [][Next]_reportVars /\ Fairness

-----------------------------------------------------------------------------
GoneIsGone == \A i \in stands : ledger[i] # "gone"

Unasked == stands \ Asked
AllIsKnown ==
  /\ kept.listed /\ kept.unclaimed = Unasked /\ kept.failed = {}
  /\ ~named => kept.complete /\ \A i \in Ids : ledger[i] = "run" => i \in stands /\ kept.said[i] = "here"
  /\ armed = Period(word)

(* Core never takes for gone a machine that stands, whatever was not looked *)
(* at, failed or arrived late; and in the end it knows what it wants to run *)
(* to stand, and every guest that stands here and its ledger does not name, *)
(* and is reported to at the period it says.                                *)
CoreIsTold == [][GoneIsGone']_reportVars /\ <>[]AllIsKnown
=============================================================================
