------------------------------- MODULE Opening -------------------------------
(***************************************************************************)
(* The provider opening (crates/onv-hostnet/src/opening.rs, and agent.rs   *)
(* and instance.rs where they use its book): one UDP port of the host for  *)
(* each machine on the overlay, given before the machine is made and named *)
(* by its first boot.  The book is held in memory and written through to   *)
(* opening.json; onv-opening, another process woken by every change of that*)
(* file, replaces the host's whole table from it, some time later.         *)
(*                                                                         *)
(* Core, the operator's agent.yaml and the machines are external.  An      *)
(* address on the egress bridge is modelled by whether it was seen, so two *)
(* machines never have one.  A file nobody can read, and a node offline    *)
(* while the guests are listed, are not modelled.  A change written while  *)
(* onv-opening runs is taken to wake it again.                             *)
(***************************************************************************)
EXTENDS Integers, FiniteSets

CONSTANTS
  Machines, Nobody,
  MaxPort,         \* the ports a range may hold: 1 .. MaxPort
  MaxWriteFaults,  \* bound: writes of opening.json, and of the table, that fail
  MaxStops         \* bound: deaths, edits of agent.yaml, and what else fails

Ports == 1 .. MaxPort
Slots == [port : Ports, seen : BOOLEAN]
Books == [Machines -> Slots \cup {Nobody}]
Unopened == 0                    \* a first boot that names no port
Off == {}                        \* no range: the opening is off

OpeningAssumption ==
  /\ MaxPort \in Nat \ {0} /\ Nobody \notin Slots \cup Ports \cup {Unopened}
  /\ MaxWriteFaults \in Nat /\ MaxStops \in Nat

VARIABLES
  wish,              \* Core: what it asks of each machine
  yaml,              \* agent.yaml's range
  built,             \* the machine standing: the port its first boot names
  on, book,          \* the agent's range and book
  json, woken,       \* opening.json, and whether onv-opening has a change to apply
  table,             \* the kernel: the machines translated to
  round, asked, listed, todo, making, \* a pass: its step, the machines its view
                     \* wants, its listing, the turns left, the machine being made
  badWrites, stops,
  lapsed             \* history: machines whose port a settle dropped, or that
                     \* were made while it was not on disk

outside == <<wish, yaml>>
agentBook == <<on, book>>
file == <<json, woken>>
openPass == <<round, asked, listed, todo, making>>
openingVars == <<outside, built, agentBook, file, table, openPass, badWrites, stops, lapsed>>

Wishes == {"none", "run", "absent"}
Standing == {m \in Machines : built[m] # Nobody}
Held == {m \in Machines : book[m] # Nobody}
NoBook == [m \in Machines |-> Nobody]

TypeOK ==
  /\ wish \in [Machines -> Wishes] /\ yaml \in SUBSET Ports /\ on \in SUBSET Ports
  /\ built \in [Machines -> Ports \cup {Unopened, Nobody}]
  /\ book \in Books /\ json \in Books
  /\ woken \in BOOLEAN /\ table \in SUBSET Machines
  /\ round \in {"down", "idle", "turns", "sweep"}
  /\ asked \in SUBSET Machines /\ listed \in (SUBSET Machines) \cup {{Nobody}}
  /\ todo \in SUBSET Machines
  /\ making \in Machines \cup {Nobody}
  /\ badWrites \in 0 .. MaxWriteFaults /\ stops \in 0 .. MaxStops
  /\ lapsed \in SUBSET Machines

Ranges == {Off, 1 .. MaxPort - 1, Ports}

Init ==
  /\ wish = [m \in Machines |-> "none"] /\ yaml = Ports /\ built = NoBook
  /\ on = Off /\ book = NoBook /\ json = NoBook /\ woken = TRUE /\ table = {}
  /\ round = "down" /\ asked = {} /\ listed = {} /\ todo = {} /\ making = Nobody
  /\ badWrites = 0 /\ stops = 0 /\ lapsed = {}

-----------------------------------------------------------------------------
(* Core, external.                                                          *)
Stop == stops < MaxStops /\ stops' = stops + 1

Wish(m) ==
  /\ \/ wish[m] = "none" /\ wish' = [wish EXCEPT ![m] = "run"]
     \/ wish[m] = "run" /\ wish' = [wish EXCEPT ![m] = "absent"]
  /\ UNCHANGED <<yaml, built, agentBook, file, table, openPass, badWrites, stops, lapsed>>

-----------------------------------------------------------------------------
(* The book, written through.                                               *)

\* A write that fails leaves the file, and the memory as it is.
Persist(b) ==
  \E ok \in IF badWrites < MaxWriteFaults /\ b # json THEN BOOLEAN ELSE {TRUE} :
    /\ badWrites' = IF ok THEN badWrites ELSE badWrites + 1
    /\ json' = IF ok THEN b ELSE json
    /\ woken' = (woken \/ json' # json)
NotWritten == UNCHANGED <<file, badWrites>>

\* The agent ends.
Ends ==
  /\ Stop /\ round' = "down"
  /\ asked' = {} /\ listed' = {} /\ todo' = {} /\ making' = Nobody
  /\ on' = Off /\ book' = NoBook
  /\ UNCHANGED <<wish, built, json, badWrites, lapsed>>
\* It dies, alone or with the host and the kernel's table.
Dies ==
  /\ Ends /\ round # "down" /\ UNCHANGED yaml
  /\ UNCHANGED <<woken, table>> \/ (woken' = TRUE /\ table' = {})
\* The operator's playbook writes agent.yaml, runs onv-opening and restarts
\* the agent, which reads its range at its start only.
Configure ==
  /\ Ends /\ yaml' \in Ranges \ {yaml}
  /\ woken' = TRUE /\ UNCHANGED table

\* settle: off holds nothing; on holds what its range holds.
Settled(b, range) ==
  [m \in Machines |-> IF b[m] = Nobody THEN Nobody
                      ELSE IF b[m].port \in range THEN b[m] ELSE Nobody]

\* load, then settle.
Start ==
  /\ round = "down" /\ round' = "idle"
  /\ on' = yaml /\ book' = Settled(json, yaml) /\ Persist(book')
  /\ lapsed' = lapsed \cup {m \in Machines : json[m] # Nobody /\ json[m].port \notin yaml}
  /\ UNCHANGED <<outside, built, table, asked, listed, todo, making, stops>>

-----------------------------------------------------------------------------
(* A pass.                                                                  *)

Begin ==
  /\ round = "idle" /\ round' = "turns"
  /\ asked' = {m \in Machines : wish[m] = "run"}
  /\ \/ listed' = Standing /\ UNCHANGED stops
     \/ listed' = {Nobody} /\ Stop           \* the listing failed
  /\ todo' = (asked' \ Standing) \cup {m \in Standing \cup Held : wish[m] = "absent"}
  /\ UNCHANGED <<outside, built, agentBook, file, table, making, badWrites, lapsed>>

\* Ports held by other machines.
Used == {book[m].port : m \in Held}
Free == on \ Used
Lowest(s) == CHOOSE p \in s : \A q \in s : p =< q
Given(p) == [port |-> p, seen |-> FALSE]

\* A new port: on disk before the machine is made, or the create fails.
Allocate(m) ==
  /\ m \notin Held /\ Free # {}
  /\ book' = [book EXCEPT ![m] = Given(Lowest(Free))] /\ Persist(book')
  /\ making' = IF json' = book' THEN m ELSE Nobody
\* It holds one already, or there is none to give, or the opening is off.
AllocateNone(m) ==
  /\ m \in Held \/ Free = {}
  /\ making' = m /\ UNCHANGED book /\ NotWritten

Create(m) ==
  /\ round = "turns" /\ making = Nobody /\ m \in todo
  /\ m \in asked \ Standing
  /\ Allocate(m) \/ AllocateNone(m)
  /\ todo' = todo \ {m}
  /\ UNCHANGED <<outside, built, on, table, round, asked, listed, stops, lapsed>>

\* The machine stands, its first boot written with the port; or the create fails.
Names(m) == IF book[m] = Nobody THEN Unopened ELSE book[m].port
Made ==
  /\ making # Nobody /\ making' = Nobody
  /\ \/ UNCHANGED <<built, lapsed>>
     \/ /\ built' = [built EXCEPT ![making] = Names(making)]
        /\ lapsed' = IF json[making] = book[making] THEN lapsed ELSE lapsed \cup {making}
  /\ UNCHANGED <<outside, agentBook, file, table, round, asked, listed, todo,
                 badWrites, stops>>

\* A slip: released in memory only.
ReleaseUnwritten(m) == book' = [book EXCEPT ![m] = Nobody] /\ NotWritten
\* Proven gone: its port is free.
Release(m) ==
  /\ book' = [book EXCEPT ![m] = Nobody]
  /\ IF m \in Held THEN Persist(book') ELSE NotWritten
Delete(m) ==
  /\ round = "turns" /\ making = Nobody /\ m \in todo \ asked
  /\ built' = [built EXCEPT ![m] = Nobody] /\ Release(m)
  /\ todo' = todo \ {m}
  /\ UNCHANGED <<outside, on, table, round, asked, listed, making, stops, lapsed>>

\* A create that waits, a delete not proven, whether or not it took.
Passed(m) ==
  /\ round = "turns" /\ making = Nobody /\ m \in todo
  /\ todo' = todo \ {m}
  /\ built' = built \/ (m \notin asked /\ built' = [built EXCEPT ![m] = Nobody])
  /\ UNCHANGED <<outside, agentBook, file, table, round, asked, listed, making,
                 badWrites, stops, lapsed>>

\* The neighbour by each machine's egress MAC.
Sighted(seen) == [m \in Machines |-> IF m \in seen THEN [port |-> book[m].port, seen |-> TRUE] ELSE book[m]]
Observe ==
  /\ round = "turns" /\ todo = {} /\ making = Nobody /\ round' = "sweep"
  /\ \E seen \in SUBSET (Held \cap Standing) :
       /\ book' = Sighted(seen)
       /\ IF book' # book THEN Persist(book') ELSE NotWritten
  /\ UNCHANGED <<outside, built, on, table, asked, listed, todo, making, stops, lapsed>>

\* A slip: only a listed machine keeps its port.
KeptListed(m) == m \in listed
\* Wanted by the pass's view, or listed when it began.
Kept(m) == m \in asked \cup listed

Sweep ==
  /\ round = "sweep" /\ round' = "idle"
  /\ IF listed = {Nobody} THEN UNCHANGED book /\ NotWritten
     ELSE /\ book' = [m \in Machines |-> IF Kept(m) THEN book[m] ELSE Nobody]
          /\ IF book' # book THEN Persist(book') ELSE NotWritten
  /\ asked' = {} /\ listed' = {}
  /\ UNCHANGED <<outside, built, on, table, todo, making, stops, lapsed>>

-----------------------------------------------------------------------------
(* onv-opening: the table it loads from agent.yaml and opening.json.        *)

\* A file that gives a port twice, or one out of the range, is refused whole.
Trusted ==
  /\ \A m \in Machines : json[m] # Nobody => json[m].port \in yaml
  /\ \A m, n \in Machines :
       json[m] # Nobody /\ json[n] # Nobody /\ json[m].port = json[n].port => m = n
Translated ==
  {m \in Machines : Trusted /\ IF json[m] = Nobody THEN FALSE ELSE json[m].seen}

\* One transaction: the whole table, or the one that was there.
Loaded(t) == table' = t
\* No table, when the opening is off or anything is amiss: a file, the uplink,
\* the load, what is read back; unless the table cannot be removed either.
Removed == Loaded({}) /\ UNCHANGED badWrites
Fallback ==
  \/ Removed
  \/ badWrites < MaxWriteFaults /\ badWrites' = badWrites + 1 /\ UNCHANGED table
Applier ==
  /\ woken /\ woken' = FALSE
  /\ \/ Loaded(Translated) /\ UNCHANGED <<badWrites, stops>>
     \/ Stop /\ Fallback
  /\ UNCHANGED <<outside, built, agentBook, json, openPass, lapsed>>

-----------------------------------------------------------------------------
Agent ==
  \/ Start \/ Begin \/ Made \/ Observe \/ Sweep
  \/ \E m \in Machines : Create(m) \/ Delete(m) \/ Passed(m)

Next ==
  \/ Agent \/ Applier \/ Configure \/ Dies
  \/ \E m \in Machines : Wish(m)

\* Passes come round, and systemd runs what a change wakes.
Fairness == WF_openingVars(Agent) /\ WF_openingVars(Applier)

Spec == Init /\ [][Next]_openingVars /\ Fairness

-----------------------------------------------------------------------------
(* Two machines that stand never name one port, over deaths, deletes, sweeps*)
(* and builds under way; but for a machine whose port a settle dropped, or  *)
(* that was made while its port was not on disk.                            *)
PortOfOne ==
  \A m, n \in Standing \ lapsed : m # n /\ built[m] \in Ports => built[m] # built[n]

(* Once a machine is gone for good, or never wanted again, the host's table *)
(* comes to translate nothing to it, unless a write failed.                 *)
Over(m) == m \notin Standing /\ wish[m] = "absent" /\ making # m
GoneIsClosed ==
  \A m \in Machines : <>[]Over(m) => <>[](badWrites = 0 => m \notin table)
=============================================================================
