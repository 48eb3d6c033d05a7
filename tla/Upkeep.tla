-------------------------------- MODULE Upkeep --------------------------------
(***************************************************************************)
(* A buyer's machine that stands, on the agent's pass (src/src/instance.rs,*)
(* ensure_instance; crates/onv-driver-proxmox: reboots.rs, passwords.rs).  *)
(* Core asks for a reboot by a token and the agent performs a token once:  *)
(* the request is written down before it is made, and one whose end was not*)
(* seen is settled by the guest's uptime, never by asking again.  A console*)
(* password is a generation, set once the guest agent answers.             *)
(*                                                                         *)
(* Time is in ticks; the uptime is read first in a pass, and compared when *)
(* the pass comes to the reboot, at most PassMost later.  The guest,       *)
(* Proxmox and Core are external.  Assumed: a record written can be read   *)
(* again, and a password call no longer waited for sets nothing later.     *)
(***************************************************************************)
EXTENDS Naturals

CONSTANTS
  Slack,      \* happened's, for the two clocks' reading moments
  PassMost,   \* the longest a pass takes from the uptime's read to its use
  MaxTokens,  \* bound: reboots Core asks for
  MaxTime,    \* bound: the clock
  MaxResets   \* bound: passwords reset

UpkeepAssumption ==
  Slack \in Nat /\ PassMost \in Nat /\ MaxTokens \in Nat \ {0} /\ MaxTime \in Nat /\ MaxResets \in Nat

VARIABLES
  token, issued,   \* Core: the reboot asked for, or 0, and how many it has asked
  generation,      \* and the console password's generation
  machine,         \* the guest: whether it runs, since when, and its password's
  task,            \* Proxmox: the reboot task
  clock,
  record,          \* reboots/<id>.json
  applied,         \* console-passwords/<id>
  turn,            \* the pass: its step, the view's token, the uptime read and when
  echoed, told,    \* what the pass reports: the token performed, the generation
  requests         \* history: reboots Proxmox was asked for, of each token

upkeepVars == <<token, issued, generation, machine, task, clock, record, applied, turn, echoed, told, requests>>

Tokens == 1 .. MaxTokens
NoRecord == [token |-> 0, at |-> 0, done |-> FALSE]
Resting == [step |-> "rest", view |-> 0, uptime |-> 0, at |-> 0]

TypeOK ==
  /\ token \in 0 .. MaxTokens /\ issued \in 0 .. MaxTokens /\ generation \in 0 .. MaxResets
  /\ machine \in [runs : BOOLEAN, since : 0 .. MaxTime, password : 0 .. MaxResets]
  /\ task \in {"none", "running", "ended"} /\ clock \in 0 .. MaxTime
  /\ record \in [token : 0 .. MaxTokens, at : 0 .. MaxTime, done : BOOLEAN]
  /\ applied \in 0 .. MaxResets
  /\ turn \in [step : {"rest", "looked", "asked", "posted", "password", "report"},
               view : 0 .. MaxTokens, uptime : 0 .. MaxTime, at : 0 .. MaxTime]
  /\ echoed \in 0 .. MaxTokens /\ told \in 0 .. MaxResets
  /\ requests \in [Tokens -> Nat]

Init ==
  /\ token = 0 /\ issued = 0 /\ generation = 0
  /\ machine = [runs |-> TRUE, since |-> 0, password |-> 0] /\ task = "none" /\ clock = 0
  /\ record = NoRecord /\ applied = 0 /\ turn = Resting /\ echoed = 0 /\ told = 0
  /\ requests = [t \in Tokens |-> 0]

-----------------------------------------------------------------------------
(* Core, the clock, and the host.                                           *)

\* A reboot, one at a time; or its deadline, and Core stops asking.
AsksReboot ==
  /\ IF token = 0
     THEN issued < MaxTokens /\ issued' = issued + 1 /\ token' = issued'
     ELSE token' = 0 /\ UNCHANGED issued
  /\ UNCHANGED generation
ResetsPassword ==
  generation < MaxResets /\ generation' = generation + 1 /\ UNCHANGED <<token, issued>>
Core ==
  /\ AsksReboot \/ ResetsPassword
  /\ UNCHANGED <<machine, task, clock, record, applied, turn, echoed, told, requests>>

Tick ==
  /\ clock < MaxTime /\ clock' = clock + 1
  /\ turn.step = "looked" => clock - turn.at < PassMost
  /\ UNCHANGED <<token, issued, generation, machine, task, record, applied, turn, echoed, told, requests>>

Booted(m) == [m EXCEPT !.runs = TRUE, !.since = clock]
\* The reboot task shuts the guest down and starts it, or gives up; its end is
\* of use to a pass that waits for it.
TaskEnds ==
  /\ task = "running"
  /\ \/ task' = (IF turn.step = "posted" THEN "ended" ELSE "none") /\ machine' = Booted(machine)
     \/ task' = "none" /\ UNCHANGED machine
\* The guest stops, by itself or its buyer, and the buyer starts it.
GuestMoves ==
  /\ machine' = IF machine.runs THEN [machine EXCEPT !.runs = FALSE, !.since = 0] ELSE Booted(machine)
  /\ UNCHANGED task
Host ==
  /\ TaskEnds \/ GuestMoves
  /\ UNCHANGED <<token, issued, generation, clock, record, applied, turn, echoed, told, requests>>

-----------------------------------------------------------------------------
(* The agent.                                                               *)
At(step) == turn' = [turn EXCEPT !.step = step, !.uptime = 0, !.at = 0]
\* A step failed: what was seen is reported, with no token and no generation.
PassFails == turn' = [Resting EXCEPT !.step = "report"] /\ echoed' = 0 /\ told' = 0

\* status/current, and the start of a machine that does not run; a stopped
\* guest has been up for nothing.
Looks ==
  /\ turn.step = "rest"
  /\ turn' = [step |-> "looked", view |-> token, at |-> clock,
              uptime |-> IF machine.runs THEN clock - machine.since ELSE 0]
  /\ machine' = IF machine.runs THEN machine ELSE Booted(machine)
  /\ echoed' = 0 /\ told' = 0
  /\ UNCHANGED <<task, record, applied, requests>>

\* One Core wants stopped, or whose start is withheld, is not rebooted.
Withholds ==
  /\ turn.step = "rest" /\ ~machine.runs
  /\ turn' = [Resting EXCEPT !.step = "password"]
  /\ record' = IF token = 0 THEN NoRecord ELSE record
  /\ echoed' = 0 /\ told' = 0
  /\ UNCHANGED <<machine, task, applied, requests>>

\* The segment, the way out or the start fails.
FailsBefore ==
  /\ turn.step = "looked" /\ PassFails
  /\ UNCHANGED <<machine, task, record, applied, requests>>

\* A slip: a request whose end was not seen is made again.
SettledIfDone == record.token = turn.view /\ record.done
\* reboots::read, of this token.
Recorded == record.token = turn.view

\* reboots::happened.
Happened == turn.uptime =< (clock - record.at) + Slack

\* No longer asked for: forgotten.
Forgets ==
  /\ turn.step = "looked" /\ turn.view = 0
  /\ record' = NoRecord /\ At("password")
  /\ UNCHANGED <<machine, task, applied, echoed, told, requests>>
\* Done, or seen to have been: echoed.  Not seen: not asked again.
Settles ==
  /\ turn.step = "looked" /\ turn.view # 0 /\ Recorded
  /\ IF record.done \/ Happened
     THEN \E written \in (IF record.done THEN {TRUE} ELSE BOOLEAN) :
            IF written
            THEN record' = [record EXCEPT !.done = TRUE] /\ echoed' = turn.view /\ At("password") /\ UNCHANGED told
            ELSE PassFails /\ UNCHANGED record
     ELSE At("password") /\ UNCHANGED <<record, echoed, told>>
  /\ UNCHANGED <<machine, task, applied, requests>>
\* Written down first; not written, not asked.
WritesDown ==
  /\ turn.step = "looked" /\ turn.view # 0 /\ ~Recorded
  /\ \/ record' = [token |-> turn.view, at |-> clock, done |-> FALSE] /\ At("asked") /\ UNCHANGED <<echoed, told>>
     \/ PassFails /\ UNCHANGED record
  /\ UNCHANGED <<machine, task, applied, requests>>

\* The request reaches Proxmox or does not, and its answer the agent.
Posts ==
  /\ turn.step = "asked"
  /\ \E reached, answered \in BOOLEAN :
       /\ answered => reached
       /\ requests' = IF reached THEN [requests EXCEPT ![turn.view] = @ + 1] ELSE requests
       /\ task' = IF reached THEN "running" ELSE task
       /\ IF answered THEN At("posted") /\ UNCHANGED <<echoed, told>> ELSE PassFails
  /\ UNCHANGED <<machine, record, applied>>
Unwatched == IF task = "ended" THEN "none" ELSE task
\* wait_task: it ended well, and that is written; or it failed, or outlived the wait.
WaitEnds ==
  /\ turn.step = "posted"
  /\ \/ /\ task = "ended"
        /\ record' = [record EXCEPT !.done = TRUE] /\ echoed' = turn.view /\ At("password") /\ UNCHANGED told
     \/ PassFails /\ UNCHANGED record
  /\ task' = Unwatched
  /\ UNCHANGED <<machine, applied, requests>>

\* A newer generation is set once the guest answers, then written down; the
\* answer may be lost, and so may the record, which ends the pass.
SetsPassword ==
  /\ turn.step = "password"
  /\ \/ generation =< applied \/ ~machine.runs
     \/ TRUE  \* the guest agent does not answer, or refuses
  /\ told' = applied /\ At("report")
  /\ UNCHANGED <<machine, task, record, applied, echoed, requests>>
Sets ==
  /\ turn.step = "password" /\ generation > applied /\ machine.runs
  /\ machine' = [machine EXCEPT !.password = generation]
  /\ \/ applied' = generation /\ told' = generation /\ At("report") /\ UNCHANGED echoed
     \/ told' = applied /\ At("report") /\ UNCHANGED <<applied, echoed>>
     \/ PassFails /\ UNCHANGED applied
  /\ UNCHANGED <<task, record, requests>>

\* The status report: Core clears a token it reads, or the report is lost.
Reports ==
  /\ turn.step = "report" /\ turn' = Resting
  /\ token' \in {token, IF echoed = token THEN 0 ELSE token}
  /\ UNCHANGED <<issued, generation, machine, task, clock, record, applied, echoed, told, requests>>

\* The agent dies, between any two of these.
Dies ==
  /\ turn # Resting /\ turn' = Resting /\ echoed' = 0 /\ told' = 0
  /\ task' = Unwatched
  /\ UNCHANGED <<machine, record, applied, requests>>

Agent ==
  /\ \/ Looks \/ Withholds \/ FailsBefore \/ Forgets \/ Settles \/ WritesDown \/ Posts \/ WaitEnds
     \/ SetsPassword \/ Sets \/ Dies
  /\ UNCHANGED <<token, issued, generation, clock>>

Next == Core \/ Tick \/ Host \/ Agent \/ Reports
Spec == Init /\ [][Next]_upkeepVars

-----------------------------------------------------------------------------
\* At every step: tokens only grow, one that was requested is the record's or
\* older than all that Core or a pass may still ask for, and a pass is about to
\* request only what was not.
TokensGrow ==
  /\ token \in {0, issued} /\ record.token =< issued /\ turn.view =< issued
  /\ turn.view # 0 => record.token =< turn.view
  /\ turn.step = "looked" /\ turn.view = 0 => token = 0 \/ record.token < token
  /\ \A t \in Tokens : requests[t] > 0 =>
       /\ t =< issued
       /\ record.token = t \/ ((token = 0 \/ t < token) /\ (turn.view = 0 \/ t < turn.view))
  /\ turn.step \in {"asked", "posted"} => turn.view # 0 /\ record.token = turn.view
  /\ turn.step = "asked" => requests[turn.view] = 0

\* The guest, if it runs, booted no earlier than `moment`.
BootedSince(moment) == machine.runs => machine.since >= moment
\* What is written done has happened since it was asked for; an uptime in hand
\* reaches back no further than the guest's boot; a password held is told.
DoneHappened ==
  /\ record.at =< clock /\ turn.at =< clock /\ machine.since =< clock
  /\ turn.step \in {"looked", "asked", "posted"} => echoed = 0
  /\ record.done => (machine.runs => machine.since + Slack + PassMost >= record.at)
  /\ turn.step = "looked" =>
       /\ clock =< turn.at + PassMost
       /\ machine.runs => machine.since + turn.uptime >= turn.at
  /\ task = "ended" => turn.step = "posted" /\ BootedSince(record.at)
  /\ applied =< machine.password /\ machine.password =< generation

-----------------------------------------------------------------------------
(* Proxmox is asked for a reboot once for a token, whatever of the request, *)
(* its wait, its record and its report was lost; a token is echoed only if  *)
(* the guest has booted since it was asked for, give or take the slack and  *)
(* the time a pass takes; and a generation told is one the guest holds.     *)
RebootedOnce ==
  /\ \A t \in Tokens : requests[t] =< 1
  /\ echoed # 0 /\ machine.runs => machine.since + Slack + PassMost >= record.at
  /\ told =< machine.password
=============================================================================
