------------------------------- MODULE FirstBoot -------------------------------
(***************************************************************************)
(* A recipe's install inside a buyer's machine, and what the agent says of *)
(* it.  The agent writes what first boot runs (crates/onv-generators:      *)
(* linux.rs for cloud-init, windows.rs for cloudbase-init); the guest runs *)
(* it once per instance-id, announcing each step in a status file and      *)
(* adding its exit code at the end; the agent reads that file, the stream  *)
(* login the recipe mints and the devices the machine admits, and looks    *)
(* again sooner while an install runs (src/src/instance.rs, installwatch). *)
(*                                                                         *)
(* A read of a file being written finds it empty, which is a read that     *)
(* finds nothing.  cloud-init and cloudbase-init, which begin an instance's*)
(* run once and never resume one, the recipe and its converger, which      *)
(* admits the devices of the list it is handed, and the buyer are external.*)
(***************************************************************************)
EXTENDS Naturals, Sequences

CONSTANTS
  Shapes,     \* the machines looked at: guest kind, overlay, containers, card
  UnreadMax,  \* passes a machine with nothing to read is followed for
  StreamMax,  \* passes a changed device list is
  MaxDrives,  \* bound: contents of the first-boot drive
  MaxLists    \* bound: device lists Core sends

FirstBootAssumption ==
  /\ Shapes \subseteq [kind : {"Linux", "Windows"}, overlay : BOOLEAN, containers : BOOLEAN, gpu : BOOLEAN]
  \* steps, of a Windows machine: containers are refused, and no drive written.
  /\ \A s \in Shapes : s.kind = "Windows" => ~s.containers
  /\ UnreadMax \in Nat /\ StreamMax \in Nat /\ MaxDrives \in Nat \ {0} /\ MaxLists \in Nat

VARIABLES
  shape,      \* what the spec asks first boot for
  power,      \* the guest: off, booting, installing, or up
  drive, ran, \* the drive's content, and the one first boot has begun to run
  at,         \* the step running, or 0
  status,     \* the status file: the step it names, or 0, and its exit code
  login,      \* the stream login the recipe mints: none, half written, whole
  passed,     \* history: the steps of this run that ended well
  whole,      \* history: every step of some run did
  want,       \* Core: the device list, 0 for none sent
  handed, admits,  \* the list in the guest, and the one its identity file says
  said,       \* what the last pass reported
  unread, pending, \* install_watch: passes each clock has run, or NoClock
  soon        \* installing: a pass is owed soon

firstBootVars == <<shape, power, drive, ran, at, status, login, passed, whole, want, handed, admits,
                   said, unread, pending, soon>>

NoFile == [step |-> 0, rc |-> "none"]
NoClock == UnreadMax + StreamMax + 2
NothingSaid == [progress |-> "none", login |-> FALSE, admits |-> 0]

-----------------------------------------------------------------------------
(* What is written for first boot.                                          *)
If(c, s) == IF c THEN s ELSE <<>>

\* early_steps: the machine's own.
Early(s) == <<"start">> \o If(s.overlay, <<"join">>)
\* recipe_steps of a Linux machine; a Windows recipe has its commands alone.
RecipeSteps(s) ==
  If(s.kind = "Linux",
     <<"internet">> \o If(s.containers, <<"docker">>) \o If(s.gpu /\ s.containers, <<"toolkit">>)
                    \o If(s.containers, <<"up">>))
  \o <<"finish">>
Steps == Early(shape) \o RecipeSteps(shape)

\* bootcmd runs at every boot, and only on Linux; runcmd, from its step on.
FirstOfRun == IF shape.kind = "Linux" THEN 2 ELSE 1

\* A slip: runcmd has no `set -e`, and goes on past a step that failed.
RunsOn(name) == FALSE
\* The install ends at a step that fails; a network not joined ends nothing.
Ends(name) == name # "join"

-----------------------------------------------------------------------------
TypeOK ==
  /\ shape \in Shapes /\ power \in {"off", "booting", "installing", "up"}
  /\ drive \in 1 .. MaxDrives /\ ran \in 0 .. MaxDrives /\ at \in 0 .. Len(Steps)
  /\ status \in [step : 0 .. Len(Steps), rc : {"none", "ok", "failed"}]
  /\ login \in {"none", "half", "whole"}
  /\ passed \subseteq {Steps[i] : i \in 1 .. Len(Steps)} /\ whole \in BOOLEAN
  /\ want \in 0 .. MaxLists /\ handed \in 0 .. MaxLists /\ admits \in 0 .. MaxLists
  /\ said \in [progress : {"none", "running", "done", "error"}, login : BOOLEAN, admits : 0 .. MaxLists]
  /\ unread \in 0 .. UnreadMax + 1 \cup {NoClock} /\ pending \in 0 .. StreamMax + 1 \cup {NoClock}
  /\ soon \in BOOLEAN

\* A machine just built, its drive written, not started.
Init ==
  /\ shape \in Shapes /\ power = "off" /\ drive = 1 /\ ran = 0 /\ at = 0
  /\ status = NoFile /\ login = "none" /\ passed = {} /\ whole = FALSE
  /\ want = 0 /\ handed = 0 /\ admits = 0
  /\ said = NothingSaid /\ unread = NoClock /\ pending = NoClock /\ soon = FALSE

agentVars == <<want, said, unread, pending, soon>>

-----------------------------------------------------------------------------
(* The guest.                                                               *)

\* bootcmd's line is written only where no file is.
Boots ==
  /\ power = "off" /\ power' = "booting"
  /\ status' = IF shape.kind = "Linux" /\ status = NoFile THEN [step |-> 1, rc |-> "none"] ELSE status
  /\ UNCHANGED <<drive, ran, at, login, passed, whole, handed, admits>>

\* A Linux drive refreshed is another instance; a Windows one's id is the
\* machine's, whatever its drive holds.
Instance == IF shape.kind = "Linux" THEN drive ELSE 1

Announced(i) == [step |-> i, rc |-> "none"]
RunsFirstBoot ==
  /\ power = "booting"
  /\ IF ran = Instance
     THEN power' = "up" /\ UNCHANGED <<ran, at, status, passed>>
     ELSE /\ power' = "installing" /\ ran' = Instance
          /\ at' = FirstOfRun /\ status' = Announced(FirstOfRun)
          /\ passed' = IF shape.kind = "Linux" THEN {"start"} ELSE {}
  /\ UNCHANGED <<drive, login, whole, handed, admits>>

\* The EXIT trap, and the script's `finally`: the exit code, and no step once
\* all have run.
Trapped(ok) == [step |-> IF ok THEN 0 ELSE at, rc |-> IF ok THEN "ok" ELSE "failed"]
StepEnds(well) ==
  /\ power = "installing"
  /\ passed' = IF well THEN passed \cup {Steps[at]} ELSE passed
  /\ IF (~well /\ Ends(Steps[at])) \/ at = Len(Steps)
     THEN /\ power' = "up" /\ at' = 0 /\ status' = Trapped(well)
          /\ whole' = (whole \/ {Steps[i] : i \in 1 .. Len(Steps)} \ {"join"} \subseteq passed')
     ELSE at' = at + 1 /\ status' = Announced(at + 1) /\ UNCHANGED <<power, whole>>
  /\ UNCHANGED <<drive, ran, login, handed, admits>>

\* The recipe's last step writes the login; stopped part-way, half of it.
Mints ==
  /\ power = "installing" /\ Steps[at] = "finish" /\ login # "whole"
  /\ login' = IF login = "none" THEN "half" ELSE "whole"
  /\ UNCHANGED <<power, drive, ran, at, status, passed, whole, handed, admits>>

\* Off, by the buyer, the agent or a cut: the trap runs or does not.
Stops ==
  /\ power # "off" /\ power' = "off" /\ at' = 0
  /\ status' \in {status} \cup (IF power = "installing" THEN {Trapped(FALSE)} ELSE {})
  /\ UNCHANGED <<drive, ran, login, passed, whole, handed, admits>>

\* The recipe's converger applies the list while no client streams.
Converges ==
  /\ power = "up" /\ whole /\ admits # handed /\ admits' = handed
  /\ UNCHANGED <<power, drive, ran, at, status, login, passed, whole, handed>>

Guest == Boots \/ RunsFirstBoot \/ (\E well \in BOOLEAN : StepEnds(well)) \/ Mints \/ Stops \/ Converges

-----------------------------------------------------------------------------
(* The agent.                                                               *)

\* sync_cloud_init: what first boot would run has changed.
Refreshes ==
  /\ drive < MaxDrives /\ drive' = drive + 1
  /\ UNCHANGED <<power, ran, at, status, login, passed, whole, want, handed, admits, said, unread, pending, soon>>

\* progress_from.
Progress ==
  CASE status.rc = "ok" -> "done" [] status.rc = "failed" -> "error"
    [] status.rc = "none" -> IF status.step = 0 THEN "none" ELSE "running"

\* A read of a guest's file gives it, or nothing: a login is both its halves,
\* and what the machine admits an identity that is one.
ReadLogin == {FALSE, login = "whole"}
ReadAdmits == {0, admits}
\* stream_identity: the list written where the guest holds another, which may
\* fail, and what the machine admits read back.
HandsOver ==
  /\ handed' \in (IF want # 0 /\ handed # want THEN {handed, want} ELSE {handed})
  /\ said' \in [progress : {"done"}, login : ReadLogin, admits : ReadAdmits]

\* stream_devices::pending.
Streams(seen) == seen.progress = "done" /\ want # 0 /\ seen.admits # want
Later(clock, most) == IF clock = NoClock THEN 0 ELSE IF clock > most THEN clock ELSE clock + 1
\* after_pass; up is a guest agent that answers.
Watches(up) ==
  /\ pending' = IF Streams(said') THEN Later(pending, StreamMax) ELSE NoClock
  /\ unread' = IF said'.progress = "none" /\ up THEN Later(unread, UnreadMax) ELSE NoClock
  /\ soon' = (said'.progress = "running" \/ pending' =< StreamMax \/ unread' =< UnreadMax)

\* ensure_instance, of a machine that stands, and recipe_progress.
Pass ==
  /\ \/ said' = NothingSaid /\ UNCHANGED handed
     \/ /\ power # "off" /\ Progress # "none"
        /\ IF Progress = "done" THEN HandsOver
           ELSE said' = [NothingSaid EXCEPT !.progress = Progress] /\ UNCHANGED handed
  /\ \E up \in {FALSE, power # "off"} : Watches(up)
  /\ UNCHANGED <<power, drive, ran, at, status, login, passed, whole, want, admits>>

\* The agent restarts: its watch is empty.
Restarts ==
  /\ <<unread, pending, soon>> # <<NoClock, NoClock, FALSE>>
  /\ unread' = NoClock /\ pending' = NoClock /\ soon' = FALSE
  /\ UNCHANGED <<power, drive, ran, at, status, login, passed, whole, want, handed, admits, said>>

\* Core: another list of devices.
Sends ==
  /\ want < MaxLists /\ want' = want + 1
  /\ UNCHANGED <<power, drive, ran, at, status, login, passed, whole, handed, admits, said, unread, pending, soon>>

Next ==
  /\ \/ Guest /\ UNCHANGED agentVars
     \/ Refreshes \/ Pass \/ Restarts \/ Sends
  /\ UNCHANGED shape

Spec == Init /\ [][Next]_firstBootVars

-----------------------------------------------------------------------------
\* At every step: the run under way has every step before its own behind it, and
\* the file says `ok` only after a whole one.
RunFollows ==
  /\ power = "installing" => at # 0 /\ {Steps[i] : i \in 1 .. at - 1} \ {"join"} \subseteq passed
  /\ status.rc = "ok" => whole

-----------------------------------------------------------------------------
(* A machine is said to be installed only when every step of one run of its *)
(* install ended well, but for a network it did not join, whatever failed,  *)
(* was cut short or was run again since; and its login is said whole.       *)
DoneIsDone ==
  /\ said.progress = "done" => whole
  /\ said.login => login = "whole"
=============================================================================
