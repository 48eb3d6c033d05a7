------------------------------- MODULE Telemetry -------------------------------
(***************************************************************************)
(* What an inference worker says of itself: onv-workloadd, inside the      *)
(* machine, probes the server and replaces a file (crates/onv-workloadd);  *)
(* the agent reads the file on its passes and believes it while its uptime *)
(* moves (src/src/workload.rs, worker.rs).  The two share no clock: a      *)
(* report comes every reportEvery and however long its probes take, a pass *)
(* reads each poll and whenever Core nudges it or a follow-up is owed, and *)
(* the file may be of a process that died.                                 *)
(*                                                                         *)
(* Time is in ticks.  An uptime is abstracted to whether it differs from   *)
(* the one seen last: a process's own always does, and one that restarted  *)
(* may show the same again.  The server and the machine are external.      *)
(***************************************************************************)
EXTENDS Naturals

CONSTANTS
  ReportEvery,  \* timings.workload.reportEvery
  Probing,      \* the longest the probes take beside it
  ReadEvery,    \* the fastest poll Core may ask for (FASTEST_READ)
  StuckAfter    \* timings.workloadStuckAfterReads

\* The time StuckAfter reads take when each comes a poll after the last.
Patience == StuckAfter * ReadEvery
\* timings.rs, check, which leaves the probes out.
CheckedTimings == ReportEvery =< Patience
TelemetryAssumption ==
  /\ {ReportEvery, ReadEvery, StuckAfter} \subseteq Nat \ {0} /\ Probing \in Nat
  /\ CheckedTimings

Healths == {"Down", "Starting", "Degraded", "Serving"}
Stages == {"Downloading", "Loading", "Loaded"}

VARIABLES
  reporter,   \* onv-workloadd: stopped, fresh (nothing written), or reporting
  report,     \* /run/onv/workload.json
  moved,      \* its uptime is not the one the store holds
  age, pause, \* ticks since the reporter's last round, and since the store was asked
  unchanged,  \* the store: reads without progress, or nothing seen
  shown,      \* what the last pass reported of the worker
  idleReads,  \* history: reads since the last write, or since the agent began
  unheard,    \* history: the last round left no file, or one that looks the same
  hasty       \* history: a read without progress came sooner than a poll

telemetryVars == <<reporter, report, moved, age, pause, unchanged, shown, idleReads, unheard, hasty>>

NoReport == [health |-> "none", stage |-> "none"]
Unseen == StuckAfter + 1
Longest == ReportEvery + Probing

TypeOK ==
  /\ reporter \in {"stopped", "fresh", "reporting"}
  /\ report \in [health : Healths, stage : Stages] \cup {NoReport}
  /\ moved \in BOOLEAN /\ unheard \in BOOLEAN /\ hasty \in BOOLEAN
  /\ age \in 0 .. Longest /\ pause \in 0 .. ReadEvery
  /\ unchanged \in 0 .. Unseen /\ idleReads \in 0 .. Unseen
  /\ shown \in {"nothing", "dropped", "downloading", "loading", "loaded"}

Init ==
  /\ reporter = "fresh" /\ report = NoReport /\ moved = TRUE /\ unheard = FALSE /\ hasty = FALSE
  /\ age = 0 /\ pause = 0 /\ unchanged = Unseen /\ shown = "nothing" /\ idleReads = 0

Least(a, b) == IF a < b THEN a ELSE b

\* Time passes no report that is due.
Tick ==
  /\ reporter = "stopped" \/ age < Longest
  /\ age' = Least(age + 1, Longest) /\ pause' = Least(pause + 1, ReadEvery)
  /\ <<age, pause>>' # <<age, pause>>
  /\ UNCHANGED <<reporter, report, moved, unchanged, shown, idleReads, unheard, hasty>>

-----------------------------------------------------------------------------
(* onv-workloadd.                                                           *)

\* classify_health, of a server that does not answer, refuses, answers late,
\* or answers.
Health(server) ==
  CASE server = "silent" -> "Down"
    [] server = "refuses" -> "Starting"
    [] server = "late" -> "Degraded"
    [] server = "prompt" -> "Serving"
\* model_stage, by whether the cache on disk grew.
Stage(health, grew) ==
  IF health \in {"Serving", "Degraded"} THEN "Loaded" ELSE IF grew THEN "Downloading" ELSE "Loading"
Reported(server, grew) == [health |-> Health(server), stage |-> Stage(Health(server), grew)]

Due == age >= ReportEvery \/ reporter = "fresh"
\* A round: the probes, then the file, whole; or a write that fails, and nothing.
Round ==
  /\ reporter # "stopped" /\ Due
  /\ age' = 0 /\ reporter' = "reporting"
  /\ \/ /\ \E server \in {"silent", "refuses", "late", "prompt"}, grew \in BOOLEAN :
             report' = Reported(server, grew)
        /\ moved' \in (IF reporter = "fresh" THEN BOOLEAN ELSE {TRUE})
        /\ unheard' = ~moved' /\ idleReads' = 0
     \/ unheard' = TRUE /\ UNCHANGED <<report, moved, idleReads>>
  /\ UNCHANGED <<pause, unchanged, shown, hasty>>

\* The process dies and systemd starts it again; the machine restarts, and /run
\* is empty.
Dies == reporter # "stopped" /\ reporter' = "stopped" /\ UNCHANGED <<report, age>>
Restarts == reporter = "stopped" /\ reporter' = "fresh" /\ age' = 0 /\ UNCHANGED report
Reboots == reporter' = "fresh" /\ report' = NoReport /\ age' = 0
Machine ==
  /\ Dies \/ Restarts \/ Reboots
  /\ UNCHANGED <<moved, pause, unchanged, shown, idleReads, unheard, hasty>>

-----------------------------------------------------------------------------
(* The agent.                                                               *)

\* loading_detail.
Detail(r) ==
  CASE r.stage = "Downloading" -> "downloading" [] r.stage = "Loading" -> "loading" [] OTHER -> "loaded"

\* A slip: a first sight is a read without progress.
SpentAtSight ==
  IF unchanged = Unseen THEN 1 ELSE IF moved THEN 0 ELSE Least(unchanged + 1, StuckAfter)
\* A slip: a report once seen is believed.
NeverStuck == 0
\* observe: a first sight, progress, or none.
News == unchanged = Unseen \/ moved
Counted == IF News THEN 0 ELSE Least(unchanged + 1, StuckAfter)

\* workload_telemetry, on a pass: the poll's, or sooner, one Core nudged or a
\* follow-up brought.  A file that cannot be read is not known, and the store is
\* not asked.
Read ==
  /\ \/ /\ report # NoReport /\ pause' = 0
        /\ unchanged' = Counted /\ hasty' = (~News /\ (hasty \/ pause # ReadEvery))
        /\ shown' = IF unchanged' < StuckAfter THEN Detail(report) ELSE "dropped"
        /\ moved' = FALSE
        /\ idleReads' = Least(idleReads + 1, Unseen)
     \/ shown' = "nothing" /\ UNCHANGED <<pause, unchanged, moved, idleReads, hasty>>
  /\ UNCHANGED <<reporter, report, age, unheard>>

\* The agent restarts, or the worker is rebuilt: the store forgets.
Forgets ==
  /\ unchanged # Unseen
  /\ unchanged' = Unseen /\ moved' = TRUE /\ shown' = "nothing"
  /\ idleReads' = 0 /\ unheard' = FALSE /\ hasty' = FALSE
  /\ UNCHANGED <<reporter, report, age, pause>>

Next == Tick \/ Round \/ Machine \/ Read \/ Forgets
Spec == Init /\ [][Next]_telemetryVars

-----------------------------------------------------------------------------
\* At every step: reads count from the last write, one more than those without
\* progress at most, and the reporter's age keeps up with those a poll apart.
ReadsFollow ==
  /\ moved \/ unchanged = Unseen => idleReads = 0
  /\ idleReads = 0 => moved \/ unheard
  /\ unchanged # Unseen => idleReads =< unchanged + 1
  /\ reporter = "reporting" /\ ~unheard /\ ~hasty /\ idleReads > 0 =>
       unchanged * ReadEvery + pause =< age

-----------------------------------------------------------------------------
\* Of a reporter that lives and whose reports are read.
Dropped == shown = "dropped" /\ reporter = "reporting" /\ idleReads > 0 /\ ~unheard

(* What a worker says is shown for StuckAfter reads at most after it was    *)
(* written, whenever they come; and is dropped, while its reporter lives    *)
(* and is heard, only if its next report is due and has not come in the     *)
(* time of StuckAfter polls, or a pass read it sooner than a poll after the *)
(* last.  Both happen: the check of timings.rs, whose comment says that a   *)
(* report moves before its reporter could be called stuck, leaves the       *)
(* probes out, and Core's nudges and the follow-ups bring passes sooner.    *)
ShownWhileItMoves ==
  /\ shown \in {"downloading", "loading", "loaded"} => idleReads =< StuckAfter
  /\ Dropped => hasty \/ (Due /\ age >= Patience)
=============================================================================
