-------------------------------- MODULE Join --------------------------------
(***************************************************************************)
(* `onv-provider join` and `leave` (src/src/join.rs, agent.rs, leave_core):*)
(* commands the operator runs, as often as they like, beside the agent     *)
(* they set up and take down.  A command is a list of steps; one that fails*)
(* ends it where it is.  Leave asks whether a machine is here, and then    *)
(* tells Core, before it removes what a machine needs.                     *)
(*                                                                         *)
(* The hypervisor's objects are the `Parts` it holds; a credential is known*)
(* by whether it is the standing token's.  Core is external.               *)
(***************************************************************************)
EXTENDS Naturals, Sequences

\* onv@pve with its role and tokens, the pools, the marketplace's zones with
\* the NAT bridge and the grants, and agent.yaml with its secrets.
Parts == {"tokens", "pools", "zones", "config"}
\* Who holds the secret of the token that stands; leaseFile: the host timer's.
Holders == {"file", "agent", "leaseFile"}

JoinSteps == <<"checks", "tokens", "pools", "zones", "leaseToken", "config", "leaseFile",
               "service", "opening">>
\* Pools and Core first; what follows goes on whatever fails, to the zones.
LeaveSteps == <<"pools?", "core?", "service", "tokens", "config", "pools", "zones">>

VARIABLES
  has, fits,        \* the host: the parts there, and who holds the token's secret
  service,          \* onv-provider.service runs
  stands,           \* a marketplace machine stands in a pool
  enrolled, sold,   \* Core: it knows the provider, and has a machine there
  fetched,          \* the agent: it read that the machine is wanted, and builds it
  command, stage, without, \* the operator's command, its step, and --without-core
  told,             \* history: the last leave to go past Core had its word
  joined            \* history: the join found no agent running; and ended whole

joinVars == <<has, fits, service, stands, enrolled, sold, fetched, command, stage, without, told, joined>>

TypeOK ==
  /\ has \subseteq Parts /\ fits \subseteq Holders
  /\ \A b \in {service, stands, enrolled, sold, fetched, without, told} : b \in BOOLEAN
  /\ command \in {"none", "join", "leave"} /\ joined \in {"no", "fresh", "whole"}
  /\ stage \in 0 .. Len(JoinSteps)

Init ==
  /\ has = {} /\ fits = {} /\ service = FALSE /\ stands = FALSE
  /\ enrolled = FALSE /\ sold = FALSE /\ fetched = FALSE
  /\ command = "none" /\ stage = 0 /\ without = FALSE /\ told = TRUE /\ joined = "no"

-----------------------------------------------------------------------------
(* Core, external, and the agent, of which all but the build is in          *)
(* MachineLife.                                                             *)

\* It places a machine on a provider whose agent reports.
Places == enrolled /\ ~sold /\ service /\ sold' = TRUE /\ UNCHANGED enrolled
\* A machine is ended once it is gone; one it has given up may still stand.
\* Not in the middle of a leave, an assumption.
Finished == sold /\ ~fetched /\ command # "leave" /\ sold' = FALSE /\ UNCHANGED enrolled
CoreActs ==
  /\ Places \/ Finished
  /\ UNCHANGED <<has, fits, service, stands, fetched, command, stage, without, told, joined>>

Able == service /\ "agent" \in fits /\ {"tokens", "pools", "zones"} \subseteq has
\* The view read again, the clone into the pool, and the delete.
Fetches == Able /\ enrolled /\ sold /\ ~stands /\ ~fetched /\ fetched' = TRUE /\ UNCHANGED stands
Clones == fetched /\ fetched' = FALSE /\ stands' \in {stands, Able}
Deletes == Able /\ stands /\ ~sold /\ stands' = FALSE /\ UNCHANGED fetched
AgentActs ==
  /\ Fetches \/ Clones \/ Deletes
  /\ UNCHANGED <<has, fits, service, enrolled, sold, command, stage, without, told, joined>>

-----------------------------------------------------------------------------
(* The commands.                                                            *)
Runs(c) ==
  /\ command = "none" /\ command' = c /\ stage' = 1
  /\ without' \in (IF c = "leave" THEN BOOLEAN ELSE {FALSE})
  \* Core gives whoever joins a token, and the last one is no good.
  /\ enrolled' = (enrolled \/ c = "join")
  /\ joined' = IF c = "join" /\ ~service THEN "fresh" ELSE "no"
  /\ UNCHANGED <<has, fits, service, stands, sold, fetched, told>>

Steps == IF command = "join" THEN JoinSteps ELSE LeaveSteps
At(s) == command # "none" /\ Steps[stage] = s
Over == command' = "none" /\ stage' = 0 /\ without' = FALSE
GoesOn == IF stage = Len(Steps) THEN Over ELSE stage' = stage + 1 /\ UNCHANGED <<command, without>>

\* A part that is there is left, or made again; `holds`: who then holds the
\* standing secret.
Makes(parts, holds) == has' = has \cup parts /\ fits' = holds /\ UNCHANGED service
\* systemctl enable --now: an agent that runs already is not started again.
Enables ==
  /\ service' = TRUE /\ UNCHANGED has
  /\ fits' = IF ~service /\ "file" \in fits THEN fits \cup {"agent"} ELSE fits

JoinStep ==
  /\ command = "join"
  \* pveum user token remove, then add: another secret.
  /\ CASE At("tokens") -> Makes({"tokens"}, fits \ {"file", "agent"})
       [] At("leaseToken") -> Makes({}, fits \ {"leaseFile"})
       [] At("config") -> Makes({"config"}, fits \cup {"file"})
       [] At("leaseFile") -> Makes({}, fits \cup {"leaseFile"})
       [] At("service") -> Enables
       [] At("checks") \/ At("opening") -> Makes({}, fits)
       [] OTHER -> Makes({Steps[stage]}, fits)
  /\ joined' = IF joined = "fresh" /\ At("opening") THEN "whole" ELSE joined
  /\ GoesOn /\ UNCHANGED <<stands, enrolled, sold, fetched, told>>

\* `?`: the command ends where it is, perhaps with a token removed and not
\* made again.
JoinFails ==
  /\ command = "join" /\ Over /\ joined' = "no"
  /\ \/ UNCHANGED <<has, fits>>
     \/ At("tokens") /\ has' = has \ {"tokens"} /\ fits' = fits \ {"file", "agent"}
     \/ At("leaseToken") /\ fits' = fits \ {"leaseFile"} /\ UNCHANGED has
  /\ UNCHANGED <<service, stands, enrolled, sold, fetched, told>>

-----------------------------------------------------------------------------
(* leave.                                                                   *)
\* A pool absent from the list is empty; one that cannot be read is not.
\* A slip: it is (PROVIDER-25).
PoolsAnyway == At("pools?") /\ GoesOn
PoolsRead == At("pools?") /\ (IF "pools" \in has /\ stands THEN Over ELSE GoesOn)
AsksPools ==
  /\ PoolsRead \/ (At("pools?") /\ Over)
  /\ UNCHANGED <<has, fits, service, stands, enrolled, sold, fetched, told, joined>>

\* leave_core: removed, or forgotten already (401); refused while the provider
\* holds something (409).
Answers ==
  IF enrolled /\ sold THEN (IF without THEN GoesOn ELSE Over) /\ UNCHANGED <<enrolled, sold, fits>>
  ELSE enrolled' = FALSE /\ fits' = fits \ {"agent", "file"} /\ UNCHANGED sold /\ GoesOn
TellsCore ==
  /\ At("core?") /\ "config" \in has /\ Answers
  /\ told' = IF command' = "none" THEN told ELSE ~without
  /\ UNCHANGED <<has, service, stands, fetched, joined>>
\* No answer, or no configuration to ask with.
CoreUntold ==
  /\ At("core?")
  /\ IF without THEN GoesOn /\ told' = FALSE ELSE Over /\ UNCHANGED told
  /\ UNCHANGED <<has, fits, service, stands, enrolled, sold, fetched, joined>>

\* What a removal takes with it; the pools are not removed while they hold a
\* machine.
Removes(p) ==
  /\ has' = IF p = "pools" /\ stands THEN has ELSE has \ {p}
  /\ fits' = IF p = "tokens" THEN {} ELSE IF p = "config" THEN fits \ {"file", "leaseFile"} ELSE fits
  /\ UNCHANGED service
Removing == command = "leave" /\ stage > 2
LeaveStep ==
  /\ Removing /\ GoesOn
  /\ IF At("service") THEN service' = FALSE /\ fits' = fits \ {"agent"} /\ UNCHANGED has
     ELSE Removes(Steps[stage])
  \* The process ends, and the build it was at.
  /\ fetched' = (fetched /\ ~At("service"))
  /\ UNCHANGED <<stands, enrolled, sold, told, joined>>
\* What fails is passed over, until the roles.
LeaveFails ==
  /\ Removing
  /\ IF At("zones") THEN Over ELSE GoesOn
  /\ UNCHANGED <<has, fits, service, stands, enrolled, sold, fetched, told, joined>>

-----------------------------------------------------------------------------
Next ==
  \/ CoreActs \/ AgentActs \/ Runs("join") \/ Runs("leave")
  \/ JoinStep \/ JoinFails
  \/ AsksPools \/ TellsCore \/ CoreUntold \/ LeaveStep \/ LeaveFails

Spec == Init /\ [][Next]_joinVars

-----------------------------------------------------------------------------
\* At every step: what a machine needs of Core and of the pools; a leave past the
\* pools meets only machines Core still sells, and one Core took meets none.
LeaveKnows ==
  /\ sold => enrolled
  /\ fetched => sold
  /\ stands => "pools" \in has
  /\ command = "none" <=> stage = 0
  /\ command = "leave" => stage =< Len(LeaveSteps) /\ (stage >= 2 /\ stands => sold)
  /\ command = "leave" /\ stage > 2 /\ told => ~stands /\ ~sold /\ ~enrolled

\* A join that found no agent running has, at each step, given the secrets of
\* the steps before it.
JoinGives ==
  /\ joined = "fresh" =>
       /\ command = "join"
       /\ stage =< 8 => ~service
       /\ stage > 6 => "file" \in fits
       /\ stage > 7 => "leaseFile" \in fits
       /\ stage > 8 => "agent" \in fits
  /\ joined = "whole" => command = "none" /\ fits = Holders

-----------------------------------------------------------------------------
(* A leave that Core took, and that was not told to go on without Core,     *)
(* takes the network from under no machine: neither suffices alone, the     *)
(* pools, read before Core is asked, nor Core, that has given a machine up. *)
LeaveCutsNoOne == stands /\ "zones" \notin has => ~told

(* Once a join that found no agent running has ended whole, the agent and   *)
(* the host timer hold the secrets of the tokens that stand.                *)
JoinedServes == joined = "whole" /\ command = "none" => fits = Holders

(* The two commands leave a host that serves, or one that nothing needs.    *)
ServesOrLeft == LeaveCutsNoOne /\ JoinedServes
=============================================================================
