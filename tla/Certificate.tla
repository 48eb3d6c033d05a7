------------------------------ MODULE Certificate ------------------------------
(***************************************************************************)
(* A web machine's certificate (crates/onv-generators: linux.rs writes the *)
(* fetch, guest/onv-certificate.sh).  The machine trades the bootstrap     *)
(* first boot wrote for a token of its own, fetches its project's          *)
(* certificate with it, puts the key and the chain in place, has the web   *)
(* front reload them, and only then writes down which one it holds.  A     *)
(* timer starts a run, and first boot one after another until one is       *)
(* issued; a lock lets one run at a time.                                  *)
(*                                                                         *)
(* Core, which takes a bootstrap until a token traded for it has fetched   *)
(* and knows one token at a time, and the front, which loads what is in    *)
(* place when it starts and when a hook has it reload, are external.       *)
(***************************************************************************)
EXTENDS Naturals

CONSTANTS
  Runs,       \* what starts a run: the timer, first boot
  MaxIssued,  \* bound: certificates Core issues the project
  MaxLapses   \* bound: answers lost, hooks that fail, machines that restart

CertificateAssumption == MaxIssued \in Nat \ {0} /\ MaxLapses \in Nat

VARIABLES
  issued,     \* Core: the project's certificate, 0 for none yet
  known,      \* Core: the token it gave last, 0 for none
  spent,      \* Core: that token has fetched
  own,        \* STATE/token, 0 for none
  live,       \* LIVE: whose the key, the chain and the fingerprint are
  front,      \* the certificate the web front serves, 0 for none
  run,        \* each run: its step, what it was answered, whether it traded
  lapses

certificateVars == <<issued, known, spent, own, live, front, run, lapses>>

Certificates == 0 .. MaxIssued
NoPair == MaxIssued + 1
Given == 0 .. MaxLapses + 1
Over == [step |-> "over", got |-> 0, traded |-> FALSE]

TypeOK ==
  /\ issued \in Certificates /\ known \in Given /\ spent \in BOOLEAN /\ own \in Given
  /\ live \in [key : Certificates, chain : Certificates, fingerprint : Certificates]
  /\ front \in Certificates \cup {NoPair}
  /\ run \in [Runs -> [step : {"over", "exchange", "keep", "fetch", "key", "chain", "hooks", "fingerprint"},
                       got : 0 .. MaxIssued + MaxLapses + 1, traded : BOOLEAN]]
  /\ lapses \in 0 .. MaxLapses

Init ==
  /\ issued = 0 /\ known = 0 /\ spent = FALSE /\ own = 0
  /\ live = [key |-> 0, chain |-> 0, fingerprint |-> 0] /\ front = 0
  /\ run = [r \in Runs |-> Over] /\ lapses = 0

Lapse == lapses < MaxLapses /\ lapses' = lapses + 1
Goes(r, step) == run' = [run EXCEPT ![r].step = step]
Ends(r) == run' = [run EXCEPT ![r] = Over]

-----------------------------------------------------------------------------
\* Core issues the certificate, or renews it.
Issues ==
  /\ issued < MaxIssued /\ issued' = issued + 1
  /\ UNCHANGED <<known, spent, own, live, front, run, lapses>>

\* The machine restarts, or the run is stopped: the front loads what there is.
Restarts ==
  /\ Lapse
  /\ run' = [r \in Runs |-> Over]
  /\ front' = IF live.key = live.chain THEN live.key ELSE NoPair
  /\ UNCHANGED <<issued, known, spent, own, live>>

\* A slip: no lock, and runs beside one another.
NoLock(r) == TRUE
\* flock.
Alone(r) == \A s \in Runs : run[s] = Over

Begins(r) ==
  /\ run[r] = Over /\ Alone(r)
  /\ run' = [run EXCEPT ![r].step = IF own = 0 THEN "exchange" ELSE "fetch", ![r].traded = own = 0]
  /\ UNCHANGED <<own, known, spent, live, front, lapses>>

\* exchange: Core gives a token in the place of the last, whose answer may be
\* lost; a bootstrap whose token has fetched is refused.
Exchange(r) ==
  /\ run[r].step = "exchange"
  /\ IF spent
     THEN Ends(r) /\ UNCHANGED <<known, lapses>>
     ELSE /\ known < MaxLapses + 1 /\ known' = known + 1
          /\ \/ run' = [run EXCEPT ![r].step = "keep", ![r].got = known'] /\ UNCHANGED lapses
             \/ Lapse /\ Ends(r)
  /\ UNCHANGED <<own, spent, live, front>>
\* Written whole, by a rename.
Keeps(r) ==
  /\ run[r].step = "keep" /\ own' = run[r].got /\ Goes(r, "fetch")
  /\ UNCHANGED <<known, spent, live, front, lapses>>

\* fetch: a token Core does not know trades the bootstrap again, once a run;
\* the answer may be lost, or hold nothing whole.
Fetch(r) ==
  /\ run[r].step = "fetch"
  /\ IF own # known
     THEN /\ IF run[r].traded
             THEN Ends(r) /\ UNCHANGED own
             ELSE own' = 0 /\ run' = [run EXCEPT ![r].step = "exchange", ![r].traded = TRUE]
          /\ UNCHANGED <<spent, lapses>>
     ELSE /\ spent' = TRUE /\ UNCHANGED own
          /\ \/ issued = live.fingerprint /\ Ends(r) /\ UNCHANGED lapses
             \/ /\ issued # live.fingerprint
                /\ run' = [run EXCEPT ![r].step = "key", ![r].got = issued] /\ UNCHANGED lapses
             \/ Lapse /\ Ends(r)
  /\ UNCHANGED <<known, live, front>>

\* Checked to be a pair, then put in place one file after the other.
PutsKey(r) ==
  /\ run[r].step = "key" /\ live' = [live EXCEPT !.key = run[r].got] /\ Goes(r, "chain")
  /\ UNCHANGED <<own, known, spent, front, lapses>>
PutsChain(r) ==
  /\ run[r].step = "chain" /\ live' = [live EXCEPT !.chain = run[r].got] /\ Goes(r, "hooks")
  /\ UNCHANGED <<own, known, spent, front, lapses>>

\* A slip: a hook that failed is as good as one that ran.
Anyway(ran) == "fingerprint"
AfterHooks(ran) == IF ran THEN "fingerprint" ELSE "over"
\* The front reloads; or its hook fails, and it serves what it did.
Hooks(r) ==
  /\ run[r].step = "hooks"
  /\ \/ front' = (IF live.key = live.chain THEN live.key ELSE NoPair)
        /\ Goes(r, AfterHooks(TRUE)) /\ UNCHANGED lapses
     \/ Lapse /\ run' = [run EXCEPT ![r] = IF AfterHooks(FALSE) = "over" THEN Over ELSE [@ EXCEPT !.step = AfterHooks(FALSE)]]
        /\ UNCHANGED front
  /\ UNCHANGED <<own, known, spent, live>>
WritesFingerprint(r) ==
  /\ run[r].step = "fingerprint" /\ live' = [live EXCEPT !.fingerprint = run[r].got] /\ Ends(r)
  /\ UNCHANGED <<own, known, spent, front, lapses>>

Moves(r) ==
  /\ \/ Begins(r) \/ Exchange(r) \/ Keeps(r) \/ Fetch(r)
     \/ PutsKey(r) \/ PutsChain(r) \/ Hooks(r) \/ WritesFingerprint(r)
  /\ UNCHANGED issued

Next == Issues \/ Restarts \/ \E r \in Runs : Moves(r)

\* systemd starts the timer's run again and again, and a run goes on.
Spec == Init /\ [][Next]_certificateVars /\ \A r \in Runs : WF_certificateVars(Moves(r))

-----------------------------------------------------------------------------
(* The front comes to serve what Core last issued, and stays with it,       *)
(* whatever answers were lost, hooks failed or runs were cut short: a run   *)
(* stopped between the key and the chain, or before the front reloaded, is  *)
(* made again, and a token lost is traded for again while it has not fetched.*)
CertificateServed == <>[](front = issued)
=============================================================================
