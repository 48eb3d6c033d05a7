---------------------------- MODULE Upkeep_proofs ----------------------------
(***************************************************************************)
(* What holds of the upkeep of a buyer's machine for every slack, every    *)
(* length of a pass and every number of reboots, resets and ticks: its     *)
(* type; and that a reboot is requested once for a token, is echoed only   *)
(* once it has happened, and that a password told is the guest's.          *)
(***************************************************************************)
EXTENDS Upkeep, TLAPS

Turns == [step : {"rest", "looked", "asked", "posted", "password", "report"},
          view : 0 .. MaxTokens, uptime : 0 .. MaxTime, at : 0 .. MaxTime]

\* The inductive invariant: a token requested is the record's, or older than all
\* that may still be asked for (TokensGrow); and what is written done has happened
\* since it was asked for, as the uptime in hand shows (DoneHappened).
Keeping == TypeOK /\ TokensGrow /\ DoneHappened /\ RebootedOnce

LEMMA KeepBegins == UpkeepAssumption /\ Init => Keeping
<1> SUFFICES ASSUME UpkeepAssumption, Init PROVE Keeping
  OBVIOUS
<1>1. MaxTokens \in Nat /\ MaxTime \in Nat /\ MaxResets \in Nat /\ Slack \in Nat /\ PassMost \in Nat
  BY DEF UpkeepAssumption
<1>2. machine \in [runs : BOOLEAN, since : 0 .. MaxTime, password : 0 .. MaxResets]
  BY <1>1 DEF Init
<1>3. record \in [token : 0 .. MaxTokens, at : 0 .. MaxTime, done : BOOLEAN]
  BY <1>1 DEF Init, NoRecord
<1>4. TypeOK
  BY <1>1, <1>2, <1>3 DEF Init, TypeOK, Resting, Tokens
<1>5. TokensGrow
  BY DEF Init, TokensGrow, NoRecord, Resting, Tokens
<1>6. DoneHappened
  BY <1>1 DEF Init, DoneHappened, NoRecord, Resting, BootedSince
<1>7. RebootedOnce
  BY DEF Init, RebootedOnce, Tokens
<1> QED BY <1>4, <1>5, <1>6, <1>7 DEF Keeping

LEMMA KeepStep == UpkeepAssumption /\ Keeping /\ [Next]_upkeepVars => Keeping'
<1> SUFFICES ASSUME UpkeepAssumption, Keeping, [Next]_upkeepVars PROVE Keeping'
  OBVIOUS
<1> USE DEF Keeping
<1>0. MaxTokens \in Nat /\ MaxTime \in Nat /\ MaxResets \in Nat /\ Slack \in Nat /\ PassMost \in Nat
  BY DEF UpkeepAssumption
<1>t. TypeOK /\ TokensGrow /\ DoneHappened /\ RebootedOnce
  OBVIOUS
<1>m. /\ machine.runs \in BOOLEAN /\ machine.since \in 0 .. MaxTime /\ machine.password \in 0 .. MaxResets
      /\ record.token \in 0 .. MaxTokens /\ record.at \in 0 .. MaxTime /\ record.done \in BOOLEAN
      /\ turn \in Turns /\ clock \in 0 .. MaxTime /\ token \in 0 .. MaxTokens /\ issued \in 0 .. MaxTokens
      /\ generation \in 0 .. MaxResets /\ applied \in 0 .. MaxResets /\ requests \in [Tokens -> Nat]
  BY DEF TypeOK, Turns
\* A machine started now, and one stopped.
<1>b. /\ Booted(machine) \in [runs : BOOLEAN, since : 0 .. MaxTime, password : 0 .. MaxResets]
      /\ Booted(machine).runs /\ Booted(machine).since = clock /\ Booted(machine).password = machine.password
  BY <1>t DEF Booted, TypeOK
<1>s. \A s : At(s) => /\ turn'.step = s /\ turn'.view = turn.view /\ turn'.at = 0 /\ turn'.uptime = 0
                      /\ turn' = [step |-> s, view |-> turn.view, uptime |-> 0, at |-> 0]
  BY <1>m DEF At, Turns
<1>f. PassFails => /\ turn' = [step |-> "report", view |-> 0, uptime |-> 0, at |-> 0] /\ echoed' = 0 /\ told' = 0
  BY DEF PassFails, Resting
<1>1. CASE UNCHANGED upkeepVars
  BY <1>1 DEF upkeepVars, TypeOK, TokensGrow, DoneHappened, RebootedOnce, BootedSince
<1>2. CASE Core
  <2>1. UNCHANGED <<machine, task, clock, record, applied, turn, echoed, told, requests>>
    BY <1>2 DEF Core
  <2>2. /\ generation' \in 0 .. MaxResets /\ generation' >= generation
        /\ \/ UNCHANGED <<token, issued>>
           \/ token' = issued + 1 /\ issued' = issued + 1 /\ issued < MaxTokens /\ token = 0
           \/ token' = 0 /\ issued' = issued
    BY <1>0, <1>2, <1>m DEF Core, AsksReboot, ResetsPassword
  <2>3. TypeOK'
    <3>1. token' \in 0 .. MaxTokens /\ issued' \in 0 .. MaxTokens
      BY <1>0, <1>m, <2>2
    <3> QED BY <2>1, <2>2, <3>1 DEF TypeOK
  <2>4. TokensGrow'
    BY <1>m, <2>1, <2>2 DEF TokensGrow, Tokens, Turns
  <2>5. DoneHappened' /\ RebootedOnce'
    BY <1>m, <2>1, <2>2 DEF DoneHappened, RebootedOnce, BootedSince
  <2> QED BY <2>3, <2>4, <2>5
<1>3. CASE Tick
  <2>1. /\ clock' \in 0 .. MaxTime /\ clock' = clock + 1
        /\ UNCHANGED <<token, issued, generation, machine, task, record, applied, turn, echoed, told, requests>>
        /\ turn.step = "looked" => clock - turn.at < PassMost
    BY <1>0, <1>3, <1>m DEF Tick
  <2>2. TypeOK' /\ TokensGrow' /\ RebootedOnce'
    BY <2>1 DEF TypeOK, TokensGrow, RebootedOnce
  <2>3. DoneHappened'
    BY <1>0, <1>m, <2>1 DEF DoneHappened, BootedSince, Turns
  <2> QED BY <2>2, <2>3
<1>4. CASE Host
  <2>1. UNCHANGED <<token, issued, generation, clock, record, applied, turn, echoed, told, requests>>
    BY <1>4 DEF Host
  <2>2. /\ machine' \in [runs : BOOLEAN, since : 0 .. MaxTime, password : 0 .. MaxResets]
        /\ machine'.password = machine.password
        /\ machine'.runs => machine'.since = clock \/ machine' = machine
        /\ machine'.since \in {0, clock, machine.since}
    <3>1. machine \in [runs : BOOLEAN, since : 0 .. MaxTime, password : 0 .. MaxResets]
      BY <1>t DEF TypeOK
    <3>2. CASE machine' = machine \/ machine' = Booted(machine)
      BY <1>b, <3>1, <3>2
    <3>3. CASE machine' = [machine EXCEPT !.runs = FALSE, !.since = 0]
      <4>1. /\ machine' \in [runs : BOOLEAN, since : 0 .. MaxTime, password : 0 .. MaxResets]
            /\ machine'.password = machine.password /\ machine'.since = 0
        <5>1. machine' = [runs |-> FALSE, since |-> 0, password |-> machine.password]
          BY <3>1, <3>3
        <5> QED BY <1>0, <1>m, <5>1
      <4>2. machine'.runs = FALSE
        BY <3>1, <3>3
      <4> QED BY <4>1, <4>2
    <3> QED BY <1>4, <3>2, <3>3 DEF Host, TaskEnds, GuestMoves
  <2>3. /\ task' \in {"none", "running", "ended"}
        /\ task' = "ended" => \/ task = "ended"
                              \/ turn.step = "posted" /\ machine'.since = clock
    BY <1>4, <1>b, <1>t DEF Host, TaskEnds, GuestMoves, TypeOK
  <2>4. TypeOK' /\ TokensGrow'
    BY <2>1, <2>2, <2>3 DEF TypeOK, TokensGrow
  <2>5. DoneHappened'
    BY <1>0, <1>m, <2>1, <2>2, <2>3 DEF DoneHappened, BootedSince, Turns
  <2>6. RebootedOnce'
    BY <1>0, <1>m, <2>1, <2>2 DEF DoneHappened, RebootedOnce
  <2> QED BY <2>4, <2>5, <2>6
<1>5. CASE Looks /\ UNCHANGED <<token, issued, generation, clock>>
  <2>1. /\ turn.step = "rest" /\ echoed' = 0 /\ told' = 0 /\ UNCHANGED <<task, record, applied, requests>>
        /\ turn' = [step |-> "looked", view |-> token, at |-> clock,
                    uptime |-> IF machine.runs THEN clock - machine.since ELSE 0]
        /\ machine' = IF machine.runs THEN machine ELSE Booted(machine)
    BY <1>5 DEF Looks
  <2>2. turn'.uptime \in 0 .. MaxTime /\ turn' \in Turns
    BY <1>0, <1>m, <2>1 DEF DoneHappened, Turns
  <2>3. /\ machine' \in [runs : BOOLEAN, since : 0 .. MaxTime, password : 0 .. MaxResets]
        /\ machine'.password = machine.password
        /\ machine'.since =< clock /\ machine'.since + turn'.uptime = clock
        /\ machine' = machine \/ machine'.since = clock
    BY <1>b, <1>m, <1>t, <2>1 DEF TypeOK, DoneHappened
  <2>4. TypeOK'
    BY <1>0, <1>5, <2>1, <2>2, <2>3 DEF TypeOK, Turns
  <2>5. TokensGrow'
    BY <1>5, <1>m, <2>1 DEF TokensGrow, Tokens, Turns
  <2>6. task # "ended"
    BY <2>1 DEF DoneHappened
  <2>7. DoneHappened'
    BY <1>0, <1>5, <1>m, <2>1, <2>3, <2>6 DEF DoneHappened, BootedSince, Turns
  <2>8. RebootedOnce'
    BY <1>0, <1>m, <2>1, <2>3 DEF RebootedOnce, DoneHappened
  <2> QED BY <2>4, <2>5, <2>7, <2>8
<1>6. CASE Withholds /\ UNCHANGED <<token, issued, generation, clock>>
  <2>1. /\ turn.step = "rest" /\ echoed' = 0 /\ told' = 0 /\ UNCHANGED <<machine, task, applied, requests>>
        /\ turn' = [step |-> "password", view |-> 0, uptime |-> 0, at |-> 0]
        /\ record' = IF token = 0 THEN NoRecord ELSE record
    BY <1>6 DEF Withholds, Resting
  <2>2. NoRecord \in [token : 0 .. MaxTokens, at : 0 .. MaxTime, done : BOOLEAN]
    BY <1>0 DEF NoRecord
  <2>3. TypeOK'
    BY <1>0, <1>6, <1>t, <2>1, <2>2 DEF TypeOK
  <2>4. TokensGrow'
    BY <1>6, <1>m, <2>1 DEF TokensGrow, Tokens, Turns, NoRecord
  <2>5. DoneHappened' /\ RebootedOnce'
    BY <1>0, <1>6, <1>m, <2>1 DEF DoneHappened, RebootedOnce, BootedSince, Turns, NoRecord
  <2> QED BY <2>3, <2>4, <2>5
\* What ends a pass, or the agent, before it could ask, and leaves the rest alone.
<1>7. ASSUME turn' \in {[step |-> "report", view |-> 0, uptime |-> 0, at |-> 0], Resting}, echoed' = 0, told' = 0,
             task' = Unwatched \/ (task' = task /\ turn.step # "posted"),
             UNCHANGED <<token, issued, generation, clock, machine, record, applied, requests>>
      PROVE  Keeping'
  <2>1. task' \in {"none", "running"}
    BY <1>7, <1>t DEF Unwatched, TypeOK, DoneHappened
  <2>2. TypeOK'
    BY <1>0, <1>7, <2>1 DEF TypeOK, Resting
  <2>3. TokensGrow'
    BY <1>7, <1>m DEF TokensGrow, Tokens, Turns, Resting
  <2>4. DoneHappened' /\ RebootedOnce'
    BY <1>0, <1>7, <1>m, <2>1 DEF DoneHappened, RebootedOnce, BootedSince, Turns, Resting
  <2> QED BY <2>2, <2>3, <2>4
<1>8. CASE (FailsBefore \/ Dies) /\ UNCHANGED <<token, issued, generation, clock>>
  BY <1>7, <1>8, <1>f DEF FailsBefore, Dies
<1>9. CASE Forgets /\ UNCHANGED <<token, issued, generation, clock>>
  <2>1. /\ turn.step = "looked" /\ turn.view = 0 /\ record' = NoRecord
        /\ turn' = [step |-> "password", view |-> 0, uptime |-> 0, at |-> 0]
        /\ UNCHANGED <<machine, task, applied, echoed, told, requests>>
    BY <1>9, <1>s DEF Forgets
  <2>2. NoRecord \in [token : 0 .. MaxTokens, at : 0 .. MaxTime, done : BOOLEAN]
    BY <1>0 DEF NoRecord
  <2>3. TypeOK'
    BY <1>0, <1>9, <1>t, <2>1, <2>2 DEF TypeOK
  <2>4. TokensGrow'
    BY <1>9, <1>m, <2>1 DEF TokensGrow, Tokens, Turns, NoRecord
  <2>5. DoneHappened' /\ RebootedOnce'
    BY <1>0, <1>9, <1>m, <2>1 DEF DoneHappened, RebootedOnce, BootedSince, Turns, NoRecord
  <2> QED BY <2>3, <2>4, <2>5
<1>10. CASE Settles /\ UNCHANGED <<token, issued, generation, clock>>
  <2>1. /\ turn.step = "looked" /\ turn.view # 0 /\ record.token = turn.view /\ echoed = 0
        /\ UNCHANGED <<machine, task, applied, requests>>
    BY <1>10 DEF Settles, Recorded, DoneHappened
  <2>2. CASE PassFails /\ UNCHANGED record
    BY <1>7, <1>10, <1>f, <2>1, <2>2
  <2>3. CASE At("password") /\ UNCHANGED told /\ (record.done \/ Happened)
             /\ record' = [record EXCEPT !.done = TRUE] /\ echoed' = turn.view
    <3>1. /\ record' \in [token : 0 .. MaxTokens, at : 0 .. MaxTime, done : BOOLEAN]
          /\ record'.token = record.token /\ record'.at = record.at
      BY <1>t, <2>3 DEF TypeOK
    <3>2. turn' = [step |-> "password", view |-> turn.view, uptime |-> 0, at |-> 0]
      BY <1>s, <2>3
    <3>3. TypeOK'
      BY <1>0, <1>10, <1>m, <2>1, <2>3, <3>1, <3>2 DEF TypeOK, Turns
    <3>4. TokensGrow'
      BY <1>10, <1>m, <2>1, <3>1, <3>2 DEF TokensGrow, Tokens, Turns
    <3>5. machine.runs => machine.since + Slack + PassMost >= record.at
      <4>1. CASE record.done
        BY <4>1 DEF DoneHappened
      <4>2. CASE Happened
        BY <1>0, <1>m, <2>1, <4>2 DEF Happened, DoneHappened, Turns
      <4> QED BY <2>3, <4>1, <4>2
    <3>6. DoneHappened' /\ RebootedOnce'
      BY <1>0, <1>10, <1>m, <2>1, <2>3, <3>1, <3>2, <3>5 DEF DoneHappened, RebootedOnce, BootedSince
    <3> QED BY <3>3, <3>4, <3>6
  <2>4. CASE At("password") /\ UNCHANGED <<record, echoed, told>>
    <3>1. turn' = [step |-> "password", view |-> turn.view, uptime |-> 0, at |-> 0]
      BY <1>s, <2>4
    <3>2. TypeOK'
      BY <1>0, <1>10, <1>m, <2>1, <2>4, <3>1 DEF TypeOK, Turns
    <3>3. TokensGrow'
      BY <1>10, <1>m, <2>1, <2>4, <3>1 DEF TokensGrow, Tokens, Turns
    <3>4. DoneHappened' /\ RebootedOnce'
      BY <1>0, <1>10, <1>m, <2>1, <2>4, <3>1 DEF DoneHappened, RebootedOnce, BootedSince
    <3> QED BY <3>2, <3>3, <3>4
  <2> QED BY <1>10, <2>2, <2>3, <2>4 DEF Settles
<1>11. CASE WritesDown /\ UNCHANGED <<token, issued, generation, clock>>
  <2>1. /\ turn.step = "looked" /\ turn.view # 0 /\ record.token # turn.view /\ echoed = 0
        /\ UNCHANGED <<machine, task, applied, requests>>
    BY <1>11 DEF WritesDown, Recorded, DoneHappened
  <2>2. CASE PassFails /\ UNCHANGED record
    BY <1>7, <1>11, <1>f, <2>1, <2>2
  <2>3. CASE record' = [token |-> turn.view, at |-> clock, done |-> FALSE] /\ At("asked") /\ UNCHANGED <<echoed, told>>
    <3>1. turn' = [step |-> "asked", view |-> turn.view, uptime |-> 0, at |-> 0]
      BY <1>s, <2>3
    <3>2. record' \in [token : 0 .. MaxTokens, at : 0 .. MaxTime, done : BOOLEAN]
      BY <1>m, <2>3 DEF Turns
    <3>3. TypeOK'
      BY <1>0, <1>11, <1>m, <2>1, <2>3, <3>1, <3>2 DEF TypeOK, Turns
    <3>4. turn.view \in Tokens /\ requests[turn.view] = 0
      BY <1>0, <1>m, <2>1 DEF TokensGrow, Tokens, Turns
    <3>5. TokensGrow'
      BY <1>11, <1>m, <2>1, <2>3, <3>1, <3>4 DEF TokensGrow, Tokens, Turns
    <3>6. DoneHappened' /\ RebootedOnce'
      <4>1. task # "ended"
        BY <2>1 DEF DoneHappened
      <4> QED BY <1>0, <1>11, <1>m, <2>1, <2>3, <3>1, <4>1 DEF DoneHappened, RebootedOnce, BootedSince
    <3> QED BY <3>3, <3>5, <3>6
  <2> QED BY <1>11, <2>2, <2>3 DEF WritesDown
<1>12. CASE Posts /\ UNCHANGED <<token, issued, generation, clock>>
  <2>1. /\ turn.step = "asked" /\ turn.view \in Tokens /\ record.token = turn.view /\ requests[turn.view] = 0 /\ echoed = 0
        /\ UNCHANGED <<machine, record, applied>> /\ task # "ended"
    BY <1>12, <1>m DEF Posts, TokensGrow, Tokens, Turns, DoneHappened
  <2>2. /\ task' \in {"none", "running"}
        /\ requests' = requests \/ requests' = [requests EXCEPT ![turn.view] = @ + 1]
        /\ \/ turn' = [step |-> "posted", view |-> turn.view, uptime |-> 0, at |-> 0] /\ UNCHANGED <<echoed, told>>
           \/ turn' = [step |-> "report", view |-> 0, uptime |-> 0, at |-> 0] /\ echoed' = 0 /\ told' = 0
    BY <1>12, <1>f, <1>s, <1>t, <2>1 DEF Posts, TypeOK
  <2>3. /\ requests' \in [Tokens -> Nat]
        /\ \A t \in Tokens : requests'[t] = requests[t] \/ (t = turn.view /\ requests'[t] = 1)
    BY <1>m, <2>1, <2>2
  <2>4. TypeOK'
    BY <1>0, <1>12, <1>m, <1>t, <2>1, <2>2, <2>3 DEF TypeOK, Turns
  <2>5. TokensGrow'
    BY <1>12, <1>m, <2>1, <2>2, <2>3 DEF TokensGrow, Tokens, Turns
  <2>6. DoneHappened'
    BY <1>0, <1>12, <1>m, <2>1, <2>2 DEF DoneHappened, BootedSince
  <2>7. RebootedOnce'
    BY <1>0, <1>12, <1>m, <2>1, <2>2, <2>3 DEF RebootedOnce
  <2> QED BY <2>4, <2>5, <2>6, <2>7
<1>13. CASE WaitEnds /\ UNCHANGED <<token, issued, generation, clock>>
  <2>1. /\ turn.step = "posted" /\ task' = Unwatched /\ UNCHANGED <<machine, applied, requests>>
        /\ record.token = turn.view /\ turn.view # 0
    BY <1>13 DEF WaitEnds, TokensGrow
  <2>2. CASE PassFails /\ UNCHANGED record
    BY <1>7, <1>13, <1>f, <2>1, <2>2
  <2>3. CASE task = "ended" /\ record' = [record EXCEPT !.done = TRUE] /\ echoed' = turn.view /\ At("password") /\ UNCHANGED told
    <3>1. /\ record' \in [token : 0 .. MaxTokens, at : 0 .. MaxTime, done : BOOLEAN]
          /\ record'.token = record.token /\ record'.at = record.at
      BY <1>t, <2>3 DEF TypeOK
    <3>2. turn' = [step |-> "password", view |-> turn.view, uptime |-> 0, at |-> 0] /\ task' = "none"
      BY <1>s, <2>1, <2>3 DEF Unwatched
    <3>3. TypeOK'
      BY <1>0, <1>13, <1>m, <2>1, <2>3, <3>1, <3>2 DEF TypeOK, Turns
    <3>4. TokensGrow'
      BY <1>13, <1>m, <2>1, <3>1, <3>2 DEF TokensGrow, Tokens, Turns
    <3>5. machine.runs => machine.since + Slack + PassMost >= record.at
      BY <1>0, <1>m, <2>3 DEF DoneHappened, BootedSince
    <3>6. DoneHappened' /\ RebootedOnce'
      BY <1>0, <1>13, <1>m, <2>1, <2>3, <3>1, <3>2, <3>5 DEF DoneHappened, RebootedOnce, BootedSince
    <3> QED BY <3>3, <3>4, <3>6
  <2> QED BY <1>13, <2>2, <2>3 DEF WaitEnds
<1>14. CASE SetsPassword /\ UNCHANGED <<token, issued, generation, clock>>
  <2>1. /\ turn.step = "password" /\ told' = applied /\ UNCHANGED <<machine, task, record, applied, echoed, requests>>
        /\ turn' = [step |-> "report", view |-> turn.view, uptime |-> 0, at |-> 0]
    BY <1>14, <1>s DEF SetsPassword
  <2>2. TypeOK'
    BY <1>0, <1>14, <1>m, <2>1 DEF TypeOK, Turns
  <2>3. TokensGrow'
    BY <1>14, <1>m, <2>1 DEF TokensGrow, Tokens, Turns
  <2>4. DoneHappened' /\ RebootedOnce'
    BY <1>0, <1>14, <1>m, <2>1 DEF DoneHappened, RebootedOnce, BootedSince
  <2> QED BY <2>2, <2>3, <2>4
<1>15. CASE Sets /\ UNCHANGED <<token, issued, generation, clock>>
  <2>1. /\ turn.step = "password" /\ generation > applied /\ UNCHANGED <<task, record, requests>>
        /\ machine' = [machine EXCEPT !.password = generation] /\ applied' \in {applied, generation}
    BY <1>15 DEF Sets
  <2>2. /\ machine' \in [runs : BOOLEAN, since : 0 .. MaxTime, password : 0 .. MaxResets]
        /\ machine'.runs = machine.runs /\ machine'.since = machine.since /\ machine'.password = generation
    BY <1>m, <1>t, <2>1 DEF TypeOK
  <2>3. \/ /\ turn' = [step |-> "report", view |-> turn.view, uptime |-> 0, at |-> 0]
           /\ UNCHANGED echoed /\ told' \in {applied, generation}
        \/ turn' = [step |-> "report", view |-> 0, uptime |-> 0, at |-> 0] /\ echoed' = 0 /\ told' = 0
    BY <1>15, <1>f, <1>s DEF Sets
  <2>4. TypeOK'
    BY <1>0, <1>15, <1>m, <1>t, <2>1, <2>2, <2>3 DEF TypeOK, Turns
  <2>5. TokensGrow'
    BY <1>15, <1>m, <2>1, <2>3 DEF TokensGrow, Tokens, Turns
  <2>6. DoneHappened' /\ RebootedOnce'
    BY <1>0, <1>15, <1>m, <2>1, <2>2, <2>3 DEF DoneHappened, RebootedOnce, BootedSince
  <2> QED BY <2>4, <2>5, <2>6
<1>16. CASE Reports
  <2>1. /\ turn.step = "report" /\ turn' = Resting /\ token' \in {token, 0}
        /\ UNCHANGED <<issued, generation, machine, task, clock, record, applied, echoed, told, requests>>
    BY <1>16 DEF Reports
  <2>2. TypeOK'
    BY <1>0, <1>m, <2>1 DEF TypeOK, Turns, Resting
  <2>3. TokensGrow'
    BY <1>m, <2>1 DEF TokensGrow, Tokens, Turns, Resting
  <2>4. DoneHappened' /\ RebootedOnce'
    BY <1>0, <1>m, <2>1 DEF DoneHappened, RebootedOnce, BootedSince, Resting
  <2> QED BY <2>2, <2>3, <2>4
<1> QED BY <1>1, <1>2, <1>3, <1>4, <1>5, <1>6, <1>8, <1>9, <1>10, <1>11, <1>12, <1>13, <1>14, <1>15, <1>16
        DEF Next, Agent

-----------------------------------------------------------------------------
(* The theorems.                                                            *)

LEMMA AlwaysKeeping == UpkeepAssumption => (Spec => []Keeping)
<1>1. UpkeepAssumption => UpkeepAssumption'
  BY DEF UpkeepAssumption
<1> QED BY <1>1, KeepBegins, KeepStep, PTL DEF Spec

(* Every variable of the upkeep has its type, for every slack, every length *)
(* of a pass and every bound.                                               *)
THEOREM TypeCorrect == UpkeepAssumption => (Spec => []TypeOK)
<1>1. Keeping => TypeOK
  BY DEF Keeping
<1> QED BY <1>1, AlwaysKeeping, PTL

(* Whatever of a request, its wait, its record and its report is lost, and  *)
(* wherever the agent dies, Proxmox is asked once for a token; a token is   *)
(* echoed only if the guest has booted since, give or take the slack and    *)
(* the time a pass takes; and a generation told is the guest's password.    *)
THEOREM OneReboot == UpkeepAssumption => (Spec => []RebootedOnce)
<1>1. Keeping => RebootedOnce
  BY DEF Keeping
<1> QED BY <1>1, AlwaysKeeping, PTL

=============================================================================
