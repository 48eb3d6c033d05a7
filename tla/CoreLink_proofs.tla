--------------------------- MODULE CoreLink_proofs ---------------------------
(***************************************************************************)
(* Proofs about CoreLink, for every set of providers, every last revision  *)
(* and every number of faults.  A head is changed by few actions: the      *)
(* others are `Quiet`, and met once (QuietStep).                           *)
(***************************************************************************)
EXTENDS CoreLink, TLAPS

\* The actions that touch no head, nor what RestoreGate reads but the guest
\* and, in Finish, what binds.
Quiet ==
  \/ CoreMoves \/ TakeoverLeaseEnds \/ Retire \/ WriteLeases \/ LeaseRunsOut
  \/ ShakeUnreachable \/ BootStarts \/ ViewAges \/ Finish \/ Heartbeat
  \/ KeepView \/ NotReread \/ Maintain \/ GuestFails
Ends == StopForGood \/ Crash \/ Terminate

(* Every step is of one of these.                                          *)
LEMMA StepCases ==
  ASSUME [Next]_vars
  PROVE  \/ Quiet \/ Ends \/ Start \/ Handshake \/ Rehandshake \/ ReadView \/ Reread
         \/ FileLost \/ (\E p \in Providers : Enrol(p)) \/ UNCHANGED vars
BY DEF Next, Agent, Faults, Quiet, Ends

(* A head that is empty or could not be read is a head.                    *)
LEMMA NoHeadType == NoHead \in Heads /\ UnreadableHead \in Heads
BY DEF NoHead, UnreadableHead, HeadOf, Heads, Modes, Bits

(* What a handshake makes of a head.                                       *)
LEMMA ArmType ==
  ASSUME NEW h \in Heads, NEW x \in BOOLEAN, NEW p \in Providers, NEW d \in BOOLEAN
  PROVE  Arm(h, x, p, d) \in Heads
BY DEF Arm, Kept, Dropped, HeadOf, BitOf, Heads, Modes, Bits

(* What an answer makes of a head.                                         *)
LEMMA ObserveType ==
  ASSUME NEW h \in Heads, NEW u \in BOOLEAN, NEW v \in Nat,
         NEW n \in BOOLEAN, NEW t \in BOOLEAN
  PROVE  Observe(h, u, v, n, t) \in Heads
BY DEF Observe, HeadOf, RevisionAfter, ModeAfter, EndedBy, WentBack, Behind, Further,
       Heads, Modes, Bits

-----------------------------------------------------------------------------
(* The type, in four parts.                                                *)
TypeCore ==
  /\ rev \in 1 .. MaxRev /\ want \in Wants
  /\ hold \in BOOLEAN /\ holds \in BOOLEAN
  /\ provider \in Providers /\ wentBack \in BOOLEAN
  /\ sess \in {"none", "mine", "other", "revoked"}
TypeDisk ==
  /\ headFile \in Heads /\ viewFile \in Wants \cup {"none"}
  /\ leaseFile \in Leases \cup {"lost"} /\ torn \in BOOLEAN
TypeProc ==
  /\ pc \in {"dead", "stopped", "retire", "shake", "joined", "idle", "keep", "acts"}
  /\ head \in Heads /\ armed \in BOOLEAN /\ mine \in BOOLEAN
  /\ heldRev \in 0 .. MaxRev /\ heldWant \in Wants
  /\ lease \in Leases /\ resumed \in BOOLEAN /\ boot \in {"idle", "starting"}
TypeRest ==
  /\ guest \in {"none", "down", "up"} /\ faults \in 0 .. MaxFaults
  /\ gate \in {"free", "seen", "named"} /\ binding \in BOOLEAN
  /\ acted \in 0 .. MaxRev /\ outKnown \in BOOLEAN

(* The parts are the whole.                                                *)
LEMMA TypeParts == TypeOK <=> TypeCore /\ TypeDisk /\ TypeProc /\ TypeRest
BY DEF TypeOK, TypeCore, TypeDisk, TypeProc, TypeRest

(* The values the first state takes are within the bounds.                 *)
LEMMA Bounds ==
  0 \in 0 .. MaxRev /\ 1 \in 1 .. MaxRev /\ 0 \in 0 .. MaxFaults /\ Enrolled \in Providers
BY BoundsAssumption

(* The state before anything happened is well typed.                       *)
LEMMA TypeInit == Init => TypeOK
<1> SUFFICES ASSUME Init PROVE TypeOK
  OBVIOUS
<1>0. NoHead \in Heads
  BY NoHeadType
<1>1. TypeCore
  BY Bounds DEF Init, TypeCore, Wants
<1>2. TypeDisk
  BY <1>0 DEF Init, TypeDisk, Wants, Leases
<1>3. TypeProc
  BY <1>0, Bounds DEF Init, TypeProc, Wants, Leases, NoRevision
<1>4. TypeRest
  BY Bounds DEF Init, TypeRest
<1> QED
  BY <1>1, <1>2, <1>3, <1>4, TypeParts

(* No step changes the type of Core's ledger.                              *)
LEMMA CoreStep == TypeCore /\ [Next]_vars => TypeCore'
<1> SUFFICES ASSUME TypeCore, [Next]_vars PROVE TypeCore'
  OBVIOUS
<1> USE BoundsAssumption DEF TypeCore, Wants
<1>1. CASE CoreMoves \/ TakeoverLeaseEnds
  <2>1. ASSUME NEW w \in Wants, Edit(w) PROVE TypeCore'
    BY <2>1 DEF Edit
  <2>2. CASE RestoreLedger
    BY <2>2 DEF RestoreLedger
  <2>3. CASE HoldProvider
    BY <2>3 DEF HoldProvider
  <2>4. CASE EndHold
    BY <2>4 DEF EndHold
  <2>5. CASE SwitchRestores
    BY <2>5 DEF SwitchRestores
  <2>6. CASE Session
    BY <2>6 DEF Session, Lapse, Takeover, Revoke
  <2> QED
    BY <1>1, <2>1, <2>2, <2>3, <2>4, <2>5, <2>6 DEF CoreMoves, TakeoverLeaseEnds
<1>2. CASE Handshake \/ Rehandshake
  BY <1>2 DEF Handshake, Rehandshake, HeardHandshake
<1>3. CASE Heartbeat \/ Terminate
  BY <1>3 DEF Heartbeat, Terminate, core
<1>4. ASSUME NEW p \in Providers, Enrol(p) PROVE TypeCore'
  BY <1>4, Bounds DEF Enrol
<1>5. CASE UNCHANGED core
  BY <1>5 DEF core
<1>6. CASE \/ Retire \/ WriteLeases \/ LeaseRunsOut \/ ShakeUnreachable \/ BootStarts
           \/ ViewAges \/ Finish \/ KeepView \/ NotReread \/ Maintain \/ GuestFails
           \/ StopForGood \/ Crash \/ Start \/ ReadView \/ Reread \/ FileLost
           \/ UNCHANGED vars
  <2>1. UNCHANGED core
    BY <1>6 DEF Retire, WriteLeases, LeaseRunsOut, ShakeUnreachable, BootStarts, ViewAges,
         Finish, KeepView, NotReread, Maintain, GuestFails, StopForGood, Crash, Start,
         ReadView, Reread, FileLost, vars
  <2> QED
    BY <2>1, <1>5
<1> QED
  BY <1>1, <1>2, <1>3, <1>4, <1>6, StepCases DEF Quiet, Ends

(* What an answer leaves of the head, and of RestoreGate's history.        *)
LEMMA SeenType ==
  ASSUME TypeOK, NEW u \in BOOLEAN, NEW t \in BOOLEAN, SeenAs(u, t)
  PROVE  /\ head' \in Heads /\ headFile' \in Heads
         /\ gate' \in {"free", "seen", "named"} /\ acted' \in 0 .. MaxRev
<1>1. rev \in Nat /\ hold \in BOOLEAN /\ head \in Heads /\ headFile \in Heads
  BY BoundsAssumption DEF TypeOK
<1>2. Observe(head, u, rev, hold, t) \in Heads
  BY <1>1, ObserveType
<1>3. head' \in Heads /\ headFile' \in Heads
  BY <1>1, <1>2 DEF SeenAs
<1>4. gate' \in {"free", "seen", "named"}
  BY TypeParts DEF SeenAs, TypeRest, GateAfter
<1>5. acted' \in 0 .. MaxRev
  BY TypeParts, BoundsAssumption DEF SeenAs, TypeRest, TypeCore, ActedAfter
<1> QED
  BY <1>3, <1>4, <1>5

(* In the three parts that an answer, or a handshake's, changes.           *)
LEMMA AnswerType ==
  ASSUME TypeOK, ReadView \/ Reread \/ Handshake \/ Rehandshake
  PROVE  /\ head' \in Heads /\ headFile' \in Heads
         /\ gate' \in {"free", "seen", "named"} /\ acted' \in 0 .. MaxRev
<1>1. CASE ReadView
  <2>1. SeenAs(FALSE, torn /\ heldWant' = "Running") /\ (torn /\ heldWant' = "Running") \in BOOLEAN
    BY <1>1 DEF ReadView
  <2> QED
    BY <2>1, SeenType
<1>2. CASE Reread
  <2>1. SeenAs(Unchanged, FALSE) /\ Unchanged \in BOOLEAN
    BY <1>2 DEF Reread, Unchanged
  <2> QED
    BY <2>1, SeenType
<1>3. CASE Handshake \/ Rehandshake
  <2>1. head \in Heads /\ holds \in BOOLEAN /\ provider \in Providers /\ OnDisk \in BOOLEAN
    BY DEF TypeOK, OnDisk
  <2>2. Arm(head, holds, provider, OnDisk) \in Heads
    BY <2>1, ArmType
  <2>3. gate \in {"free", "seen", "named"} /\ acted \in 0 .. MaxRev
    BY DEF TypeOK
  <2> QED
    BY <1>3, <2>2, <2>3 DEF Handshake, Rehandshake, HeardHandshake
<1> QED
  BY <1>1, <1>2, <1>3

(* No step changes the type of what is on disk.                            *)
LEMMA DiskStep == TypeOK /\ [Next]_vars => TypeDisk'
<1> SUFFICES ASSUME TypeOK, [Next]_vars PROVE TypeDisk'
  OBVIOUS
<1>0. TypeDisk /\ UnreadableHead \in Heads /\ heldWant \in Wants /\ lease \in Leases
  BY TypeParts, NoHeadType DEF TypeProc
<1> USE <1>0 DEF TypeDisk, Wants, Leases
<1>1. CASE Quiet
  <2>1. CASE Retire \/ WriteLeases \/ LeaseRunsOut \/ ViewAges \/ KeepView
    BY <2>1 DEF Retire, Retired, WriteLeases, LeaseRunsOut, RunsOut, ViewAges, KeepView
  <2>2. CASE \/ CoreMoves \/ TakeoverLeaseEnds \/ ShakeUnreachable \/ BootStarts \/ Finish
             \/ Heartbeat \/ NotReread \/ Maintain \/ GuestFails
    BY <2>2 DEF CoreMoves, TakeoverLeaseEnds, ShakeUnreachable, BootStarts, Finish,
                Heartbeat, NotReread, Maintain, GuestFails, disk
  <2> QED
    BY <1>1, <2>1, <2>2 DEF Quiet
<1>2. CASE Ends \/ Start
  BY <1>2 DEF Ends, StopForGood, Crash, Terminate, Start, disk
<1>3. CASE Handshake \/ Rehandshake \/ ReadView
  <2>1. UNCHANGED <<viewFile, leaseFile, torn>>
    BY <1>3 DEF Handshake, Rehandshake, ReadView
  <2> QED
    BY <1>3, <2>1, AnswerType
<1>4. CASE Reread
  <2>1. UNCHANGED <<viewFile, leaseFile>> /\ torn' \in BOOLEAN
    BY <1>4 DEF Reread, StillAgreed, Perform, Nothing
  <2> QED
    BY <1>4, <2>1, AnswerType
<1>5. CASE FileLost
  BY <1>5 DEF FileLost
<1>6. ASSUME NEW p \in Providers, Enrol(p) PROVE TypeDisk'
  BY <1>6 DEF Enrol
<1> QED
  BY <1>1, <1>2, <1>3, <1>4, <1>5, <1>6, StepCases DEF vars, disk

(* No step changes the type of what the agent holds in memory.             *)
LEMMA ProcStep == TypeOK /\ [Next]_vars => TypeProc'
<1> SUFFICES ASSUME TypeOK, [Next]_vars PROVE TypeProc'
  OBVIOUS
<1>0. /\ TypeProc /\ NoHead \in Heads /\ headFile \in Heads /\ holds \in BOOLEAN
      /\ leaseFile \in Leases \cup {"lost"} /\ rev \in 0 .. MaxRev /\ want \in Wants
  BY TypeParts, NoHeadType, BoundsAssumption DEF TypeDisk, TypeCore
<1> USE <1>0 DEF TypeProc
<1>1. CASE Quiet
  <2>1. CASE CoreMoves \/ TakeoverLeaseEnds \/ WriteLeases \/ ViewAges \/ Heartbeat
             \/ Maintain \/ GuestFails
    BY <2>1 DEF CoreMoves, TakeoverLeaseEnds, WriteLeases, ViewAges, Heartbeat, Maintain,
                GuestFails, proc
  <2>2. CASE LeaseRunsOut
    BY <2>2 DEF LeaseRunsOut, RunsOut, Leases
  <2>3. CASE Retire \/ Finish
    BY <2>3 DEF Retire, Finish
  <2>4. CASE ShakeUnreachable \/ BootStarts
    BY <2>4 DEF ShakeUnreachable, BootStarts
  <2>5. CASE KeepView \/ NotReread
    BY <2>5 DEF KeepView, NotReread
  <2> QED
    BY <1>1, <2>1, <2>2, <2>3, <2>4, <2>5 DEF Quiet
<1>2. CASE Ends
  <2>1. Forgets /\ pc' \in {"dead", "stopped"}
    BY <1>2 DEF Ends, StopForGood, Crash, Terminate, Dies
  <2> QED
    BY <2>1, Bounds DEF Forgets, Wants, Leases, NoRevision
<1>3. CASE Start
  BY <1>3 DEF Start, Leases
<1>4. CASE Handshake \/ Rehandshake
  <2>1. head' \in Heads
    BY <1>4, AnswerType
  <2>2. /\ armed' \in BOOLEAN /\ mine' \in BOOLEAN /\ pc' \in {pc, "joined"}
        /\ UNCHANGED <<heldRev, heldWant, lease, resumed, boot>>
    BY <1>4 DEF Handshake, Rehandshake, HeardHandshake
  <2> QED
    BY <2>1, <2>2
<1>5. CASE ReadView
  <2>1. head' \in Heads
    BY <1>5, AnswerType
  <2>2. /\ heldRev' = rev /\ heldWant' \in Wants /\ lease' \in {"runs", lease}
        /\ pc' \in {"idle", "keep"} /\ UNCHANGED <<armed, mine, resumed, boot>>
    BY <1>5 DEF ReadView
  <2> QED
    BY <2>1, <2>2 DEF Leases
<1>6. CASE Reread
  <2>1. head' \in Heads
    BY <1>6, AnswerType
  <2>2. heldRev' \in 0 .. MaxRev /\ heldWant' \in Wants
    BY <1>6 DEF Reread, FreshWant
  <2>3. lease' \in {"none", lease}
    BY <1>6 DEF Reread, StillAgreed, Perform, Nothing
  <2>4. pc' = "idle" /\ UNCHANGED <<armed, mine, resumed, boot>>
    BY <1>6 DEF Reread
  <2> QED
    BY <2>1, <2>2, <2>3, <2>4 DEF Leases
<1>7. CASE FileLost
  BY <1>7 DEF FileLost, proc
<1>8. ASSUME NEW p \in Providers, Enrol(p) PROVE TypeProc'
  BY <1>8 DEF Enrol
<1> QED
  BY <1>1, <1>2, <1>3, <1>4, <1>5, <1>6, <1>7, <1>8, StepCases DEF vars, proc

(* No step changes the type of the guest and of the history.               *)
LEMMA RestStep == TypeOK /\ [Next]_vars => TypeRest'
<1> SUFFICES ASSUME TypeOK, [Next]_vars PROVE TypeRest'
  OBVIOUS
<1>0. TypeRest /\ armed \in BOOLEAN /\ holds \in BOOLEAN
  BY TypeParts DEF TypeProc, TypeCore
<1> USE <1>0, BoundsAssumption DEF TypeRest
<1>1. CASE Quiet
  <2>1. CASE CoreMoves \/ TakeoverLeaseEnds
    BY <2>1 DEF CoreMoves, TakeoverLeaseEnds, Fault, hist
  <2>2. CASE LeaseRunsOut
    BY <2>2 DEF LeaseRunsOut
  <2>3. CASE BootStarts \/ Maintain \/ GuestFails
    BY <2>3 DEF BootStarts, Maintain, GuestFails, hist
  <2>4. CASE Finish
    BY <2>4 DEF Finish
  <2>5. CASE \/ Retire \/ WriteLeases \/ ShakeUnreachable \/ ViewAges \/ Heartbeat \/ KeepView
             \/ NotReread
    BY <2>5 DEF Retire, WriteLeases, ShakeUnreachable, ViewAges, Heartbeat, KeepView,
                NotReread, hist
  <2> QED
    BY <1>1, <2>1, <2>2, <2>3, <2>4, <2>5 DEF Quiet
<1>2. CASE Ends \/ Start
  BY <1>2 DEF Ends, StopForGood, Crash, Terminate, Start, Dies, Fault, hist
<1>3. CASE Handshake \/ Rehandshake
  <2>1. binding' \in BOOLEAN /\ UNCHANGED <<guest, faults, outKnown>>
    BY <1>3 DEF Handshake, Rehandshake
  <2> QED
    BY <1>3, <2>1, AnswerType
<1>4. CASE ReadView
  <2>1. outKnown' = FALSE /\ UNCHANGED <<guest, faults, binding>>
    BY <1>4 DEF ReadView
  <2> QED
    BY <1>4, <2>1, AnswerType
<1>5. CASE Reread
  <2>1. guest' \in {"none", "down", "up"}
    BY <1>5 DEF Reread, StillAgreed, Perform, Nothing
  <2>2. UNCHANGED <<faults, binding, outKnown>>
    BY <1>5 DEF Reread
  <2> QED
    BY <1>5, <2>1, <2>2, AnswerType
<1>6. CASE FileLost
  BY <1>6 DEF FileLost, Fault, hist
<1>7. ASSUME NEW p \in Providers, Enrol(p) PROVE TypeRest'
  <2>1. faults' \in 0 .. MaxFaults
    BY <1>7 DEF Enrol, Fault
  <2>2. /\ guest' = "none" /\ gate' = "free" /\ binding' = FALSE /\ acted' = 0
        /\ outKnown' = outKnown
    BY <1>7 DEF Enrol
  <2> QED
    BY <2>1, <2>2, Bounds
<1> QED
  BY <1>1, <1>2, <1>3, <1>4, <1>5, <1>6, <1>7, StepCases DEF vars, hist

(* The type is inductive.                                                  *)
LEMMA TypeStep == TypeOK /\ [Next]_vars => TypeOK'
<1> SUFFICES ASSUME TypeOK, [Next]_vars PROVE TypeOK'
  OBVIOUS
<1>1. TypeCore' /\ TypeDisk' /\ TypeProc' /\ TypeRest'
  BY TypeParts, CoreStep, DiskStep, ProcStep, RestStep
<1> QED
  BY <1>1 DEF TypeOK, TypeCore, TypeDisk, TypeProc, TypeRest

(* Whatever Core, the files and the faults do, the agent's state and what  *)
(* it keeps on disk are of their types.                                    *)
THEOREM TypeCorrect == Spec => []TypeOK
<1>1. TypeOK /\ [Next]_vars => TypeOK'
  BY TypeStep
<1> QED
  BY TypeInit, <1>1, PTL DEF Spec

-----------------------------------------------------------------------------
(* What a quiet step leaves alone.                                         *)
LEMMA QuietStep ==
  ASSUME Quiet
  PROVE  /\ UNCHANGED <<head, headFile, armed, provider, gate, acted, torn>>
         /\ binding' = binding \/ (Finish /\ binding' = armed)
         /\ heldRev' = heldRev /\ heldWant' = heldWant
         /\ Alive' <=> Alive
<1> USE DEF core, disk, proc, hist, Alive
<1>1. CASE CoreMoves \/ TakeoverLeaseEnds
  BY <1>1 DEF CoreMoves, TakeoverLeaseEnds, Edit, HoldProvider, EndHold, RestoreLedger,
              SwitchRestores, Session, Lapse, Takeover, Revoke, Fault
<1>2. CASE Retire \/ WriteLeases \/ LeaseRunsOut \/ ShakeUnreachable \/ BootStarts
  BY <1>2 DEF Retire, WriteLeases, LeaseRunsOut, ShakeUnreachable, BootStarts
<1>3. CASE ViewAges \/ Finish \/ Heartbeat \/ KeepView \/ NotReread \/ Maintain \/ GuestFails
  BY <1>3 DEF ViewAges, Finish, Heartbeat, KeepView, NotReread, Maintain, GuestFails
<1> QED
  BY <1>1, <1>2, <1>3 DEF Quiet

-----------------------------------------------------------------------------
(* A boot pass in flight: begun in the handshake loop, waited for by Finish*)
(* and gone with the process.                                              *)
LEMMA BootStep == BootNeverRacesTheLoop /\ [Next]_vars => BootNeverRacesTheLoop'
<1> SUFFICES ASSUME BootNeverRacesTheLoop, [Next]_vars PROVE BootNeverRacesTheLoop'
  OBVIOUS
<1> USE DEF BootNeverRacesTheLoop, core, disk, proc, hist
<1>1. CASE Quiet
  <2>1. CASE CoreMoves \/ TakeoverLeaseEnds
    BY <2>1 DEF CoreMoves, TakeoverLeaseEnds
  <2>2. CASE Retire \/ WriteLeases \/ LeaseRunsOut \/ ShakeUnreachable \/ BootStarts
    BY <2>2 DEF Retire, WriteLeases, LeaseRunsOut, ShakeUnreachable, BootStarts
  <2>3. CASE ViewAges \/ Finish \/ Heartbeat \/ KeepView \/ NotReread \/ Maintain \/ GuestFails
    BY <2>3 DEF ViewAges, Finish, BootFinished, Heartbeat, KeepView, NotReread, Maintain,
                GuestFails
  <2> QED
    BY <1>1, <2>1, <2>2, <2>3 DEF Quiet
<1>2. CASE Ends
  BY <1>2 DEF Ends, StopForGood, Crash, Terminate, Dies, Forgets
<1>3. CASE Start \/ Handshake \/ Rehandshake \/ FileLost
  BY <1>3 DEF Start, Handshake, Rehandshake, FileLost, Loop
<1>4. CASE ReadView \/ Reread
  BY <1>4 DEF ReadView, Reread
<1>5. ASSUME NEW p \in Providers, Enrol(p) PROVE BootNeverRacesTheLoop'
  BY <1>5 DEF Enrol
<1> QED
  BY <1>1, <1>2, <1>3, <1>4, <1>5, StepCases DEF vars

(* A boot pass never runs beside the loop (Boot::finish).                  *)
THEOREM BootIsWaitedFor == Spec => []BootNeverRacesTheLoop
<1>1. Init => BootNeverRacesTheLoop
  BY DEF Init, BootNeverRacesTheLoop
<1>2. BootNeverRacesTheLoop /\ [Next]_vars => BootNeverRacesTheLoop'
  BY BootStep
<1> QED
  BY <1>1, <1>2, PTL DEF Spec

-----------------------------------------------------------------------------
(* The head in memory is the one on disk, armed only for the provider it   *)
(* was kept for; a host enrolled once has no head of a later provider.     *)
HeadsAgree ==
  /\ Alive => headFile = head
  /\ ~Alive => ~armed /\ heldRev = NoRevision
  /\ armed => headFile.provider = provider /\ headFile.armed = "yes"
  /\ provider = Enrolled => headFile.provider \in {NoProvider, Enrolled}

(* What an armed answer leaves of whose head it is.                        *)
LEMMA SeenKeepsOwner ==
  ASSUME TypeOK, NEW u, NEW t, SeenAs(u, t), headFile = head
  PROVE  /\ headFile' = head'
         /\ head'.provider = head.provider /\ head'.armed = head.armed
BY DEF SeenAs, Observe, HeadOf, TypeOK, Heads

(* What a handshake leaves of it.                                          *)
LEMMA ArmOwner ==
  ASSUME NEW h \in Heads, NEW x \in BOOLEAN, NEW p \in Providers, NEW d \in BOOLEAN
  PROVE  /\ x => Arm(h, x, p, d).provider = p /\ Arm(h, x, p, d).armed = "yes"
         /\ ~x => Arm(h, x, p, d).provider = h.provider
BY DEF Arm, Kept, Dropped, HeadOf, BitOf, Heads

(* A living agent's head stays its file's.                                 *)
LEMMA HeadsAgreeStep == TypeOK /\ HeadsAgree /\ [Next]_vars => HeadsAgree'
<1> SUFFICES ASSUME TypeOK, HeadsAgree, [Next]_vars PROVE HeadsAgree'
  OBVIOUS
<1>1. CASE Quiet
  BY <1>1, QuietStep DEF HeadsAgree
<1>2. CASE Ends
  BY <1>2 DEF Ends, StopForGood, Crash, Terminate, Dies, Forgets, HeadsAgree, Alive, core, disk
<1>3. CASE Start
  BY <1>3 DEF Start, HeadsAgree, Alive, core, disk
<1>4. CASE Handshake \/ Rehandshake
  <2>1. /\ headFile' = Arm(headFile, holds, provider, OnDisk) /\ head' = headFile'
        /\ armed' = holds /\ provider' = provider /\ Alive'
    BY <1>4 DEF Handshake, Rehandshake, HeardHandshake, HeadsAgree, Alive, Loop
  <2>2. headFile \in Heads /\ holds \in BOOLEAN /\ provider \in Providers /\ OnDisk \in BOOLEAN
    BY DEF TypeOK, OnDisk
  <2>3. /\ holds => headFile'.provider = provider /\ headFile'.armed = "yes"
        /\ ~holds => headFile'.provider = headFile.provider
    BY <2>1, <2>2, ArmOwner
  <2> QED
    BY <2>1, <2>3 DEF HeadsAgree
<1>5. CASE ReadView \/ Reread
  <2>1. PICK u, t : SeenAs(u, t)
    BY <1>5 DEF ReadView, Reread
  <2>2. Alive /\ Alive' /\ armed' = armed /\ provider' = provider
    BY <1>5 DEF ReadView, Reread, Alive, core
  <2>3. /\ headFile' = head'
        /\ head'.provider = head.provider /\ head'.armed = head.armed
    BY <2>1, <2>2, SeenKeepsOwner DEF HeadsAgree
  <2> QED
    BY <2>2, <2>3 DEF HeadsAgree
<1>6. CASE FileLost
  BY <1>6 DEF FileLost, HeadsAgree, Alive, core, proc, UnreadableHead, HeadOf
<1>7. ASSUME NEW p \in Providers, Enrol(p) PROVE HeadsAgree'
  BY <1>7 DEF Enrol, HeadsAgree, Alive
<1>8. CASE UNCHANGED vars
  BY <1>8 DEF vars, core, disk, proc, HeadsAgree, Alive
<1> QED
  BY <1>1, <1>2, <1>3, <1>4, <1>5, <1>6, <1>7, <1>8, StepCases

-----------------------------------------------------------------------------
(* No false alarm.  While the ledger was never restored, nothing this agent*)
(* holds is ahead of it, and what it tore down is not wanted.              *)
LedgerFollowed ==
  ~wentBack =>
    /\ headFile.provider = provider => headFile.mode # "detected" /\ headFile.revision =< rev
    /\ torn => want = "Absent"
    /\ heldRev =< rev /\ (heldRev = rev => heldWant = want)

(* An answer of a ledger never restored is no evidence.                    *)
LEMMA SeenFollows ==
  ASSUME TypeOK, HeadsAgree, NEW u \in BOOLEAN, NEW t \in BOOLEAN, SeenAs(u, t),
         Alive, ~t, headFile.provider = provider => headFile.mode # "detected" /\ headFile.revision =< rev,
         rev' = rev, provider' = provider
  PROVE  headFile'.provider = provider => headFile'.mode # "detected" /\ headFile'.revision =< rev
<1>1. headFile = head /\ head \in Heads /\ rev \in Nat \ {0} /\ hold \in BOOLEAN
  BY BoundsAssumption DEF HeadsAgree, TypeOK
<1>2. CASE ~armed
  BY <1>1, <1>2 DEF SeenAs
<1>3. CASE armed
  <2>1. head.provider = provider /\ head.mode # "detected" /\ head.revision =< rev
    BY <1>1, <1>3 DEF HeadsAgree
  <2>2. ~WentBack(head, u, rev, t)
    BY <1>1, <2>1 DEF WentBack, Behind, Heads
  <2>3. headFile' = head' /\ head' = Observe(head, u, rev, hold, t)
    BY <1>1, <1>3 DEF SeenAs
  <2>4. head'.mode = ModeAfter(head, u, rev, hold, t)
        /\ head'.revision = RevisionAfter(head, u, rev, hold, t)
    BY <2>3 DEF Observe, HeadOf
  <2> QED
    BY <1>1, <2>1, <2>2, <2>3, <2>4 DEF ModeAfter, RevisionAfter, EndedBy, Further, Heads
<1> QED
  BY <1>2, <1>3

(* A ledger never restored stays ahead of what the agent holds of it.      *)
LEMMA LedgerStep ==
  TypeOK /\ HeadsAgree /\ LedgerFollowed /\ [Next]_vars => LedgerFollowed'
<1> SUFFICES ASSUME TypeOK, HeadsAgree, LedgerFollowed, [Next]_vars, ~wentBack'
             PROVE  LedgerFollowed'
  BY DEF LedgerFollowed
<1>1. CASE Quiet
  <2>1. CASE CoreMoves
    <3>1. ASSUME NEW w \in Wants, Edit(w), UNCHANGED <<disk, proc>> PROVE LedgerFollowed'
      BY <3>1, BoundsAssumption DEF Edit, LedgerFollowed, TypeOK, disk, proc, Heads
    <3>2. CASE RestoreLedger
      BY <3>2 DEF RestoreLedger
    <3>3. CASE (HoldProvider \/ EndHold \/ SwitchRestores \/ Session) /\ UNCHANGED <<disk, proc>>
      BY <3>3 DEF HoldProvider, EndHold, SwitchRestores, Session, Lapse, Takeover, Revoke,
                  LedgerFollowed, disk, proc
    <3> QED
      BY <2>1, <3>1, <3>2, <3>3 DEF CoreMoves
  <2>2. CASE ~CoreMoves
    <3>1. rev' = rev /\ want' = want /\ wentBack' = wentBack
      BY <1>1, <2>2 DEF Quiet, TakeoverLeaseEnds, Session, Lapse, Takeover, Revoke, Retire,
           WriteLeases, LeaseRunsOut, ShakeUnreachable, BootStarts, ViewAges, Finish,
           Heartbeat, KeepView, NotReread, Maintain, GuestFails, core
    <3> QED
      BY <1>1, <3>1, QuietStep DEF LedgerFollowed
  <2> QED
    BY <2>1, <2>2
<1>2. CASE Ends
  BY <1>2, BoundsAssumption
     DEF Ends, StopForGood, Crash, Terminate, Dies, Forgets, LedgerFollowed, core, disk,
         TypeOK, NoRevision
<1>3. CASE Start
  BY <1>3 DEF Start, LedgerFollowed, core, disk
<1>4. CASE Handshake \/ Rehandshake
  <2>1. /\ headFile' = Arm(headFile, holds, provider, OnDisk)
        /\ UNCHANGED <<rev, want, provider, wentBack, torn, heldRev, heldWant>>
    BY <1>4 DEF Handshake, Rehandshake, HeardHandshake, HeadsAgree, Alive, Loop
  <2>2. headFile'.provider = provider => headFile'.mode # "detected" /\ headFile'.revision =< rev
    BY <2>1, BoundsAssumption
       DEF Arm, Kept, Dropped, HeadOf, BitOf, LedgerFollowed, TypeOK, Heads
  <2> QED
    BY <2>1, <2>2 DEF LedgerFollowed
<1>5. CASE ReadView
  <2>1. /\ SeenAs(FALSE, torn /\ heldWant' = "Running") /\ Alive
        /\ UNCHANGED <<rev, want, provider, wentBack, torn>> /\ heldRev' = rev
    BY <1>5 DEF ReadView, Alive, core
  <2>2. heldWant' = want
    BY <1>5, <2>1 DEF ReadView, Unchanged, LedgerFollowed
  <2>3. ~(torn /\ heldWant' = "Running")
    BY <2>1, <2>2 DEF LedgerFollowed
  <2>4. headFile'.provider = provider => headFile'.mode # "detected" /\ headFile'.revision =< rev
    BY <2>1, <2>3, SeenFollows DEF LedgerFollowed
  <2> QED
    BY <2>1, <2>2, <2>4, BoundsAssumption DEF LedgerFollowed, TypeOK
<1>6. CASE Reread
  <2>1. /\ SeenAs(Unchanged, FALSE) /\ Alive /\ Unchanged \in BOOLEAN
        /\ UNCHANGED <<rev, want, provider, wentBack>>
    BY <1>6 DEF Reread, Alive, core, Unchanged
  <2>2. headFile'.provider = provider => headFile'.mode # "detected" /\ headFile'.revision =< rev
    BY <2>1, SeenFollows DEF LedgerFollowed
  <2>3. FreshWant = want
    BY <2>1 DEF FreshWant, Unchanged, LedgerFollowed
  <2>4. torn' => want = "Absent"
    BY <1>6, <2>1, <2>3 DEF Reread, StillAgreed, Perform, Nothing, LedgerFollowed
  <2>5. heldRev' =< rev /\ (heldRev' = rev => heldWant' = want)
    <3>1. CASE Agreed
      BY <1>6, <2>3, <3>1, BoundsAssumption DEF Reread, TypeOK
    <3>2. CASE ~Agreed
      BY <1>6, <2>1, <3>2 DEF Reread, LedgerFollowed
    <3> QED
      BY <3>1, <3>2
  <2> QED
    BY <2>1, <2>2, <2>4, <2>5 DEF LedgerFollowed
<1>7. CASE FileLost
  BY <1>7, ProvidersAssumption
     DEF FileLost, LedgerFollowed, TypeOK, core, proc, UnreadableHead, HeadOf
<1>8. ASSUME NEW p \in Providers, Enrol(p) PROVE LedgerFollowed'
  <2>1. headFile'.provider # provider'
    BY <1>8, ProvidersAssumption DEF Enrol, HeadsAgree
  <2>2. heldRev' = 0 /\ rev' = 1 /\ ~torn'
    BY <1>8 DEF Enrol, HeadsAgree, Alive, NoRevision
  <2> QED
    BY <2>1, <2>2 DEF LedgerFollowed
<1>9. CASE UNCHANGED vars
  BY <1>9 DEF vars, core, disk, proc, LedgerFollowed
<1> QED
  BY <1>1, <1>2, <1>3, <1>4, <1>5, <1>6, <1>7, <1>8, <1>9, StepCases

(* The same invariant carries the type, the heads and the ledger.          *)
FollowInv == TypeOK /\ HeadsAgree /\ LedgerFollowed

(* The invariant holds before anything happened.                           *)
LEMMA FollowInit == Init => FollowInv
<1> SUFFICES ASSUME Init PROVE FollowInv
  OBVIOUS
<1>1. TypeOK
  BY TypeInit
<1>2. HeadsAgree
  BY ProvidersAssumption DEF Init, HeadsAgree, Alive, NoHead, HeadOf
<1>3. LedgerFollowed
  BY ProvidersAssumption, BoundsAssumption DEF Init, LedgerFollowed, NoHead, HeadOf, NoRevision
<1> QED
  BY <1>1, <1>2, <1>3 DEF FollowInv

(* An agent reads a restore only into a ledger that went back, or into     *)
(* Core's own word.                                                        *)
THEOREM NoFalseAlarms == Spec => []NoFalseAlarm
<1>1. FollowInv /\ [Next]_vars => FollowInv'
  BY TypeStep, HeadsAgreeStep, LedgerStep DEF FollowInv
<1>2. FollowInv => NoFalseAlarm
  BY DEF FollowInv, HeadsAgree, LedgerFollowed, NoFalseAlarm, Alive, TypeOK
<1> QED
  BY FollowInit, <1>1, <1>2, PTL DEF Spec

-----------------------------------------------------------------------------
(* A lease that was on disk and ran out.  It is still there as run out, and*)
(* in the book of a living agent; or the file was lost, and no living agent*)
(* is past its start; or no view in hand or on disk would start a machine. *)
NoViewToStart ==
  viewFile # "Running" /\ (pc = "keep" => heldWant = "Absent")
OutIsKnown ==
  /\ pc = "acts" => viewFile \in {heldWant, "none"}
  /\ Alive /\ leaseFile = "runs" /\ lease = "none" => NoViewToStart
  /\ Alive /\ leaseFile = "lost" /\ pc # "retire" => ~outKnown \/ NoViewToStart
  /\ pc = "retire" => leaseFile = "lost"
  /\ outKnown => \/ leaseFile = "out" /\ (Alive => lease = "out")
                 \/ leaseFile = "lost" /\ pc \in {"dead", "stopped", "retire"}
                 \/ NoViewToStart

(* What is known of a lease that ran out stays known.                      *)
LEMMA OutStep == TypeOK /\ OutIsKnown /\ [Next]_vars => OutIsKnown'
<1> SUFFICES ASSUME TypeOK, OutIsKnown, [Next]_vars PROVE OutIsKnown'
  OBVIOUS
<1>0. /\ TypeDisk /\ TypeProc /\ outKnown \in BOOLEAN /\ want \in Wants
  BY TypeParts DEF TypeRest, TypeCore
<1> USE <1>0 DEF OutIsKnown, NoViewToStart, Alive
<1>1. CASE CoreMoves \/ TakeoverLeaseEnds
  BY <1>1 DEF CoreMoves, TakeoverLeaseEnds, disk, proc, hist
<1>2. CASE Retire
  BY <1>2 DEF Retire, Retired
<1>3. CASE WriteLeases
  BY <1>3 DEF WriteLeases, proc, hist
<1>4. CASE LeaseRunsOut
  BY <1>4 DEF LeaseRunsOut, RunsOut, TypeDisk, TypeProc, Leases
<1>5. CASE \/ ShakeUnreachable \/ BootStarts \/ Finish \/ Heartbeat \/ NotReread
           \/ Maintain \/ GuestFails
  BY <1>5 DEF ShakeUnreachable, BootStarts, Finish, Heartbeat, NotReread, Maintain,
              GuestFails, disk, proc, hist
<1>6. CASE ViewAges
  BY <1>6 DEF ViewAges, proc, hist
<1>7. CASE KeepView
  BY <1>7 DEF KeepView, hist, TypeProc, Wants
<1>8. CASE Ends
  BY <1>8 DEF Ends, StopForGood, Crash, Terminate, Dies, disk, hist
<1>9. CASE Start
  BY <1>9 DEF Start, disk, hist
<1>10. CASE Handshake \/ Rehandshake
  BY <1>10 DEF Handshake, Rehandshake, HeardHandshake, Loop
<1>11. CASE ReadView
  <2>1. /\ pc = "idle" /\ pc' \in {"idle", "keep"} /\ UNCHANGED <<viewFile, leaseFile>>
        /\ ~outKnown'
    BY <1>11 DEF ReadView
  <2>2. heldWant' \in Wants
    BY <1>11 DEF ReadView, TypeProc
  <2>3. lease' = "none" => lease = "none" /\ heldWant' # "Running"
    BY <1>11 DEF ReadView
  <2> QED
    BY <2>1, <2>2, <2>3 DEF Wants
<1>12. CASE Reread
  <2>1. /\ pc = "acts" /\ pc' = "idle" /\ UNCHANGED <<viewFile, leaseFile, outKnown>>
        /\ lease' = lease \/ (lease' = "none" /\ heldWant = "Absent")
    BY <1>12 DEF Reread, StillAgreed, Perform, Nothing
  <2> QED
    BY <2>1
<1>13. CASE FileLost
  BY <1>13 DEF FileLost, proc, hist
<1>14. ASSUME NEW p \in Providers, Enrol(p) PROVE OutIsKnown'
  BY <1>14 DEF Enrol
<1>15. CASE UNCHANGED vars
  BY <1>15 DEF vars, disk, proc, hist
<1> QED
  BY <1>1, <1>2, <1>3, <1>4, <1>5, <1>6, <1>7, <1>8, <1>9, <1>10, <1>11, <1>12, <1>13,
     <1>14, <1>15, StepCases DEF Quiet

(* A boot pass begins in a handshake that finds Core unreachable.          *)
LEMMA OnlyUnreachableStarts ==
  ASSUME [Next]_vars, boot = "idle", boot' = "starting"
  PROVE  ShakeUnreachable
<1>1. CASE Quiet
  <2>1. CASE CoreMoves \/ TakeoverLeaseEnds
    BY <2>1 DEF CoreMoves, TakeoverLeaseEnds, proc
  <2>2. CASE Retire \/ WriteLeases \/ LeaseRunsOut \/ BootStarts \/ ViewAges \/ Finish
    BY <2>2 DEF Retire, WriteLeases, LeaseRunsOut, BootStarts, ViewAges, Finish, proc
  <2>3. CASE Heartbeat \/ KeepView \/ NotReread \/ Maintain \/ GuestFails
    BY <2>3 DEF Heartbeat, KeepView, NotReread, Maintain, GuestFails, proc
  <2> QED
    BY <1>1, <2>1, <2>2, <2>3 DEF Quiet
<1>2. CASE Ends
  BY <1>2 DEF Ends, StopForGood, Crash, Terminate, Dies, Forgets
<1>3. CASE Start \/ Handshake \/ Rehandshake \/ ReadView \/ Reread \/ FileLost
  BY <1>3 DEF Start, Handshake, Rehandshake, ReadView, Reread, FileLost, proc
<1>4. ASSUME NEW p \in Providers, Enrol(p) PROVE FALSE
  BY <1>4 DEF Enrol
<1> QED
  BY <1>1, <1>2, <1>3, <1>4, StepCases DEF vars, proc

(* No boot pass begins over a lease that was on disk and ran out, not even *)
(* two starts after its file was lost (heldview::retire).                  *)
THEOREM OutIsNotStarted == Spec => LostLeasesStartNothing
<1> DEFINE Inv == TypeOK /\ OutIsKnown
<1>1. Init => Inv
  BY TypeInit DEF Init, OutIsKnown, NoViewToStart, Alive
<1>2. Inv /\ [Next]_vars => Inv'
  BY TypeStep, OutStep
<1>3. Inv /\ [Next]_vars => [boot = "idle" /\ boot' = "starting" => ~outKnown]_vars
  <2> SUFFICES ASSUME Inv, [Next]_vars, boot = "idle", boot' = "starting" PROVE ~outKnown
    OBVIOUS
  <2>1. ShakeUnreachable
    BY OnlyUnreachableStarts
  <2> QED
    BY <2>1 DEF ShakeUnreachable, BootMayStart, OutIsKnown, NoViewToStart, Alive
<1> QED
  BY <1>1, <1>2, <1>3, PTL DEF Spec, LostLeasesStartNothing

-----------------------------------------------------------------------------
(* Restore mode, on the head and in RestoreGate's eyes.  The head of the   *)
(* provider the agent is enrolled as says what the gate says, and a head of*)
(* another says nothing yet.  The kept bit lets a start act only if the    *)
(* Core last shaken hands with binds nothing.                              *)
GateOf(mode) == IF mode = "none" THEN "free" ELSE IF mode = "detected" THEN "seen" ELSE "named"
GateFollowed ==
  /\ headFile.provider = provider => gate = GateOf(headFile.mode) /\ acted = headFile.revision
  /\ headFile.provider # provider => gate = "free" /\ acted = 0
  /\ gate # "free" /\ binding => headFile.armed # "no"
  /\ pc \in Loop => binding = armed
  /\ boot = "starting" => gate = "free" \/ ~binding

(* An armed answer moves the gate as it moves the head.                    *)
LEMMA SeenGate ==
  ASSUME TypeOK, HeadsAgree, GateFollowed, Alive, NEW u \in BOOLEAN, NEW t \in BOOLEAN,
         SeenAs(u, t), provider' = provider
  PROVE  /\ headFile'.provider = provider => gate' = GateOf(headFile'.mode) /\ acted' = headFile'.revision
         /\ headFile'.provider # provider => gate' = "free" /\ acted' = 0
         /\ headFile'.armed = headFile.armed
         /\ ~armed => gate' = gate
<1>1. headFile = head /\ head \in Heads /\ rev \in Nat \ {0} /\ hold \in BOOLEAN
  BY BoundsAssumption DEF HeadsAgree, TypeOK
<1>2. CASE ~armed
  BY <1>1, <1>2 DEF SeenAs, GateAfter, ActedAfter, GateFollowed
<1>3. CASE armed
  <2>1. head.provider = provider /\ gate = GateOf(head.mode) /\ acted = head.revision
    BY <1>1, <1>3 DEF HeadsAgree, GateFollowed
  <2>2. head.mode \in Modes /\ head.revision \in Nat
    BY <1>1 DEF Heads
  <2>3. /\ headFile' = head' /\ head'.provider = provider /\ head'.armed = head.armed
        /\ head'.mode = ModeAfter(head, u, rev, hold, t)
        /\ head'.revision = RevisionAfter(head, u, rev, hold, t)
    BY <1>1, <1>3, <2>1 DEF SeenAs, Observe, HeadOf
  <2>4. gate' = GateAfter(u, t) /\ acted' = ActedAfter(u, t)
    BY DEF SeenAs
  <2>5. gate' = GateOf(head'.mode)
    BY <1>1, <1>3, <2>1, <2>2, <2>3, <2>4
       DEF GateOf, GateAfter, ModeAfter, EndedBy, WentBack, Behind, Modes
  <2>6. acted' = head'.revision
    BY <1>1, <1>3, <2>1, <2>2, <2>3, <2>4
       DEF GateOf, GateAfter, ActedAfter, RevisionAfter, EndedBy, WentBack, Behind, Further, Modes
  <2> QED
    BY <1>1, <1>3, <2>3, <2>5, <2>6
<1> QED
  BY <1>2, <1>3

(* A handshake moves no gate.                                              *)
LEMMA ArmGate ==
  ASSUME TypeOK, HeadsAgree, GateFollowed, Handshake \/ Rehandshake
  PROVE  /\ headFile'.provider = provider => gate = GateOf(headFile'.mode) /\ acted = headFile'.revision
         /\ headFile'.provider # provider => gate = "free" /\ acted = 0
         /\ holds => headFile'.armed # "no"
<1>1. headFile' = Arm(headFile, holds, provider, OnDisk)
  BY DEF Handshake, Rehandshake, HeardHandshake, HeadsAgree, Alive, Loop
<1>2. headFile \in Heads
  BY DEF TypeOK
<1> QED
  BY <1>1, <1>2 DEF Arm, Kept, Dropped, HeadOf, BitOf, GateFollowed, GateOf, Heads

(* A boot pass begins only where the gate is free, or nothing binds.       *)
LEMMA BootIsFree ==
  ASSUME TypeOK, HeadsAgree, GateFollowed, ShakeUnreachable
  PROVE  gate = "free" \/ ~binding
BY DEF ShakeUnreachable, BootMayStart, HeldAtBoot, HeadsAgree, GateFollowed, GateOf, Alive

(* The head goes on saying what the gate says.                             *)
LEMMA GateStep ==
  ~HeadsTear /\ TypeOK /\ HeadsAgree /\ BootNeverRacesTheLoop /\ GateFollowed /\ [Next]_vars
    => GateFollowed'
<1> SUFFICES ASSUME ~HeadsTear, TypeOK, HeadsAgree, BootNeverRacesTheLoop, GateFollowed,
                    [Next]_vars
             PROVE  GateFollowed'
  OBVIOUS
<1>1. CASE Quiet
  <2>1. UNCHANGED <<headFile, provider, gate, acted, armed>>
    BY <1>1, QuietStep
  <2>2. CASE Finish
    BY <2>1, <2>2 DEF Finish, BootFinished, GateFollowed, HeadsAgree, Alive
  <2>3. CASE ShakeUnreachable
    BY <2>1, <2>3, BootIsFree DEF ShakeUnreachable, GateFollowed, hist, Loop
  <2>4. CASE ~Finish /\ ~ShakeUnreachable
    <3>1. binding' = binding
      BY <1>1, <2>4, QuietStep
    <3>2. CASE CoreMoves \/ TakeoverLeaseEnds
      BY <2>1, <3>1, <3>2 DEF CoreMoves, TakeoverLeaseEnds, proc, GateFollowed
    <3>3. CASE Retire \/ WriteLeases \/ LeaseRunsOut \/ BootStarts \/ ViewAges
      BY <2>1, <3>1, <3>3
         DEF Retire, WriteLeases, LeaseRunsOut, BootStarts, ViewAges, proc, GateFollowed, Loop
    <3>4. CASE Heartbeat \/ KeepView \/ NotReread \/ Maintain \/ GuestFails
      BY <2>1, <3>1, <3>4
         DEF Heartbeat, KeepView, NotReread, Maintain, GuestFails, proc, GateFollowed, Loop
    <3> QED
      BY <1>1, <2>4, <3>2, <3>3, <3>4 DEF Quiet
  <2> QED
    BY <2>2, <2>3, <2>4
<1>2. CASE Ends
  BY <1>2 DEF Ends, StopForGood, Crash, Terminate, Dies, Forgets, GateFollowed, core, disk,
              hist, Loop
<1>3. CASE Start
  BY <1>3 DEF Start, GateFollowed, core, disk, hist, Loop
<1>4. CASE Handshake
  <2>1. /\ UNCHANGED <<provider, gate, acted, boot>> /\ binding' = (binding /\ holds)
        /\ pc' = "joined"
    BY <1>4 DEF Handshake
  <2> QED
    BY <1>4, <2>1, ArmGate DEF GateFollowed, Loop
<1>5. CASE Rehandshake
  <2>1. /\ UNCHANGED <<provider, gate, acted, boot, pc>> /\ pc \in Loop /\ binding' = holds
        /\ armed' = holds
    BY <1>5 DEF Rehandshake, HeardHandshake
  <2>2. boot # "starting"
    BY <2>1 DEF BootNeverRacesTheLoop, Loop
  <2> QED
    BY <1>5, <2>1, <2>2, ArmGate DEF GateFollowed
<1>6. CASE ReadView \/ Reread
  <2>1. /\ Alive /\ UNCHANGED <<provider, binding, boot, armed>> /\ pc \in Loop /\ pc' \in Loop
    BY <1>6 DEF ReadView, Reread, Alive, Loop, core
  <2>2. PICK u \in BOOLEAN, t \in BOOLEAN : SeenAs(u, t)
    BY <1>6 DEF ReadView, Reread, Unchanged
  <2>3. /\ headFile'.provider = provider => gate' = GateOf(headFile'.mode) /\ acted' = headFile'.revision
        /\ headFile'.provider # provider => gate' = "free" /\ acted' = 0
        /\ headFile'.armed = headFile.armed /\ (~armed => gate' = gate)
    BY <2>1, <2>2, SeenGate
  <2>4. boot # "starting"
    BY <2>1 DEF BootNeverRacesTheLoop, Loop
  <2>5. binding => armed /\ headFile.armed = "yes"
    BY <2>1 DEF GateFollowed, HeadsAgree
  <2> QED
    BY <2>1, <2>3, <2>4, <2>5 DEF GateFollowed
<1>7. CASE FileLost
  BY <1>7 DEF FileLost, GateFollowed, core, proc, hist
<1>8. ASSUME NEW p \in Providers, Enrol(p) PROVE GateFollowed'
  <2>1. headFile'.provider # provider'
    BY <1>8, ProvidersAssumption DEF Enrol, HeadsAgree
  <2>2. /\ gate' = "free" /\ acted' = 0 /\ pc' = "dead" /\ binding' = FALSE
    BY <1>8 DEF Enrol
  <2> QED
    BY <2>1, <2>2 DEF GateFollowed, Loop
<1>9. CASE UNCHANGED vars
  BY <1>9 DEF vars, core, disk, proc, hist, GateFollowed
<1> QED
  BY <1>1, <1>2, <1>3, <1>4, <1>5, <1>6, <1>7, <1>8, <1>9, StepCases

(* Every step is one of the gate's, or nothing to it.                      *)
LEMMA StepIsGates ==
  ASSUME TypeOK, HeadsAgree, GateFollowed, GateFollowed', [Next]_vars
  PROVE  [Gate!Next]_(Gate!vars)
<1> USE DEF Gate!Next, Gate!vars
<1>1. CASE Quiet
  <2>1. gate' = gate
    BY <1>1, QuietStep
  <2>2. CASE Finish
    BY <2>1, <2>2 DEF Finish, Gate!Handshake, TypeOK
  <2>3. CASE BootStarts
    <3>1. gate = "free" \/ ~binding
      BY <2>3 DEF BootStarts, GateFollowed
    <3> QED
      BY <2>1, <2>3, <3>1 DEF BootStarts, Gate!Act, hist
  <2>4. CASE Maintain
    <3>1. gate = "free" \/ ~binding
      BY <2>4 DEF Maintain, Active, GateFollowed, HeadsAgree, GateOf, Alive, Loop
    <3> QED
      BY <2>1, <2>4, <3>1 DEF Maintain, Gate!Act, hist
  <2>5. CASE LeaseRunsOut \/ GuestFails
    BY <2>1, <2>5 DEF LeaseRunsOut, GuestFails, Gate!GuestFails, hist
  <2>6. CASE CoreMoves \/ TakeoverLeaseEnds \/ Retire \/ WriteLeases \/ ShakeUnreachable
    BY <2>6 DEF CoreMoves, TakeoverLeaseEnds, Retire, WriteLeases, ShakeUnreachable, hist
  <2>7. CASE ViewAges \/ Heartbeat \/ KeepView \/ NotReread
    BY <2>7 DEF ViewAges, Heartbeat, KeepView, NotReread, hist
  <2> QED
    BY <1>1, <2>2, <2>3, <2>4, <2>5, <2>6, <2>7 DEF Quiet
<1>2. CASE Ends \/ Start \/ FileLost
  BY <1>2 DEF Ends, StopForGood, Crash, Terminate, Start, FileLost, hist
<1>3. CASE Handshake \/ Rehandshake
  <2>1. binding' \in BOOLEAN /\ UNCHANGED <<gate, guest>>
    BY <1>3 DEF Handshake, Rehandshake, TypeOK
  <2> QED
    BY <2>1 DEF Gate!Handshake
<1>4. CASE ReadView \/ Reread
  <2>1. PICK u \in BOOLEAN, t \in BOOLEAN : SeenAs(u, t)
    BY <1>4 DEF ReadView, Reread, Unchanged
  <2>2. gate' = gate \/ (gate = "free" /\ gate' = "seen") \/ gate' = "named"
        \/ (gate = "named" /\ gate' = "free")
    BY <2>1 DEF SeenAs, GateAfter
  <2>3. binding' = binding
    BY <1>4 DEF ReadView, Reread
  <2>4. CASE guest' = guest
    BY <2>2, <2>3, <2>4 DEF Gate!Notice, Gate!Named, Gate!End
  <2>5. CASE guest' # guest
    <3>1. Reread /\ ~Active(armed, head') /\ armed' = armed /\ Alive' /\ provider' = provider
      BY <1>4, <2>5 DEF ReadView, Reread, Agreed, Nothing, Alive, core
    <3>2. gate' = "free" \/ ~binding
      <4>1. CASE armed
        <5>1. head'.mode = "none" /\ headFile' = head'
          BY <3>1, <4>1, <2>1, SeenKeepsOwner DEF Active, HeadsAgree, Reread, Alive
        <5>2. headFile'.provider = provider'
          BY <3>1, <4>1, <5>1, <2>1, SeenKeepsOwner DEF HeadsAgree, Reread, Alive
        <5> QED
          BY <5>1, <5>2 DEF GateFollowed, GateOf
      <4>2. CASE ~armed
        BY <3>1, <4>2 DEF Reread, GateFollowed, Loop
      <4> QED
        BY <4>1, <4>2
    <3>3. gate' = gate \/ (gate = "named" /\ gate' = "free")
      BY <2>2, <3>2, <3>1, <2>1 DEF SeenAs, GateAfter, GateFollowed, Reread, Loop
    <3> QED
      BY <2>3, <2>5, <3>2, <3>3 DEF Gate!Act
  <2> QED
    BY <2>4, <2>5
<1>5. ASSUME NEW p \in Providers, Enrol(p) PROVE Gate!Enrol
  BY <1>5 DEF Enrol, Gate!Enrol
<1>6. CASE UNCHANGED vars
  BY <1>6 DEF vars, hist
<1> QED
  BY <1>1, <1>2, <1>3, <1>4, <1>5, <1>6, StepCases

(* CoreLink implements RestoreGate while no head is found unreadable: from *)
(* the answer that shows Core's ledger went back until Core itself ends the*)
(* restore no act is made on a guest, through deaths, lapsed sessions,     *)
(* files lost and enrolments (restore.rs 177-253).                         *)
THEOREM ImplementsGate == ~HeadsTear /\ Spec => NoActInARestore
<1> DEFINE Inv == TypeOK /\ HeadsAgree /\ BootNeverRacesTheLoop /\ GateFollowed
<1> SUFFICES ASSUME ~HeadsTear PROVE Spec => NoActInARestore
  OBVIOUS
<1>1. Init => Inv
  BY FollowInit, ProvidersAssumption, BoundsAssumption
     DEF FollowInv, Init, BootNeverRacesTheLoop, GateFollowed, NoHead, HeadOf, Loop
<1>2. Inv /\ [Next]_vars => Inv'
  BY TypeStep, HeadsAgreeStep, BootStep, GateStep
<1>3. Inv /\ Inv' /\ [Next]_vars => [Gate!Next]_(Gate!vars)
  BY StepIsGates
<1>4. Init => Gate!Init
  BY DEF Init, Gate!Init
<1> QED
  BY <1>1, <1>2, <1>3, <1>4, PTL DEF Spec, NoActInARestore, Gate!Spec
=============================================================================
