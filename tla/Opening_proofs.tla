--------------------------- MODULE Opening_proofs ---------------------------
(***************************************************************************)
(* What holds of the provider opening for every set of machines, every     *)
(* range of ports and every bound: its type, and that no two machines that *)
(* stand name one port.                                                    *)
(***************************************************************************)
EXTENDS Opening, TLAPS, WellFoundedInduction

-----------------------------------------------------------------------------
(* The lowest of some ports is one of them.                                 *)

Below == OpToRel(<, Nat)

LEMMA LowestIsOne == ASSUME NEW s \in SUBSET Nat, s # {} PROVE Lowest(s) \in s
<1>1. IsWellFoundedOn(Below, Nat)
  BY NatLessThanWellFounded DEF Below
<1>2. PICK p \in s : \A q \in s : <<q, p>> \notin Below
  BY <1>1, WFMin
<1>3. \A q \in s : ~(q < p)
  BY <1>2 DEF Below, OpToRel
<1>4. \A q \in s : p =< q
  BY <1>3
<1> QED BY <1>4 DEF Lowest

-----------------------------------------------------------------------------
(* Every variable has its type.                                             *)

LEMMA InitType == OpeningAssumption /\ Init => TypeOK
  BY DEF OpeningAssumption, Init, TypeOK, NoBook, Books, Ports, Off, Wishes

\* A settle, a sighting and a port given keep the book a book.
LEMMA SettledType == ASSUME NEW b \in Books, NEW range PROVE Settled(b, range) \in Books
  BY DEF Books, Settled

LEMMA SightedType ==
  ASSUME OpeningAssumption, book \in Books, NEW seen \in SUBSET Held PROVE Sighted(seen) \in Books
<1> SUFFICES ASSUME NEW m \in seen PROVE [port |-> book[m].port, seen |-> TRUE] \in Slots
  BY DEF Books, Sighted
<1>1. book[m] \in Slots
  BY DEF Held, Books
<1> QED BY <1>1 DEF Slots

\* A sighting moves no port.
LEMMA SightedKeeps ==
  ASSUME OpeningAssumption, book \in Books, NEW seen \in SUBSET Held, NEW m \in Machines
  PROVE  /\ Sighted(seen)[m] # Nobody <=> book[m] # Nobody
         /\ book[m] # Nobody => Sighted(seen)[m].port = book[m].port
<1>1. [port |-> book[m].port, seen |-> TRUE] # Nobody \/ m \notin seen
  <2>1. m \in seen => book[m] \in Slots
    BY DEF Held, Books
  <2>2. m \in seen => [port |-> book[m].port, seen |-> TRUE] \in Slots
    BY <2>1 DEF Slots
  <2> QED BY <2>2 DEF OpeningAssumption
<1> QED BY <1>1 DEF Sighted, Held

LEMMA GivenType ==
  ASSUME OpeningAssumption, on \in SUBSET Ports, book \in Books, Free # {}, NEW m \in Machines
  PROVE  /\ Lowest(Free) \in Free /\ Lowest(Free) \in Ports
         /\ [book EXCEPT ![m] = Given(Lowest(Free))] \in Books
<1>1. Free \in SUBSET Nat /\ Free \subseteq Ports
  <2>1. ASSUME NEW p \in Free PROVE p \in Nat /\ p \in Ports
    BY DEF Free, Ports, OpeningAssumption
  <2> QED BY <2>1
<1>2. Lowest(Free) \in Free
  BY <1>1, LowestIsOne
<1>3. Given(Lowest(Free)) \in Slots
  BY <1>1, <1>2 DEF Given, Slots
<1> QED BY <1>1, <1>2, <1>3 DEF Books

LEMMA PersistType ==
  ASSUME OpeningAssumption, TypeOK, NEW b \in Books, Persist(b)
  PROVE  json' \in {json, b} /\ json' \in Books /\ woken' \in BOOLEAN /\ badWrites' \in 0 .. MaxWriteFaults
<1>1. PICK ok \in BOOLEAN :
        /\ ok \/ badWrites < MaxWriteFaults
        /\ badWrites' = IF ok THEN badWrites ELSE badWrites + 1
        /\ json' = IF ok THEN b ELSE json
        /\ woken' = (woken \/ json' # json)
  BY DEF Persist
<1>2. badWrites \in 0 .. MaxWriteFaults /\ MaxWriteFaults \in Nat /\ json \in Books
  BY DEF OpeningAssumption, TypeOK
<1>3. badWrites' \in 0 .. MaxWriteFaults
  BY <1>1, <1>2
<1>4. woken' \in BOOLEAN
  BY <1>1 DEF TypeOK
<1> QED BY <1>1, <1>2, <1>3, <1>4

\* The agent's own variables, over a step of a pass.
LEMMA CreateType ==
  ASSUME OpeningAssumption, TypeOK, NEW m \in Machines, Create(m) PROVE TypeOK'
<1>1. CASE Allocate(m)
  <2>1. book' \in Books
    BY <1>1, GivenType DEF Allocate, TypeOK
  <2>2. json' \in Books /\ woken' \in BOOLEAN /\ badWrites' \in 0 .. MaxWriteFaults
    BY <1>1, <2>1, PersistType DEF Allocate
  <2> QED BY <1>1, <2>1, <2>2 DEF Allocate, Create, TypeOK, outside
<1>2. CASE AllocateNone(m)
  BY <1>2 DEF AllocateNone, NotWritten, Create, TypeOK, outside, file
<1> QED BY <1>1, <1>2 DEF Create

LEMMA NextType == OpeningAssumption /\ TypeOK /\ [Next]_openingVars => TypeOK'
<1> SUFFICES ASSUME OpeningAssumption, TypeOK, [Next]_openingVars PROVE TypeOK'
  OBVIOUS
<1>1. CASE UNCHANGED openingVars
  BY <1>1 DEF openingVars, TypeOK, outside, agentBook, file, openPass
<1>2. CASE Start
  <2>1. book' \in Books
    BY <1>2, SettledType DEF Start, TypeOK
  <2>2. json' \in Books /\ woken' \in BOOLEAN /\ badWrites' \in 0 .. MaxWriteFaults
    BY <1>2, <2>1, PersistType DEF Start
  <2> QED BY <1>2, <2>1, <2>2 DEF Start, TypeOK, outside
<1>3. CASE Begin
  BY <1>3 DEF OpeningAssumption, Begin, Stop, TypeOK, Standing, Held, outside, agentBook, file
<1>4. CASE Made
  <2>1. Names(making) \in Ports \cup {Unopened}
    BY <1>4 DEF Made, Names, TypeOK, Books, Slots, Unopened
  <2> QED BY <1>4, <2>1 DEF Made, TypeOK, outside, agentBook, file
<1>5. CASE Observe
  <2>1. book' \in Books
    BY <1>5, SightedType DEF Observe, TypeOK
  <2>2. json' \in Books /\ woken' \in BOOLEAN /\ badWrites' \in 0 .. MaxWriteFaults
    BY <1>5, <2>1, PersistType DEF Observe, NotWritten, file, TypeOK
  <2> QED BY <1>5, <2>1, <2>2 DEF Observe, TypeOK, outside
<1>6. CASE Sweep
  <2>1. book' \in Books
    BY <1>6 DEF Sweep, TypeOK, Books
  <2>2. json' \in Books /\ woken' \in BOOLEAN /\ badWrites' \in 0 .. MaxWriteFaults
    BY <1>6, <2>1, PersistType DEF Sweep, NotWritten, file, TypeOK
  <2> QED BY <1>6, <2>1, <2>2 DEF Sweep, TypeOK, outside
<1>7. ASSUME NEW m \in Machines, Delete(m) PROVE TypeOK'
  <2>1. book' \in Books
    BY <1>7 DEF Delete, Release, TypeOK, Books
  <2>2. json' \in Books /\ woken' \in BOOLEAN /\ badWrites' \in 0 .. MaxWriteFaults
    BY <1>7, <2>1, PersistType DEF Delete, Release, NotWritten, file, TypeOK
  <2> QED BY <1>7, <2>1, <2>2 DEF Delete, TypeOK, outside
<1>8. ASSUME NEW m \in Machines, Passed(m) PROVE TypeOK'
  BY <1>8 DEF Passed, TypeOK, outside, agentBook, file
<1>9. CASE Applier
  <2>1. table' \in SUBSET Machines /\ woken' \in BOOLEAN
    BY <1>9 DEF Applier, Loaded, Translated, Fallback, Removed, TypeOK
  <2>2. badWrites' \in 0 .. MaxWriteFaults /\ stops' \in 0 .. MaxStops
    BY <1>9 DEF Applier, Fallback, Removed, Stop, OpeningAssumption, TypeOK
  <2> QED BY <1>9, <2>1, <2>2 DEF Applier, TypeOK, outside, agentBook, openPass
<1>10. CASE Configure \/ Dies
  <2>1. stops' \in 0 .. MaxStops
    BY <1>10 DEF Configure, Dies, Ends, Stop, OpeningAssumption, TypeOK
  <2>2. yaml' \in SUBSET Ports
    <3>1. (1 .. MaxPort - 1) \subseteq Ports
      BY DEF OpeningAssumption, Ports
    <3> QED BY <1>10, <3>1 DEF Configure, Dies, Ranges, TypeOK, Off
  <2>3. woken' \in BOOLEAN /\ table' \in SUBSET Machines
    BY <1>10 DEF Configure, Dies, TypeOK
  <2>4. book' \in Books /\ on' \in SUBSET Ports
    BY <1>10 DEF Configure, Dies, Ends, NoBook, Books, Off
  <2> QED BY <1>10, <2>1, <2>2, <2>3, <2>4 DEF Configure, Dies, Ends, TypeOK
<1>11. ASSUME NEW m \in Machines, Wish(m) PROVE TypeOK'
  BY <1>11 DEF Wish, Wishes, TypeOK, agentBook, file, openPass
<1> QED
  BY <1>1, <1>2, <1>3, <1>4, <1>5, <1>6, <1>7, <1>8, <1>9, <1>10, <1>11, CreateType DEF Next, Agent

\* Every variable has its type.
THEOREM TypeCorrect == OpeningAssumption => (Spec => []TypeOK)
<1>1. OpeningAssumption => OpeningAssumption'
  BY DEF OpeningAssumption
<1> QED BY <1>1, InitType, NextType, PTL DEF Spec

-----------------------------------------------------------------------------
(* The book names every machine that stands.                                *)

\* No port is given twice, in memory or on disk.
OneEach(b) ==
  \A m, n \in Machines : b[m] # Nobody /\ b[n] # Nobody /\ b[m].port = b[n].port => m = n

\* What a pass makes it was asked for; and what its sweep must keep, a machine
\* that stands, it was asked for or listed.
PassKnows ==
  /\ making # Nobody => round = "turns" /\ making \in asked
  /\ round \in {"turns", "sweep"} /\ listed # {Nobody} => Standing \subseteq asked \cup listed

\* The port a machine names is its own in the file, and in the book of an agent
\* that runs.
HasIts(b, m) == b[m] # Nobody /\ b[m].port = built[m]
BookNames ==
  \A m \in Standing \ lapsed : built[m] \in Ports => HasIts(json, m) /\ (round # "down" => HasIts(book, m))

BookIsTrue == OneEach(book) /\ OneEach(json) /\ PassKnows /\ BookNames

LEMMA BookInit == OpeningAssumption /\ Init => BookIsTrue
  BY DEF Init, BookIsTrue, OneEach, PassKnows, BookNames, NoBook, Standing

LEMMA OneEachStep ==
  OpeningAssumption /\ TypeOK /\ OneEach(book) /\ OneEach(json) /\ [Next]_openingVars
    => OneEach(book)' /\ OneEach(json)'
<1> SUFFICES ASSUME OpeningAssumption, TypeOK, OneEach(book), OneEach(json), [Next]_openingVars
             PROVE  OneEach(book') /\ OneEach(json')
  BY DEF OneEach
<1>1. ASSUME OneEach(book'), json' \in {json, book'} PROVE OneEach(book') /\ OneEach(json')
  BY <1>1
<1>2. ASSUME NEW b, Persist(b) PROVE json' \in {json, b}
  BY <1>2 DEF Persist
<1>3. CASE Start
  <2>1. OneEach(book')
    BY <1>3 DEF Start, OneEach, Settled
  <2> QED BY <1>1, <1>2, <1>3, <2>1 DEF Start
<1>4. CASE Observe
  <2>1. OneEach(book')
    <3>1. \A m \in Machines : /\ book'[m] # Nobody <=> book[m] # Nobody
                              /\ book[m] # Nobody => book'[m].port = book[m].port
      BY <1>4, SightedKeeps DEF Observe, TypeOK
    <3> QED BY <3>1 DEF OneEach
  <2> QED BY <1>1, <1>2, <1>4, <2>1 DEF Observe, NotWritten, file
<1>5. CASE Sweep
  <2>1. OneEach(book')
    BY <1>5 DEF Sweep, OneEach
  <2> QED BY <1>1, <1>2, <1>5, <2>1 DEF Sweep, NotWritten, file
<1>6. ASSUME NEW m \in Machines, Delete(m) PROVE OneEach(book') /\ OneEach(json')
  <2>1. OneEach(book')
    BY <1>6 DEF Delete, Release, OneEach, TypeOK, Books
  <2> QED BY <1>1, <1>2, <1>6, <2>1 DEF Delete, Release, NotWritten, file
<1>7. ASSUME NEW m \in Machines, Create(m) PROVE OneEach(book') /\ OneEach(json')
  <2>1. CASE Allocate(m)
    <3>1. Lowest(Free) \in Free
      BY <2>1, GivenType DEF Allocate, TypeOK
    <3>2. \A n \in Machines : book[n] # Nobody => book[n].port # Lowest(Free)
      BY <3>1 DEF Free, Used, Held
    <3>3. \A n \in Machines : book'[n] = IF n = m THEN Given(Lowest(Free)) ELSE book[n]
      BY <2>1 DEF Allocate, TypeOK, Books
    <3>4. OneEach(book')
      BY <3>2, <3>3 DEF OneEach, Given
    <3> QED BY <1>1, <1>2, <2>1, <3>4 DEF Allocate
  <2>2. CASE AllocateNone(m)
    BY <2>2 DEF AllocateNone, NotWritten, file
  <2> QED BY <1>7, <2>1, <2>2 DEF Create
<1>8. CASE Configure \/ Dies
  BY <1>8 DEF Configure, Dies, Ends, NoBook, OneEach
<1>9. CASE UNCHANGED <<book, json>>
  BY <1>9
<1>10. CASE UNCHANGED openingVars
  BY <1>9, <1>10 DEF openingVars, agentBook, file
<1> QED
  BY <1>3, <1>4, <1>5, <1>6, <1>7, <1>8, <1>9, <1>10
  DEF Next, Agent, Begin, Made, Passed, Applier, Wish, agentBook, file

LEMMA PassKnowsStep ==
  OpeningAssumption /\ TypeOK /\ PassKnows /\ [Next]_openingVars => PassKnows'
<1> SUFFICES ASSUME OpeningAssumption, TypeOK, PassKnows, [Next]_openingVars PROVE PassKnows'
  OBVIOUS
<1>1. CASE UNCHANGED <<round, asked, listed, making, built>>
  BY <1>1 DEF PassKnows, Standing
<1>2. CASE Start \/ Sweep \/ Configure \/ Dies
  BY <1>2 DEF Start, Sweep, Configure, Dies, Ends, PassKnows, Standing
<1>3. CASE Begin
  BY <1>3 DEF Begin, PassKnows, Standing
<1>4. CASE Made
  BY <1>4 DEF Made, PassKnows, Standing, TypeOK
<1>5. CASE Observe
  BY <1>5 DEF Observe, PassKnows, Standing
<1>6. ASSUME NEW m \in Machines, Create(m) PROVE PassKnows'
  BY <1>6 DEF Create, Allocate, AllocateNone, PassKnows, Standing
<1>7. ASSUME NEW m \in Machines, Delete(m) \/ Passed(m) PROVE PassKnows'
  BY <1>7 DEF Delete, Passed, PassKnows, Standing, TypeOK
<1> QED
  BY <1>1, <1>2, <1>3, <1>4, <1>5, <1>6, <1>7
  DEF Next, Agent, Applier, Wish, openingVars, openPass

\* A write that fails leaves a file that named every machine as well.
LEMMA StillNames ==
  ASSUME BookNames, json' \in {json, book'}, UNCHANGED <<built, lapsed>>, round # "down",
         \A m \in Standing \ lapsed : built[m] \in Ports /\ HasIts(book, m)
                                       => book'[m] # Nobody /\ book'[m].port = book[m].port
  PROVE  BookNames'
  BY DEF BookNames, HasIts, Standing

LEMMA BookNamesStep ==
  OpeningAssumption /\ TypeOK /\ PassKnows /\ BookNames /\ [Next]_openingVars => BookNames'
<1> SUFFICES ASSUME OpeningAssumption, TypeOK, PassKnows, BookNames, [Next]_openingVars PROVE BookNames'
  OBVIOUS
<1>1. CASE UNCHANGED <<built, book, json, lapsed>> /\ (round = "down" => round' = "down")
  BY <1>1 DEF BookNames, HasIts, Standing
<1>2. ASSUME NEW b, Persist(b) PROVE json' \in {json, b}
  BY <1>2 DEF Persist
<1>3. CASE Start
  <2>1. \A m \in Standing \ lapsed' : built[m] \in Ports => json[m] # Nobody /\ book'[m] = json[m]
    BY <1>3 DEF Start, Settled, BookNames, HasIts, Standing
  <2> QED BY <1>2, <1>3, <2>1 DEF Start, BookNames, HasIts, Standing
<1>4. CASE Made
  <2>1. making \in Machines /\ making \in asked /\ round = "turns"
    BY <1>4 DEF Made, PassKnows, TypeOK
  <2>2. UNCHANGED <<book, json, round>>
    BY <1>4 DEF Made, agentBook, file
  <2>3. CASE UNCHANGED <<built, lapsed>>
    BY <2>2, <2>3 DEF BookNames, HasIts, Standing
  <2>4. CASE ~UNCHANGED <<built, lapsed>>
    <3>1. /\ \A m \in Machines : built'[m] = IF m = making THEN Names(making) ELSE built[m]
          /\ lapsed' = IF json[making] = book[making] THEN lapsed ELSE lapsed \cup {making}
      BY <1>4, <2>1, <2>4 DEF Made, TypeOK
    <3>2. Names(making) \in Ports => book[making] # Nobody /\ book[making].port = Names(making)
      BY DEF Names, Unopened, Ports
    <3>3. SUFFICES ASSUME NEW m \in Standing' \ lapsed', built'[m] \in Ports
                   PROVE  HasIts(json, m)' /\ (round' # "down" => HasIts(book, m)')
      BY DEF BookNames, Ports
    <3>4. m \in Machines /\ m \notin lapsed'
      BY DEF Standing
    <3>5. CASE m = making
      BY <2>2, <3>1, <3>2, <3>3, <3>4, <3>5 DEF HasIts
    <3>6. CASE m # making
      <4>1. m \in Standing \ lapsed /\ built[m] \in Ports
        BY <3>1, <3>3, <3>4, <3>6 DEF Standing
      <4> QED BY <2>2, <3>1, <3>4, <3>6, <4>1 DEF BookNames, HasIts
    <3> QED BY <3>5, <3>6
  <2> QED BY <2>3, <2>4
<1>5. CASE Observe
  <2>1. \A m \in Machines : book[m] # Nobody => book'[m] # Nobody /\ book'[m].port = book[m].port
    BY <1>5, SightedKeeps DEF Observe, TypeOK
  <2>2. json' \in {json, book'}
    BY <1>2, <1>5 DEF Observe, NotWritten, file
  <2> QED BY <1>5, <2>1, <2>2, StillNames DEF Observe, HasIts, Standing
<1>6. CASE Sweep
  <2>1. \A m \in Standing : book'[m] = book[m]
    BY <1>6 DEF Sweep, PassKnows, Kept, Standing
  <2>2. json' \in {json, book'}
    BY <1>2, <1>6 DEF Sweep, NotWritten, file
  <2> QED BY <1>6, <2>1, <2>2, StillNames DEF Sweep, HasIts
<1>7. ASSUME NEW m \in Machines, Create(m) PROVE BookNames'
  <2>1. CASE Allocate(m)
    <3>1. \A n \in Machines : n # m => book'[n] = book[n]
      BY <2>1 DEF Allocate, TypeOK, Books
    <3>2. ~HasIts(book, m)
      BY <2>1 DEF Allocate, Held, HasIts
    <3>3. json' \in {json, book'}
      BY <1>2, <2>1 DEF Allocate
    <3> QED BY <1>7, <3>1, <3>2, <3>3, StillNames DEF Create, HasIts, Standing
  <2>2. CASE AllocateNone(m)
    BY <1>1, <1>7, <2>2 DEF AllocateNone, NotWritten, Create, file
  <2> QED BY <1>7, <2>1, <2>2 DEF Create
<1>8. ASSUME NEW m \in Machines, Delete(m) PROVE BookNames'
  <2>1. /\ \A n \in Machines : n # m => book'[n] = book[n] /\ built'[n] = built[n]
        /\ m \notin Standing' /\ lapsed' = lapsed /\ round' = round /\ round # "down"
    BY <1>8 DEF Delete, Release, TypeOK, Books, Standing
  <2>2. json' \in {json, book'}
    BY <1>2, <1>8 DEF Delete, Release, NotWritten, file
  <2> QED BY <2>1, <2>2 DEF BookNames, HasIts, Standing
<1>9. ASSUME NEW m \in Machines, Passed(m) PROVE BookNames'
  BY <1>9 DEF Passed, TypeOK, BookNames, HasIts, Standing, agentBook, file
<1>10. CASE Configure \/ Dies
  BY <1>10 DEF Configure, Dies, Ends, BookNames, HasIts, Standing
<1> QED
  BY <1>1, <1>3, <1>4, <1>5, <1>6, <1>7, <1>8, <1>9, <1>10
  DEF Next, Agent, Begin, Applier, Wish, openingVars, agentBook, file, openPass

LEMMA BookStep == OpeningAssumption /\ TypeOK /\ BookIsTrue /\ [Next]_openingVars => BookIsTrue'
  BY OneEachStep, PassKnowsStep, BookNamesStep DEF BookIsTrue

LEMMA BookShows == BookIsTrue => PortOfOne
  BY DEF BookIsTrue, OneEach, BookNames, HasIts, PortOfOne, Standing

\* No two machines that stand name one port, but for one whose port a settle
\* dropped or that was made while its port was not on disk.
THEOREM OnePortEach == OpeningAssumption => (Spec => []PortOfOne)
<1>1. OpeningAssumption => OpeningAssumption'
  BY DEF OpeningAssumption
<1> QED BY <1>1, BookInit, BookStep, BookShows, TypeCorrect, PTL DEF Spec
=============================================================================
