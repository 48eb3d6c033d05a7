------------------------------- MODULE Tunnel -------------------------------
(***************************************************************************)
(* The tunnel (crates/onv-tunnel, src/src/console.rs): the agent dials     *)
(* Core, serves the frames Core sends on that connection until it ends,    *)
(* and dials again.  Each request and console is a task of its own.  The   *)
(* one loop that reads frames keeps two tables, the tasks a Cancel can end *)
(* and where a console's input goes, and a console's task shares the       *)
(* second.  A console is bridged to the hypervisor by a third task, which  *)
(* ends when its input is let go or its output has no reader.              *)
(*                                                                         *)
(* Core uses an id once.  Core, the machines and the workers are external. *)
(* A request is a console without an input or a bridge of its own.         *)
(***************************************************************************)
EXTENDS Naturals, FiniteSets

CONSTANTS
  Ids, NoId,      \* the ids Core opens
  MaxConns        \* bound: connections dialled

TunnelAssumption == NoId \notin Ids /\ MaxConns \in Nat \ {0}

VARIABLES
  link, conn,     \* whether the connection is up, and which it is
  of, requests,   \* the connection an id came on, 0 before it came; the ids
                  \* that are requests
  taskOf,         \* its task
  bridge,         \* the console at the hypervisor
  inflight,       \* the connection's task handles
  sessions,       \* consoles whose input somebody holds in a table
  hand, aborting, \* the frame half done in the loop, tasks told to abort
  letGo           \* history: what Core cancelled, was cut, or lost its connection

tunnelTables == <<inflight, sessions, hand, aborting>>
tunnelVars == <<link, conn, of, requests, taskOf, bridge, tunnelTables, letGo>>

Consoles == Ids \ requests

Running == {"opening", "opened", "inserted", "pumping"}
NoFrame == <<"none", NoId>>

TypeOK ==
  /\ link \in {"up", "down"} /\ conn \in 0 .. MaxConns
  /\ of \in [Ids -> 0 .. MaxConns] /\ requests \in SUBSET Ids
  /\ taskOf \in [Ids -> Running \cup {"none", "ended"}]
  /\ bridge \in [Ids -> {"none", "open", "shut"}]
  /\ inflight \in SUBSET Ids /\ sessions \in SUBSET Consoles /\ aborting \in SUBSET Ids
  /\ hand \in {NoFrame} \cup ({"cancel", "cut"} \X Ids) /\ letGo \in SUBSET Ids

Init ==
  /\ link = "down" /\ conn = 0 /\ of = [i \in Ids |-> 0] /\ requests = {}
  /\ taskOf = [i \in Ids |-> "none"] /\ bridge = [i \in Ids |-> "none"]
  /\ inflight = {} /\ sessions = {} /\ hand = NoFrame /\ aborting = {} /\ letGo = {}

Live(t, i) == t[i] \in Running
Current(i) == link = "up" /\ of[i] = conn

\* A table lives while its connection does, or any console's task of it; what
\* it holds goes with it.
Kept(held, t, isUp) ==
  {i \in held : (isUp /\ of[i] = conn) \/ \E j \in Consoles : of[j] = of[i] /\ Live(t, j)}
Ends(i, held) ==
  /\ taskOf' = [taskOf EXCEPT ![i] = "ended"]
  /\ sessions' = Kept(held, taskOf', link = "up")

-----------------------------------------------------------------------------
(* run: dial, serve until the connection ends, wait, dial again.            *)

Connect ==
  /\ link = "down" /\ conn < MaxConns /\ link' = "up" /\ conn' = conn + 1
  /\ UNCHANGED <<of, requests, taskOf, bridge, tunnelTables, letGo>>

\* Closed, failed, or silent: the handles are dropped, the tasks go on.
Disconnected ==
  /\ link = "up" /\ link' = "down"
  /\ letGo' = letGo \cup {i \in Ids : of[i] = conn}
  /\ inflight' = {} /\ hand' = NoFrame
  /\ sessions' = Kept(sessions, taskOf, FALSE)
  /\ UNCHANGED <<conn, of, requests, taskOf, bridge, aborting>>

-----------------------------------------------------------------------------
(* serve_socket's loop, one frame at a time.                                *)

Reading == link = "up" /\ hand = NoFrame

\* track: what has finished is forgotten.
Pruned == {i \in inflight : Live(taskOf, i)}
Open(i) ==
  /\ Reading /\ of[i] = 0 /\ of' = [of EXCEPT ![i] = conn]
  /\ requests' \in {requests, requests \cup {i}}
  /\ taskOf' = [taskOf EXCEPT ![i] = "opening"] /\ inflight' = Pruned \cup {i}
  /\ UNCHANGED <<link, conn, bridge, sessions, hand, aborting, letGo>>

\* Cancel, and input a console has no room for: the input first, then the task.
Cancel(i) ==
  /\ Reading /\ of[i] = conn /\ i \notin letGo
  /\ letGo' = letGo \cup {i} /\ sessions' = sessions \ {i} /\ hand' = <<"cancel", i>>
  /\ UNCHANGED <<link, conn, of, requests, taskOf, bridge, inflight, aborting>>
Overflows(i) ==
  /\ Reading /\ i \in sessions /\ of[i] = conn
  /\ letGo' = letGo \cup {i} /\ sessions' = sessions \ {i} /\ hand' = <<"cut", i>>
  /\ UNCHANGED <<link, conn, of, requests, taskOf, bridge, inflight, aborting>>

\* A handle that is there is aborted, which ends a task where it next waits.
Told(i) == IF i \in inflight THEN aborting \cup {i} ELSE aborting
AbortTask ==
  /\ hand # NoFrame /\ hand' = NoFrame
  /\ inflight' = inflight \ {hand[2]} /\ aborting' = Told(hand[2])
  /\ UNCHANGED <<link, conn, of, requests, taskOf, bridge, sessions, letGo>>

Aborted(i) ==
  /\ i \in aborting /\ Live(taskOf, i) /\ Ends(i, sessions)
  /\ UNCHANGED <<link, conn, of, requests, bridge, inflight, hand, aborting, letGo>>

-----------------------------------------------------------------------------
(* A task: opened, its input inserted, Core told, then bytes out.           *)

OpenFails(i) ==
  /\ taskOf[i] = "opening" /\ Ends(i, sessions) /\ UNCHANGED bridge
Opened(i) ==
  /\ taskOf[i] = "opening"
  /\ taskOf' = [taskOf EXCEPT ![i] = IF i \in Consoles THEN "opened" ELSE "inserted"]
  /\ bridge' = [bridge EXCEPT ![i] = "open"] /\ UNCHANGED sessions
Insert(i) ==
  /\ taskOf[i] = "opened" /\ taskOf' = [taskOf EXCEPT ![i] = "inserted"]
  /\ sessions' = sessions \cup {i} /\ UNCHANGED bridge
\* Head is sent, or there is nobody to send it to.
Head(i) ==
  /\ taskOf[i] = "inserted" /\ UNCHANGED bridge
  /\ IF Current(i) THEN taskOf' = [taskOf EXCEPT ![i] = "pumping"] /\ UNCHANGED sessions
     ELSE Ends(i, sessions \ {i})

\* A slip: a console that ends by itself keeps its entry.
EndLeaves(i) == Ends(i, sessions)
\* The last of its output, and nobody left to send to.
EndOfOutput(i) == Ends(i, sessions \ {i})
MachineEnded(i) ==
  /\ taskOf[i] = "pumping" /\ bridge[i] = "shut" /\ EndOfOutput(i) /\ UNCHANGED bridge
Unsendable(i) == ~Current(i)
SendFails(i) ==
  /\ taskOf[i] = "pumping" /\ bridge[i] = "open" /\ Unsendable(i) /\ EndOfOutput(i) /\ UNCHANGED bridge

Task(i) ==
  /\ OpenFails(i) \/ Opened(i) \/ Insert(i) \/ Head(i) \/ MachineEnded(i) \/ SendFails(i)
  /\ UNCHANGED <<link, conn, of, requests, inflight, hand, aborting, letGo>>

-----------------------------------------------------------------------------
(* The bridge (console.rs): the hypervisor's side of a console, or the      *)
(* worker's answer.                                                         *)

HasReader(i) == Live(taskOf, i)
HasInput(i) == i \in requests \/ i \in sessions \/ taskOf[i] = "opened"

Shuts(i) ==
  /\ bridge[i] = "open" /\ bridge' = [bridge EXCEPT ![i] = "shut"]
  /\ UNCHANGED <<link, conn, of, requests, taskOf, tunnelTables, letGo>>
\* Its input was let go.
InputGone(i) == ~HasInput(i) /\ Shuts(i)
\* The machine says something, and nobody reads it.
Unread(i) == ~HasReader(i) /\ Shuts(i)
\* The machine closes it, or the worker's answer ends.
MachineCloses(i) == HasReader(i) /\ Shuts(i)

-----------------------------------------------------------------------------
Next ==
  \/ Connect \/ Disconnected \/ AbortTask
  \/ \E i \in Ids : \/ Open(i) \/ Cancel(i) \/ Overflows(i) \/ Aborted(i) \/ Task(i)
                    \/ InputGone(i) \/ Unread(i) \/ MachineCloses(i)

\* Tasks go on, and a machine says something now and then.
Fairness ==
  /\ WF_tunnelVars(AbortTask)
  /\ \A i \in Ids :
       /\ WF_tunnelVars(Task(i)) /\ WF_tunnelVars(Aborted(i))
       /\ WF_tunnelVars(InputGone(i) \/ Unread(i))

Spec == Init /\ [][Next]_tunnelVars /\ Fairness

-----------------------------------------------------------------------------
\* A task of the connection has its handle kept, for Core to end it by.
CancelReaches ==
  \A i \in Ids : Current(i) /\ Live(taskOf, i) => i \in inflight \cup aborting
\* A console's input outlives its task only if Core let it go as it was opened.
NothingHeld ==
  \A i \in sessions : Live(taskOf, i) \/ i \in letGo
Closed(i) == bridge[i] # "open" /\ ~Live(taskOf, i)

(* Core can end every task of its connection, however many others finished, *)
(* and a console that is over holds no input; and one Core let go of, cut or*)
(* lost its connection to comes to be closed at the hypervisor, at the      *)
(* latest once its machine speaks.                                          *)
LetGoCloses ==
  /\ [](CancelReaches /\ NothingHeld)
  /\ \A i \in Ids : <>[](i \in letGo => Closed(i))
=============================================================================
