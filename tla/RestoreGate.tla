---------------------------- MODULE RestoreGate ----------------------------
(***************************************************************************)
(* What restore mode promises, apart from how the agent keeps it: from the *)
(* answer that shows Core's ledger went back until Core itself ends the    *)
(* restore, no act is made on a guest, through every death of the agent    *)
(* and every handshake, while the Core last handshaken with holds          *)
(* restores (`binding`).                                                   *)
(***************************************************************************)
VARIABLES
  gate,       \* "free", "seen" (evidence came), "named" (Core named it)
  binding,    \* whether the last Core handshaken with holds restores
  guest       \* the guest the agent acts on

vars == <<gate, binding, guest>>

Init == gate = "free" /\ binding \in BOOLEAN

\* Evidence comes in an answer, and Core's word in any.
Notice == gate = "free" /\ gate' = "seen" /\ UNCHANGED <<binding, guest>>
Named == gate' = "named" /\ UNCHANGED <<binding, guest>>
\* Only Core ends it, and only what it named.
End == gate = "named" /\ gate' = "free" /\ UNCHANGED <<binding, guest>>
Act ==
  /\ gate' = "free" \/ ~binding
  /\ gate' = gate \/ (gate = "named" /\ gate' = "free")
  /\ guest' # guest /\ UNCHANGED binding
Handshake == binding' \in BOOLEAN /\ UNCHANGED <<gate, guest>>
\* What is not the agent's: a guest that goes down, a provider enrolled anew.
GuestFails == guest' = "down" /\ UNCHANGED <<gate, binding>>
Enrol == gate' = "free" /\ guest' = "none" /\ binding' = FALSE

Next == Notice \/ Named \/ End \/ Act \/ Handshake \/ GuestFails \/ Enrol
Spec == Init /\ [][Next]_vars

=============================================================================
