---------------------------- MODULE RestoreHead ----------------------------
(***************************************************************************)
(* The head an agent keeps of Core's ledger                                *)
(* (crates/onv-core-link/src/restore.rs): the highest view revision it     *)
(* acted on, the provider it was kept for, and restore mode, in which the  *)
(* agent lists, reports and does nothing else.  These are the functions of *)
(* that file on one head; CoreLink calls them.                             *)
(***************************************************************************)
EXTENDS Naturals

CONSTANT Providers      \* the providers an agent may be enrolled as
NoProvider == "none"
ASSUME ProvidersAssumption == NoProvider \notin Providers

\* "detected": noticed here and not named by Core yet; "named": Core named it.
Modes == {"none", "detected", "named"}
\* Whether the last Core handshaken with holds restores; "unsaid": not kept.
Bits == {"yes", "no", "unsaid"}

HeadOf(p, r, mode, bit) ==
  [provider |-> p, revision |-> r, mode |-> mode, armed |-> bit]
Heads == [provider : Providers \cup {NoProvider}, revision : Nat,
          mode : Modes, armed : Bits]

NoHead == HeadOf(NoProvider, 0, "none", "unsaid")
\* A file that does not parse is held as a restore.
UnreadableHead == HeadOf(NoProvider, 0, "detected", "unsaid")

(* arm: what a handshake's answer said, on a head whose file is there iff  *)
(* `onDisk`.                                                               *)
\* Slips: only a head of no provider is dropped; a restore is over once Core
\* does not name it, named or not.
DroppedUnowned(h, holds, p) == h.provider = NoProvider
EndedUnnamed(h, named) == ~named /\ h.mode # "none"
Dropped(h, holds, p) == holds /\ h.provider # p
Kept(h, holds, p) == IF Dropped(h, holds, p) THEN HeadOf(p, 0, "none", "unsaid") ELSE h
BitOf(holds) == IF holds THEN "yes" ELSE "no"
Arm(h, holds, p, onDisk) ==
  LET k == Kept(h, holds, p)
  IN  IF holds \/ onDisk THEN HeadOf(k.provider, k.revision, k.mode, BitOf(holds)) ELSE k

(* Before any Core has answered: the kept mode binds unless the kept bit   *)
(* says the last Core held no restores.                                    *)
HeldAtBoot(h) == h.mode # "none" /\ h.armed # "no"

ToTell(armed, h) == armed /\ h.mode = "detected"
\* Slip: only a restore Core named binds.
ActiveNamed(armed, h) == armed /\ h.mode = "named"
Active(armed, h) == armed /\ h.mode # "none"

(* observe: one answer, read against the head by an armed agent.           *)
(* `unchanged`: it carries no body; `named`: Core's onv-restore; `torn`:   *)
(* it wants an attempt this agent tore down.                               *)
EndedBy(h, named) == ~named /\ h.mode = "named"
Behind(h, v) == v # 0 /\ v < h.revision
WentBack(h, unchanged, v, torn) ==
  h.mode = "none" /\ ~unchanged /\ (Behind(h, v) \/ torn)
Further(r, v) == IF v > r THEN v ELSE r

ModeAfter(h, unchanged, v, named, torn) ==
  IF named THEN "named"
  ELSE IF EndedBy(h, named) THEN "none"
  ELSE IF WentBack(h, unchanged, v, torn) THEN "detected"
  ELSE h.mode

RevisionAfter(h, unchanged, v, named, torn) ==
  IF unchanged THEN h.revision
  ELSE IF EndedBy(h, named) THEN v
  ELSE IF h.mode = "none" /\ ~WentBack(h, unchanged, v, torn) THEN Further(h.revision, v)
  ELSE h.revision

Observe(h, unchanged, v, named, torn) ==
  HeadOf(h.provider, RevisionAfter(h, unchanged, v, named, torn),
         ModeAfter(h, unchanged, v, named, torn), h.armed)

=============================================================================
