----------------------------- MODULE MCRunLease -----------------------------
(***************************************************************************)
(* RunLease on a small instance: one machine, since machines meet only in  *)
(* the sequential loops that stop and start them.  One unit of time is     *)
(* about half a minute: the task writes every unit, the timer runs every   *)
(* second one and distrusts a file two units old.                          *)
(***************************************************************************)
EXTENDS RunLease

OneLength == {2}
TwoLengths == {1, 2}
=============================================================================
