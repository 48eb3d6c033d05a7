---------------------------- MODULE MCMachineLife ----------------------------
(***************************************************************************)
(* MachineLife on two numbers: enough for a second clone beside a first, a *)
(* copy beside the machine, and a number given to the owner's guest.       *)
(***************************************************************************)
EXTENDS MachineLife

=============================================================================
