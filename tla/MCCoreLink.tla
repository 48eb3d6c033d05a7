---------------------------- MODULE MCCoreLink ----------------------------
(***************************************************************************)
(* CoreLink on one provider and a second one to be enrolled as, two        *)
(* revisions and three faults: a file lost between two deaths, a restore   *)
(* around a death and a lapsed session.                                    *)
(***************************************************************************)
EXTENDS CoreLink

=============================================================================
