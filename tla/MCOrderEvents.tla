---------------------------- MODULE MCOrderEvents ----------------------------
(***************************************************************************)
(* Instances of OrderEvents for TLC.                                       *)
(***************************************************************************)
EXTENDS OrderEvents, TLC

CONSTANTS o1, o2

MCSymmetry == Permutations(Orders)
=============================================================================
