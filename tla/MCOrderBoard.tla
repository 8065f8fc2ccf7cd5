---------------------------- MODULE MCOrderBoard ----------------------------
(***************************************************************************)
(* Instances of OrderBoard for TLC.                                        *)
(***************************************************************************)
EXTENDS OrderBoard, TLC

CONSTANTS s1, b1
=============================================================================
