------------------------------ MODULE MCKiosk -------------------------------
(***************************************************************************)
(* Instances of Kiosk for TLC.                                             *)
(***************************************************************************)
EXTENDS Kiosk, TLC

=============================================================================
