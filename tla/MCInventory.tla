----------------------------- MODULE MCInventory -----------------------------
(***************************************************************************)
(* Instances of Inventory for TLC.                                         *)
(***************************************************************************)
EXTENDS Inventory, TLC

CONSTANTS r1, r2, r3, r4

\* A return to the supplier and a delivery.
MCImports == {-1, 2}

MCSymmetry == Permutations(Requests)
=============================================================================
