---------------------------- MODULE MCCustomers ----------------------------
(***************************************************************************)
(* Instances of Customers for TLC.                                         *)
(***************************************************************************)
EXTENDS Customers, TLC

CONSTANTS u1, u2, p1, p2, p3, v1, v2

\* Numbers, and vouchers, are all alike.
Symmetry == Permutations(Phones) \cup Permutations(Vouchers)
=============================================================================
