--------------------------- MODULE MCOrderPayment ---------------------------
(***************************************************************************)
(* Instances of OrderPayment for TLC.  Prices are in hundredths of a VND:  *)
(* 100 VND is worth one loyalty point, 202 VND two.  Half of 101 VND is    *)
(* not a whole number, half of 202 VND is, and is worth a point.           *)
(***************************************************************************)
EXTENDS OrderPayment, TLC

CONSTANTS o1, o2, c1, v1, v2, r1, r2, r3, g1, g2

MCPrices == {10100, 20200}

\* The counter takes 100 VND, less than the lower price and more than a half of
\* it, or 202 VND.
MCTenders == {10000, 20200}

\* A tenth of 100 VND is a whole number, a tenth of 202 VND is not.
MCVoucherPrices == {10000, 20200}

\* Half of the lower price covers it while one voucher is on it, and not after
\* the other one has replaced that one.
MCVoucherTenders == {5000, 20200}

MCDiscount == [v \in Vouchers |-> IF v = v1 THEN 50 ELSE 10]

MCLevels == {1, 3}

MCSymmetry == Permutations(Clients) \cup Permutations(Deliveries) \cup Permutations(Orders)
=============================================================================
