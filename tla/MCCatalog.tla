----------------------------- MODULE MCCatalog -----------------------------
(***************************************************************************)
(* Instances of Catalog for TLC.                                           *)
(***************************************************************************)
EXTENDS Catalog

CONSTANTS c1

\* "cheap" is about both products, "other" about one size only.
MCOfferPrice(f, l) ==
    CASE f = "cheap" /\ l = "plain" -> 5
      [] f = "cheap" /\ l = "large" -> 6
      [] f = "other" /\ l = "large" -> 7
      [] OTHER -> NoPrice
=============================================================================
