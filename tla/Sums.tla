-------------------------------- MODULE Sums --------------------------------
(***************************************************************************)
(* Adding up a quantity over a finite set of rows, as reduce does in the   *)
(* services.  The sum is the number of units that the quantities above     *)
(* zero consist of, less those of the quantities below: a definition       *)
(* without recursion, which can be reasoned about.                         *)
(***************************************************************************)
EXTENDS Integers, FiniteSets

\* The units of the quantities above zero that f gives the elements of S.
Units(f, S) == UNION {{x} \X (1..f[x]) : x \in S}

Count(f, S) == Cardinality(Units(f, S))

Negated(f, S) == [x \in S |-> 0 - f[x]]

Total(f, S) == Count(f, S) - Count(Negated(f, S), S)
=============================================================================
