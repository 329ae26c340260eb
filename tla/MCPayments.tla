---------------------------- MODULE MCPayments ----------------------------
(* Instances of Payments for TLC. *)
EXTENDS Payments, TLC

CONSTANTS m1, i1, i2, x1, x2, d1, d2, w1, w2

OneInvoice  == i1 :> m1
TwoInvoices == i1 :> m1 @@ i2 :> m1

Price   == [i \in Invoice |-> IF i = i1 THEN 10 ELSE 20]
NetPart == [i \in Invoice |-> IF i = i1 THEN 9 ELSE 17]

Symmetry == Permutations({w1, w2}) \cup Permutations({x1, x2})
CheckoutSymmetry == Permutations({x1, x2})
===========================================================================
