------------------------------ MODULE MCBooks ------------------------------
(* Payments whose prices, fees and provider costs are those of the code's  *)
(* arithmetic: 13 and 20 Toman at 15 and 9 percent, rounded as there.      *)
EXTENDS MCPayments, Books

Bases == [i \in Invoice |-> IF i = i1 THEN 13 ELSE 20]
Modes == [i \in Invoice |-> IF i = i1 THEN "SPLIT" ELSE "MERCHANT"]
Totals == [i \in Invoice |-> FeesOf(i).customerTotal]
Nets   == [i \in Invoice |-> FeesOf(i).merchantNet]
Costs  == {CostOf(i) : i \in Invoice}

SmallAmounts == 0 .. 60
=============================================================================
