---------------------------- MODULE MCOperations ----------------------------
(* Instances of Operations for TLC. *)
EXTENDS Operations, TLC

CONSTANTS a1, a2, x1, x2, h1

OneDeposit == [x \in Approval |-> h1]
\* Two requests for one deposit, which do not agree on the amount.
Amounts == [x \in Approval |-> IF x = x1 THEN 1 ELSE 2]
OneOfFinance == [a \in Admin |-> IF a = a1 THEN "FINANCE_ADMIN" ELSE "SUPER_ADMIN"]
=============================================================================
