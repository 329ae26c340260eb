------------------------------ MODULE MCLedger ------------------------------
(* Instances of Ledger for TLC. *)
EXTENDS Ledger, TLC

CONSTANTS p1, p2, p3, pay1, pay2, out, clearing, merchant, revenue

Types == [a \in Account |-> IF a = clearing THEN "ASSET"
                            ELSE IF a = merchant THEN "LIABILITY" ELSE "REVENUE"]

Entry(a, s, n) == [account |-> a, side |-> s, amount |-> n]

\* A payment of 3 with a fee of 1, and a withdrawal that takes the accounts the other way round.
Drafts == [o \in Operation |->
  IF o = out THEN <<Entry(merchant, "debit", 2), Entry(clearing, "credit", 2)>>
  ELSE <<Entry(clearing, "debit", 3), Entry(merchant, "credit", 2), Entry(revenue, "credit", 1)>>]
=============================================================================
