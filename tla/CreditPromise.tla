--------------------------- MODULE CreditPromise ---------------------------
(***************************************************************************)
(* What accepting payments promises a merchant, with no provider, worker   *)
(* or callback in it.  An invoice the customer has paid, in full and in    *)
(* time (or as late as a sweep that began in time lets pass), may be       *)
(* credited, once, with its net amount, and that credit may become         *)
(* spendable, once and for the same amount.  Nothing is ever taken back,   *)
(* and nothing is credited that was not paid.                              *)
(***************************************************************************)
EXTENDS Integers

CONSTANTS Merchant, Invoice, Owner, Net

VARIABLES
  earned,     \* invoices paid in full, and in time or within such a sweep
  credit,     \* what the merchant can say of an invoice
  pending,    \* Toman credited and not yet spendable
  available   \* Toman the merchant may spend

vars == <<earned, credit, pending, available>>

Init ==
  /\ earned = {}
  /\ credit = [i \in Invoice |-> "none"]
  /\ pending = [m \in Merchant |-> 0]
  /\ available = [m \in Merchant |-> 0]

Earn(i) ==
  /\ earned' = earned \cup {i}
  /\ UNCHANGED <<credit, pending, available>>

Credit(i) ==
  /\ i \in earned
  /\ credit[i] = "none"
  /\ credit' = [credit EXCEPT ![i] = "pending"]
  /\ pending' = [pending EXCEPT ![Owner[i]] = @ + Net[i]]
  /\ UNCHANGED <<earned, available>>

Release(i) ==
  /\ credit[i] = "pending"
  /\ credit' = [credit EXCEPT ![i] = "spendable"]
  /\ pending' = [pending EXCEPT ![Owner[i]] = @ - Net[i]]
  /\ available' = [available EXCEPT ![Owner[i]] = @ + Net[i]]
  /\ UNCHANGED earned

Next == \E i \in Invoice : Earn(i) \/ Credit(i) \/ Release(i)

Spec == Init /\ [][Next]_vars
=============================================================================
