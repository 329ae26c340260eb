-------------------------- MODULE MerchantPromise --------------------------
(***************************************************************************)
(* What the payout pipeline promises a merchant, with no pipeline in it.   *)
(* Toman leave the merchant's balance for a payout, one payout of the      *)
(* merchant at a time; from then on the platform owes it, until the        *)
(* transfer has landed and it is paid, or every Toman taken for it, the    *)
(* fee included, is returned.  Neither is ever taken back.                 *)
(***************************************************************************)
EXTENDS Integers

CONSTANTS Merchant, Payout, Owner, InitialBalance

VARIABLES
  promise,  \* what the merchant can say of a payout
  taken,    \* Toman the merchant parted with for it
  balance,  \* Toman the merchant may spend
  landed    \* payouts whose GRAM has reached the merchant's wallet

vars == <<promise, taken, balance, landed>>

Init ==
  /\ promise = [p \in Payout |-> "none"]
  /\ taken = [p \in Payout |-> 0]
  /\ balance = [m \in Merchant |-> InitialBalance]
  /\ landed = {}

Take(p) ==
  /\ promise[p] = "none"
  /\ \A q \in Payout : Owner[q] = Owner[p] => promise[q] # "owed"
  /\ \E toman \in 1 .. balance[Owner[p]] :
       /\ taken' = [taken EXCEPT ![p] = toman]
       /\ balance' = [balance EXCEPT ![Owner[p]] = @ - toman]
  /\ promise' = [promise EXCEPT ![p] = "owed"]
  /\ UNCHANGED landed

Land(p) ==
  /\ promise[p] # "none"
  /\ landed' = landed \cup {p}
  /\ UNCHANGED <<promise, taken, balance>>

Pay(p) ==
  /\ promise[p] = "owed"
  /\ p \in landed
  /\ promise' = [promise EXCEPT ![p] = "paid"]
  /\ UNCHANGED <<taken, balance, landed>>

Return(p) ==
  /\ promise[p] = "owed"
  /\ promise' = [promise EXCEPT ![p] = "returned"]
  /\ balance' = [balance EXCEPT ![Owner[p]] = @ + taken[p]]
  /\ UNCHANGED <<taken, landed>>

Next == \E p \in Payout : Take(p) \/ Land(p) \/ Pay(p) \/ Return(p)

Spec == Init /\ [][Next]_vars
=============================================================================
