--------------------------- MODULE LedgerPromise ---------------------------
(***************************************************************************)
(* What the ledger promises whoever posts to it, with no transactions in   *)
(* it: an operation moves the money of all its lines in one instant, once, *)
(* and no balance falls below zero.                                        *)
(***************************************************************************)
EXTENDS Integers

CONSTANTS
  Operation,  \* operations
  Account,    \* accounts that have a balance
  Effect      \* what an operation adds to, or takes from, an account

VARIABLES
  posted,     \* operations that were posted
  balance     \* what an account holds

vars == <<posted, balance>>

Init ==
  /\ posted = {}
  /\ balance = [a \in Account |-> 0]

Post(o) ==
  /\ o \notin posted
  /\ \A a \in Account : balance[a] + Effect[o][a] >= 0
  /\ posted' = posted \cup {o}
  /\ balance' = [a \in Account |-> balance[a] + Effect[o][a]]

Next == \E o \in Operation : Post(o)

Spec == Init /\ [][Next]_vars
=============================================================================
