----------------------------- MODULE MCPayouts -----------------------------
(* Instances of Payouts for TLC. *)
EXTENDS Payouts, TLC

CONSTANTS m1, m2, p1, p2, w1, w2, a1, a2

OneEach   == p1 :> m1 @@ p2 :> m2    \* two merchants, one payout each
Single    == p1 :> m1

WorkerSymmetry == Permutations({w1, w2})
=============================================================================
