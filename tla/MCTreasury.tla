----------------------------- MODULE MCTreasury -----------------------------
(* Payouts that share a treasury, with the rates its payouts are locked at *)
(* derived from market sources, and the choice among waiting payouts.      *)
EXTENDS MCPayouts, Treasury

CONSTANTS s1, s2, s3

(* Markets the payouts of the run may meet: all sources agree; one is far  *)
(* off; no two agree, and there is no quote.                               *)
Agreeing(value) == [s \in Source |-> value]
Markets ==
  {[gramUsd |-> Agreeing(50), usdToman |-> Agreeing(5), last |-> Refused],
   [gramUsd |-> [Agreeing(70) EXCEPT ![s2] = 50], usdToman |-> Agreeing(7), last |-> 49],
   [gramUsd |-> s1 :> 50 @@ s2 :> 70 @@ s3 :> 90, usdToman |-> Agreeing(5), last |-> 25]}

(* Queues of up to four payouts, the oldest first, of which one of the two *)
(* oldest may have lost its lock.                                          *)
SmallQueues ==
  {queue \in UNION {[1 .. n -> [gram : {2, 3, 5}, age : {0, 1}, locked : BOOLEAN]] : n \in 0 .. 4} :
     /\ \A i, j \in DOMAIN queue : i < j => queue[i].age >= queue[j].age
     /\ \A i \in DOMAIN queue : ~queue[i].locked => i = 1 \/ (i = 2 /\ queue[1].locked)}
=============================================================================
