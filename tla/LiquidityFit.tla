---------------------------- MODULE LiquidityFit ----------------------------
(***************************************************************************)
(* Which of the waiting payouts are reserved when GRAM is short:           *)
(* selectByLiquidityFit and reserveQueuedPayouts of                        *)
(* packages/core/src/use-cases/payout.ts.  A queue is the sequence of the  *)
(* waiting payouts, the oldest first, as the query orders them; a payout   *)
(* is named by its place in the queue.                                     *)
(***************************************************************************)
EXTENDS Integers, Sequences, FiniteSets

CONSTANTS
  Starvation,    \* starvationSeconds
  MaxSelected,   \* maxSelected, 25 unless the caller says otherwise
  SearchBound,   \* payouts the subset search looks at, 18 in the code
  Queues,        \* queues that may wait
  Liquidity      \* amounts that may be spendable

(* A payout waits with the GRAM it was locked at, which lockPayoutRate     *)
(* makes positive, and the seconds it has waited for.  It is RATE_LOCKED   *)
(* or, if the liquidity was once too low for it, WAITING_LIQUIDITY.        *)
Waiting == [gram : Nat \ {0}, age : Nat, locked : BOOLEAN]

ASSUME LiquidityFitAssumption ==
  /\ Starvation \in Nat /\ MaxSelected \in Nat /\ SearchBound \in Nat
  /\ \A queue \in Queues : queue \in Seq(Waiting)
  /\ Liquidity \subseteq Nat

(* The GRAM of the payouts at the places S.                                *)
GramOf(queue, S) ==
  LET upTo[i \in 0 .. Len(queue)] ==
        IF i = 0 THEN 0 ELSE upTo[i - 1] + (IF i \in S THEN queue[i].gram ELSE 0)
  IN upTo[Len(queue)]

Affordable(queue, spendable) ==
  {i \in DOMAIN queue : queue[i].gram > 0 /\ queue[i].gram <= spendable}
IsStarvedNever(queue, i) == FALSE     \* mutant: nobody has waited too long
IsStarved(queue, i) == queue[i].age >= Starvation

-----------------------------------------------------------------------------
(* Whoever has waited too long goes first, the oldest first, as far as the *)
(* liquidity goes.                                                         *)
TakeStarved(queue, spendable) ==
  LET taken[i \in 0 .. Len(queue)] ==
        IF i = 0 THEN {}
        ELSE IF /\ i \in Affordable(queue, spendable) /\ IsStarved(queue, i)
                /\ Cardinality(taken[i - 1]) < MaxSelected
                /\ GramOf(queue, taken[i - 1] \cup {i}) <= spendable
          THEN taken[i - 1] \cup {i} ELSE taken[i - 1]
  IN taken[Len(queue)]

(* 1 << n.                                                                 *)
Shifted(n) ==
  LET shifted[i \in 0 .. n] == IF i = 0 THEN 1 ELSE 2 * shifted[i - 1] IN shifted[n]

(* The payouts of a mask: bit b stands for the payout with b older ones.   *)
Older(S, i) == Cardinality({j \in S : j < i})
Masked(rest, mask) == {i \in rest : (mask \div Shifted(Older(rest, i))) % 2 = 1}

(* The subset search: masks in ascending order, and a later one replaces   *)
(* the best so far only when it uses more.                                 *)
Improves(sum, size, best, remaining, slots) ==
  sum <= remaining /\ size <= slots /\ sum > best
Search(queue, rest, remaining, slots) ==
  LET best[mask \in 0 .. Shifted(Cardinality(rest)) - 1] ==
        LET S == Masked(rest, mask)
        IN IF mask = 0 THEN {}
           ELSE IF Improves(GramOf(queue, S), Cardinality(S),
                            GramOf(queue, best[mask - 1]), remaining, slots)
             THEN S ELSE best[mask - 1]
  IN best[Shifted(Cardinality(rest)) - 1]

(* selectByLiquidityFit: the starved, and what fills the rest best.        *)
SelectByLiquidityFit(queue, spendable) ==
  LET starved == TakeStarved(queue, spendable)
      left    == Affordable(queue, spendable) \ starved
      rest    == {i \in left : Older(left, i) < SearchBound}
  IN [starved |-> starved,
      fitting |-> Search(queue, rest, spendable - GramOf(queue, starved),
                         MaxSelected - Cardinality(starved))]

(* The payouts S are reserved one by one, and each of them looks again at  *)
(* what is spendable once those before it are reserved.  The choice makes  *)
(* no difference between the two states, but a payout is reserved only     *)
(* from RATE_LOCKED: one that is chosen while it waits for liquidity is    *)
(* refused, and the room it was given stays idle.                          *)
CanReserve(needed, spendable) == needed <= spendable
Reserve(queue, S, before, now) ==
  LET reserved[i \in 0 .. Len(queue)] ==
        IF i = 0 THEN before
        ELSE IF /\ i \in S /\ queue[i].locked
                /\ CanReserve(queue[i].gram, now - GramOf(queue, reserved[i - 1]))
          THEN reserved[i - 1] \cup {i} ELSE reserved[i - 1]
  IN reserved[Len(queue)]

(* reserveQueuedPayouts: seen was spendable when the queue was read, and   *)
(* now is when its payouts are reserved.                                   *)
ReserveQueuedPayouts(queue, seen, now) ==
  LET chosen == SelectByLiquidityFit(queue, seen)
  IN IF seen <= 0 THEN {}
     ELSE Reserve(queue, chosen.fitting, Reserve(queue, chosen.starved, {}, now), now)

-----------------------------------------------------------------------------
IsOverdue(queue, i) == queue[i].age >= Starvation
Selected(queue, spendable) ==
  LET chosen == SelectByLiquidityFit(queue, spendable) IN chosen.starved \cup chosen.fitting

(* The spendable amounts that are never exceeded, whatever was spendable   *)
(* when the queue was read: what is reserved is there, and no more payouts *)
(* than may be selected are.                                               *)
Respected ==
  {now \in Liquidity : \A queue \in Queues, seen \in Liquidity :
     LET reserved == ReserveQueuedPayouts(queue, seen, now)
     IN GramOf(queue, reserved) <= now /\ Cardinality(reserved) <= MaxSelected}

(* Nobody younger takes the liquidity of a payout that has waited too long:*)
(* one that is left out would not have fitted after the older ones alone.  *)
StarvedFirst ==
  \A queue \in Queues, spendable \in Liquidity :
    LET chosen == Selected(queue, spendable)
    IN \A i \in DOMAIN queue \ chosen :
         IsOverdue(queue, i) =>
           LET older == {j \in chosen : j < i /\ IsOverdue(queue, j)}
           IN \/ queue[i].gram > spendable - GramOf(queue, older)
              \/ Cardinality(older) >= MaxSelected

(* As long as nobody has waited too long no choice of the payouts at the   *)
(* head of the queue uses more of the liquidity.                           *)
LeavesLeastIdle ==
  \A queue \in Queues, spendable \in Liquidity :
    (\A i \in DOMAIN queue : ~IsOverdue(queue, i)) =>
      \A S \in SUBSET {i \in DOMAIN queue : i <= SearchBound} :
        Cardinality(S) <= MaxSelected /\ GramOf(queue, S) <= spendable =>
          GramOf(queue, S) <= GramOf(queue, Selected(queue, spendable))
=============================================================================
