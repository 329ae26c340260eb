------------------------------ MODULE Treasury ------------------------------
(***************************************************************************)
(* Payouts with the rates of RateConsensus: a payout is locked at a quote  *)
(* derived from what the sources of the two legs reported (lockPayoutRate  *)
(* asks the RateAggregator, rate-aggregator.ts), and the choice among the  *)
(* waiting ones is LiquidityFit's, out of what this treasury can spend.    *)
(***************************************************************************)
EXTENDS Payouts, RateConsensus, LiquidityFit

CONSTANT Market  \* what the sources of both legs report, with the quote before

(* The rates at which the RateAggregator lets a payout be locked. *)
QuotedRates == {Quote(m.gramUsd, m.usdToman, m.last) : m \in Market} \ {Refused}

ASSUME MarketAssumption ==
  /\ Market \subseteq
       [gramUsd : [Source -> Nat], usdToman : [Source -> Nat], last : Nat]
  /\ Rates \subseteq QuotedRates

(* What the treasury can hold: its first balance and all of the fundings.  *)
ASSUME LiquidityAssumption ==
  IsFiniteSet(Fundings) /\ 0 .. InitialTreasury + Funded(Fundings) \subseteq Liquidity

(* The merchant is paid at a quote of the market, rounded down: he never   *)
(* gets GRAM for more Toman than were taken, nor an atomic unit less than  *)
(* they buy (lockPayoutRate).                                              *)
LockedAtQuote ==
  \A p \in Payout : gram[p] # 0 =>
    \E rate \in QuotedRates : gram[p] * rate <= amount[p] /\ amount[p] < (gram[p] + 1) * rate

(* A payout is locked at a quote of the market, and the rate of a leg has  *)
(* a second witness and is moved by no single source (resolveLegConsensus, *)
(* lockPayoutRate).                                                        *)
ConsensusIsRobust == LockedAtQuote /\ ConsensusIsShared /\ OddOneIsHarmless

(* Whatever the queue, and whatever the treasury had when it was read,     *)
(* reserveQueuedPayouts takes no more of it than the treasury has now; and *)
(* selectByLiquidityFit lets nobody overtake a payout that has waited too  *)
(* long, and leaves as little idle as any choice would.                    *)
SelectionIsBest ==
  /\ Spendable >= 0 => Spendable \in Respected
  /\ StarvedFirst /\ LeavesLeastIdle
=============================================================================
