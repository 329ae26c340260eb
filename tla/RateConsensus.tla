--------------------------- MODULE RateConsensus ---------------------------
(***************************************************************************)
(* The rate a payout is locked at when it is derived from the market:      *)
(* RateAggregator of packages/core/src/adapters/rate-aggregator.ts.  Each  *)
(* of the two legs, GRAM in USD and USD in Toman, is what its sources      *)
(* agree on, and the product is compared with the quote before it.         *)
(***************************************************************************)
EXTENDS Integers, FiniteSets

CONSTANTS
  Source,          \* the sources of a leg
  Scale,           \* the fixed point of a value, 10^18 in the code
  MaxDisagreement, \* maxCrossSourceDeviationPercent
  MaxMove,         \* maxDeviationPercent
  MinRate,         \* minTomanPerGram, scaled
  MaxRate,         \* maxTomanPerGram, scaled
  Observation      \* values the properties let a source report

ASSUME RateConsensusAssumption ==
  /\ IsFiniteSet(Source) /\ Source # {}
  /\ Scale \in Nat \ {0} /\ MaxDisagreement \in Nat /\ MaxMove \in Nat
  /\ MinRate \in Nat \ {0} /\ MaxRate \in Nat /\ Observation \subseteq Nat \ {0}

(* What a source comes to when it fails, answers with something that is no *)
(* positive decimal, or with an observation too old or in the future; and  *)
(* what a leg comes to when its sources do not agree.                      *)
Unusable == 0
Refused  == 0

-----------------------------------------------------------------------------
Usable(seen) == {s \in Source : seen[s] # Unusable}
RequiredQuorum == IF Cardinality(Source) >= 2 THEN 2 ELSE 1

Apart(a, b) == IF a > b THEN a - b ELSE b - a

(* The entry at the middle of the sorted values, the upper one of an even  *)
(* number.                                                                 *)
MiddleLargest(S, seen) ==             \* mutant: the end of the list
  CHOOSE v \in {seen[s] : s \in S} : \A s \in S : seen[s] <= v
Middle(S, seen) ==
  CHOOSE v \in {seen[s] : s \in S} :
    /\ Cardinality({s \in S : seen[s] < v}) <= Cardinality(S) \div 2
    /\ Cardinality(S) \div 2 < Cardinality({s \in S : seen[s] <= v})

(* The largest and the smallest value are no further apart than tolerated, *)
(* in full percent of the smallest: then no two values are.                *)
WithinTolerance(S, seen) ==
  \A s, t \in S : ((seen[s] - seen[t]) * 100) \div seen[t] <= MaxDisagreement

Near(S, seen) ==
  LET middle == Middle(S, seen)
  IN {s \in S : (Apart(seen[s], middle) * 100) \div middle <= MaxDisagreement}

(* resolveLegConsensus *)
LegConsensus(seen) ==
  LET usable == Usable(seen)
      near   == Near(usable, seen)
  IN IF Cardinality(usable) < RequiredQuorum THEN Refused
     ELSE IF WithinTolerance(usable, seen) THEN Middle(usable, seen)
     ELSE IF Cardinality(usable) = 2 \/ Cardinality(near) < 2 THEN Refused
     ELSE Middle(near, seen)

(* assertSane: last is the quote before, zero when there was none.         *)
IsSane(rate, last) ==
  /\ rate >= MinRate /\ rate <= MaxRate
  /\ last # Refused => (Apart(rate, last) * 100) \div last <= MaxMove

(* getQuote *)
Quote(crypto, fx, last) ==
  LET gramUsd  == LegConsensus(crypto)
      usdToman == LegConsensus(fx)
      rate     == (gramUsd * usdToman) \div Scale
  IN IF gramUsd # Refused /\ usdToman # Refused /\ IsSane(rate, last) THEN rate ELSE Refused

-----------------------------------------------------------------------------
Seen == [Source -> Observation \cup {Unusable}]

(* Two values agree when they lie within the tolerated percentage of the   *)
(* larger; the code compares full percents, so up to one more passes.      *)
Agree(a, b) == (Apart(a, b) * 100) \div (IF a > b THEN a ELSE b) <= MaxDisagreement

(* A leg is never taken from one feed alone when there are several: it is  *)
(* the value of one source that another one confirms.                      *)
ConsensusIsShared ==
  \A seen \in Seen :
    LET v == LegConsensus(seen)
    IN v # Refused /\ Cardinality(Source) >= 2 =>
         \E s, t \in Usable(seen) : s # t /\ seen[s] = v /\ Agree(seen[t], v)

(* A single source cannot move a leg: where all usable sources but one lie *)
(* within the tolerance and there are at least two of those, the leg stays *)
(* between them whatever the odd one says.                                 *)
OddOneIsHarmless ==
  \A seen \in Seen : \A odd \in Usable(seen) :
    LET others == Usable(seen) \ {odd}
        v      == LegConsensus(seen)
    IN Cardinality(others) >= 2 /\ WithinTolerance(others, seen) /\ v # Refused =>
         \E s, t \in others : seen[s] <= v /\ v <= seen[t]
=============================================================================
