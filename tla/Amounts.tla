------------------------------ MODULE Amounts ------------------------------
(***************************************************************************)
(* The arithmetic of packages/money and packages/core/src/fees.ts: rounded *)
(* division, the fee split of an invoice, what the provider keeps, and the *)
(* conversion between Toman and GRAM.  Amounts are the integers the code   *)
(* keeps in BigInt, with neither a float nor an overflow.                  *)
(***************************************************************************)
EXTENDS Integers

CONSTANTS
  BasisPoints,   \* basis points in a whole, 10000 in the code
  GramUnit,      \* atomic GRAM in a GRAM times the scale of a rate
  Amount,        \* amounts the properties are checked for
  Bps,           \* percentages they are checked for
  RatePerGram    \* scaled rates they are checked for

ASSUME AmountsAssumption ==
  /\ BasisPoints \in Nat \ {0} /\ GramUnit \in Nat \ {0}
  /\ Amount \subseteq Nat /\ Bps \subseteq 0 .. BasisPoints
  /\ RatePerGram \subseteq Nat \ {0}

Rounding == {"FLOOR", "CEIL", "HALF_UP", "HALF_EVEN"}
FeeMode  == {"CUSTOMER", "MERCHANT", "SPLIT"}

-----------------------------------------------------------------------------
Abs(n)  == IF n < 0 THEN -n ELSE n
Sign(n) == IF n < 0 THEN -1 ELSE 1

(* Whether the magnitude q, with the remainder r of a division by d left   *)
(* over, is rounded away from zero.                                        *)
RoundsAway(q, r, d, negative, mode) ==
  /\ r > 0
  /\ \/ mode = "FLOOR" /\ negative
     \/ mode = "CEIL" /\ ~negative
     \/ mode = "HALF_UP" /\ 2 * r >= d
     \/ mode = "HALF_EVEN" /\ (2 * r > d \/ (2 * r = d /\ q % 2 = 1))

(* divRound: the sign is put aside, and negative is that of the quotient.  *)
DivRound(numerator, denominator, mode) ==
  LET n == Abs(numerator)
      d == Abs(denominator)
      negative == Sign(numerator) * Sign(denominator) < 0 /\ n > 0
      q == n \div d
      away == RoundsAway(q, n % d, d, negative, mode)
  IN (IF negative THEN -1 ELSE 1) * (IF away THEN q + 1 ELSE q)

(* Percentage.applyTo *)
ApplyTo(bps, amount, mode) == DivRound(amount * bps, BasisPoints, mode)

-----------------------------------------------------------------------------
(* The customer's share of the fee; the merchant bears what it leaves.     *)
CustomerShare(fee, mode) ==
  CASE mode = "CUSTOMER" -> fee
    [] mode = "MERCHANT" -> 0
    [] mode = "SPLIT"    -> DivRound(fee, 2, "FLOOR")

MerchantShareHalved(fee, mode) ==     \* mutant: both halves are rounded down
  IF mode = "SPLIT" THEN DivRound(fee, 2, "FLOOR") ELSE fee - CustomerShare(fee, mode)
MerchantShare(fee, mode) == fee - CustomerShare(fee, mode)

(* calculateFees: the snapshot an invoice keeps. *)
CalculateFees(base, mode, bps) ==
  LET fee      == ApplyTo(bps, base, "FLOOR")
      customer == CustomerShare(fee, mode)
      merchant == MerchantShare(fee, mode)
  IN [customerTotal |-> base + customer,
      merchantNet   |-> base - merchant,
      platformFee   |-> customer + merchant,
      customerShare |-> customer,
      merchantShare |-> merchant]

(* calculateProviderCost: what the provider keeps of a collected amount. *)
ProviderFee(collected, bps) == ApplyTo(bps, collected, "CEIL")

-----------------------------------------------------------------------------
(* Rate.tomanToGram and gramToToman, with the scale of the rate and the    *)
(* atomic units of a GRAM as one factor.                                   *)
TomanToGram(toman, rate) == DivRound(toman * GramUnit, rate, "FLOOR")

GramToToman(gram, rate) == DivRound(gram * rate, GramUnit, "FLOOR")

-----------------------------------------------------------------------------
(* Division with a rounding mode is what the mode says, whatever the signs *)
(* of its operands: the integer below, above or nearest to the quotient, a *)
(* tie going away from zero or to the even one.                            *)
RoundedAs(n, d, q, mode) ==
  LET r == Sign(d) * (n - q * d)     \* how far q lies below n / d, times |d|
      m == Abs(d)
  IN CASE mode = "FLOOR" -> 0 <= r /\ r < m
       [] mode = "CEIL"  -> -m < r /\ r <= 0
       [] mode = "HALF_UP" -> 2 * Abs(r) < m \/ (2 * Abs(r) = m /\ Abs(q * d) > Abs(n))
       [] mode = "HALF_EVEN" -> 2 * Abs(r) < m \/ (2 * Abs(r) = m /\ q % 2 = 0)

Signed(S) == S \cup {-s : s \in S}
DivisionRounds ==
  \A n \in Signed(Amount), d \in Signed(1 .. 8), mode \in Rounding :
    RoundedAs(n, d, DivRound(n, d, mode), mode)

(* No Toman appears or disappears between the customer, the platform and   *)
(* the merchant, in any mode and at any rate: the platform takes exactly   *)
(* the fee of the policy rounded down, however the shares were rounded,    *)
(* and neither side of a SPLIT bears more than a Toman more than the other.*)
FeesConserve ==
  \A base \in Amount \ {0}, mode \in FeeMode, bps \in Bps :
    LET f == CalculateFees(base, mode, bps)
    IN /\ f.customerTotal - f.platformFee = f.merchantNet
       /\ f.merchantNet >= 0
       /\ f.platformFee * BasisPoints <= base * bps
       /\ base * bps < (f.platformFee + 1) * BasisPoints
       /\ mode = "SPLIT" => f.merchantShare - f.customerShare \in {0, 1}

(* The cost of the provider is never understated, and overstated by less   *)
(* than a Toman, so the margin the ledger shows is one the platform has.   *)
CostIsCovered ==
  \A collected \in Amount, bps \in Bps :
    LET fee == ProviderFee(collected, bps)
    IN /\ collected * bps <= fee * BasisPoints
       /\ fee * BasisPoints < collected * bps + BasisPoints
       /\ fee <= collected

(* The merchant is never paid more GRAM than the Toman that were taken     *)
(* cover, at most one atomic unit less, and what was paid converts back to *)
(* no more than that.                                                      *)
GramIsCovered ==
  \A toman \in Amount, rate \in RatePerGram :
    LET gram == TomanToGram(toman, rate)
    IN /\ gram * rate <= toman * GramUnit
       /\ toman * GramUnit < (gram + 1) * rate
       /\ GramToToman(gram, rate) <= toman
=============================================================================
