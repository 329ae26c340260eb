-------------------------------- MODULE Books --------------------------------
(***************************************************************************)
(* Payments with the arithmetic of Amounts: what an invoice asks of the    *)
(* customer and brings the merchant is the fee snapshot createInvoice      *)
(* takes (create-invoice.ts), and what the provider keeps is what          *)
(* finalizePayment books for it (finalize-payment.ts).                     *)
(***************************************************************************)
EXTENDS Payments, Amounts

CONSTANTS
  Base,         \* the amount an invoice was asked for
  BornBy,       \* the fee mode of an invoice
  PlatformBps,  \* config.fees.platformFeePercent
  ProviderBps   \* config.fees.providerFeePercent

(* The snapshot of an invoice, and the cost estimated for its payment. *)
FeesOf(i) == CalculateFees(Base[i], BornBy[i], PlatformBps)
CostOf(i) == ProviderFee(FeesOf(i).customerTotal, ProviderBps)

ASSUME SnapshotAssumption ==
  /\ IsFiniteSet(Invoice)
  /\ Base \in [Invoice -> Amount \ {0}] /\ BornBy \in [Invoice -> FeeMode]
  /\ PlatformBps \in Bps /\ ProviderBps \in Bps
  /\ \A i \in Invoice : Total[i] = FeesOf(i).customerTotal /\ Net[i] = FeesOf(i).merchantNet

(* What the platform has earned is the fees of the invoices that were      *)
(* paid, to the Toman, however the shares of customer and merchant were    *)
(* rounded when they were created.                                         *)
EarnedAreFees ==
  books.revenue =
    MapThenSumSet(LAMBDA i : FeesOf(i).platformFee, {i \in Invoice : invoice[i] = "PAID"})

(* No rounding of divRound, calculateFees, calculateProviderCost and       *)
(* tomanToGram makes or loses money, and the revenue is the fees of what   *)
(* was paid.                                                               *)
AmountsAreExact ==
  DivisionRounds /\ FeesConserve /\ CostIsCovered /\ GramIsCovered /\ EarnedAreFees
=============================================================================
