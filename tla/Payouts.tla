------------------------------ MODULE Payouts ------------------------------
(***************************************************************************)
(* The payout pipeline of the GRAM gateway: the use cases of               *)
(* packages/core/src/use-cases/payout.ts as the worker of                  *)
(* apps/worker/src/main.ts drives them, over one GRAM treasury, the        *)
(* merchants' Toman accounts, and the TON network behind the adapter of    *)
(* packages/ton/src/adapter.ts.                                            *)
(*                                                                         *)
(* One database transaction is one action.  A use case that leaves its     *)
(* transaction to call the signer or the network, and then opens another   *)
(* one, is a task of a worker with one action per step, so that other      *)
(* workers, the expiry sweep, the clock and crashes can come in between.   *)
(* A worker is one cycle of runOnce: setInterval starts the next cycle     *)
(* whether or not the last one has ended, so two cycles can overlap.       *)
(*                                                                         *)
(* The signer is the KmsSigner the container requires in production.  It   *)
(* allocates no TON sequence number, so the sequence gate of               *)
(* broadcastPayout is not taken here.                                      *)
(***************************************************************************)
EXTENDS Integers, FiniteSets, FiniteSetsExt

CONSTANTS
  Merchant,          \* merchants
  Payout,            \* identities of the payouts that can be created
  Worker,            \* worker cycles that can be running at once
  Owner,             \* the merchant a payout belongs to
  Address,           \* wallet addresses
  NoAddress,         \* "the merchant has no ACTIVE wallet"
  NoPayout,          \* the payout of an idle worker
  InitialAvailable,  \* AVAILABLE balance every merchant starts with, in Toman
  Requests,          \* amounts a merchant may ask an instant payout for
  MinPayout,         \* config.settlement.minPayoutToman
  MaxPayout,         \* config.settlement.maxPayoutToman
  Rates,             \* Toman per unit of GRAM a quote may carry
  InitialTreasury,   \* confirmed GRAM balance of the treasury at the start
  SafetyReserve,     \* treasury_accounts.safety_reserve_atomic
  Fundings,          \* amounts of GRAM the owner may still add, each once
  NetworkFees,       \* GRAM the network may charge on top of a transfer
  PipelineBatch,     \* payouts a cycle takes a stage further, the oldest first
  ReconcileBatch     \* UNKNOWN payouts a cycle asks about, the oldest first

(***************************************************************************)
(* What the environment may do.  A run that needs a friendly environment   *)
(* says so here and nowhere else.                                          *)
(***************************************************************************)
CONSTANTS
  MayCrash,           \* a worker may stop between two steps of a use case
  MayLapse,           \* a reservation may outlive RESERVATION_TTL_SECONDS
  LookupMayFail,      \* the lookup by idempotency key may fail
  PropagationBounded, \* a transfer shows before PAYOUT_NOT_FOUND_WINDOW_SECONDS end
  RejectionIsFinal,   \* "a 400 is a definite rejection": of no transfer sent before
  OperatorActs,       \* merchants suspended, wallets replaced, exceptions resolved
  MayFreeze           \* the system may be put under a financial freeze

ASSUME OwnerAssumption == Owner \in [Payout -> Merchant]

(* There are finitely many merchants and payouts, so that they have sums.  *)
ASSUME FiniteAssumption == IsFiniteSet(Merchant) /\ IsFiniteSet(Payout)

ASSUME NoValueAssumption == NoAddress \notin Address /\ NoPayout \notin Payout

ASSUME AmountAssumption ==
  /\ InitialAvailable \in Nat /\ InitialTreasury \in Nat /\ SafetyReserve \in Nat
  /\ MinPayout \in Nat /\ MaxPayout \in Nat \ {0}
  /\ Requests \subseteq Nat /\ Fundings \subseteq Nat /\ NetworkFees \subseteq Nat
  /\ Rates \subseteq Nat \ {0}
  /\ PipelineBatch \in Nat \ {0} /\ ReconcileBatch \in Nat \ {0}

ASSUME EnvironmentAssumption ==
  /\ MayCrash \in BOOLEAN /\ MayLapse \in BOOLEAN /\ LookupMayFail \in BOOLEAN
  /\ PropagationBounded \in BOOLEAN /\ RejectionIsFinal \in BOOLEAN
  /\ OperatorActs \in BOOLEAN /\ MayFreeze \in BOOLEAN

VARIABLES
  status,     \* finance.payouts.status, "NONE" before the row exists
  amount,     \* amount_toman: the net amount owed by the payout
  fee,        \* withdrawal_fee_toman, zero unless the payout is INSTANT
  gram,       \* gram_amount_atomic, zero while NULL
  dest,       \* destination_address
  hash,       \* transaction_hash is known
  aged,       \* updated_at lies further back than the observation window
  exception,  \* an open reconciliation exception names the payout
  reserv,     \* the latest row of finance.liquidity_reservations of the payout
  confirmed,  \* treasury_accounts.confirmed_balance_atomic
  funded,     \* funding amounts already recorded
  available,  \* the merchant account's AVAILABLE bucket
  settling,   \* the merchant account's SETTLING bucket
  revenue,    \* INSTANT_WITHDRAWAL_REVENUE_TOMAN
  clearing,   \* SETTLEMENT_CLEARING_TOMAN
  wallet,     \* address of the merchant's ACTIVE wallet
  eligible,   \* the merchant is ACTIVE with auto payout and no wallet hold
  frozen,     \* a financial freeze is on: cycles that begin now skip the payouts
  signed,     \* amount the signer signed for this sign request, zero if none
  chain,      \* what the network did with the transfer of the payout
  task        \* the use case a worker is in the middle of

payoutVars   == <<status, amount, fee, gram, dest, hash, aged, exception>>
treasuryVars == <<reserv, confirmed, funded>>
ledgerVars   == <<available, settling, revenue, clearing>>
partyVars    == <<wallet, eligible, frozen>>
worldVars    == <<signed, chain>>
vars == <<payoutVars, treasuryVars, ledgerVars, partyVars, worldVars, task>>

-----------------------------------------------------------------------------
(* The states of packages/core/src/states.ts. *)

Status == {"NONE", "QUEUED", "RATE_LOCKED", "WAITING_LIQUIDITY", "RESERVED",
           "SIGNED", "BROADCASTED", "CONFIRMING", "UNKNOWN", "SETTLED", "FAILED"}

(* Statuses the early return of queuePayoutForMerchant looks for. *)
KnownInFlight == {"QUEUED", "RATE_LOCKED", "WAITING_LIQUIDITY", "RESERVED",
                  "BROADCASTED", "UNKNOWN"}

(* Statuses the unique index ux_payouts_merchant_in_flight covers. *)
IndexedInFlight == KnownInFlight \cup {"SIGNED", "CONFIRMING"}

(* Money is committed to an on-chain transaction: PAYOUT_IN_FLIGHT. *)
PayoutInFlight == {"RESERVED", "SIGNED", "BROADCASTED", "CONFIRMING", "UNKNOWN"}

Live == Status \ {"NONE", "SETTLED", "FAILED"}

NoReservation == [st |-> "NONE", amt |-> 0, lapsed |-> FALSE]
NoTransfer    == [st |-> "NONE", amt |-> 0, cost |-> 0]

(* Where in a use case a worker is. *)
Stage == {"idle", "sign", "record", "lookup", "post", "accepted", "ambiguous",
          "rejected", "advance", "reconcile", "fail", "resolve"}
Idle == [at |-> "idle", p |-> NoPayout, amt |-> 0, read |-> "NONE",
         seen |-> "NONE", old |-> FALSE]

IsActive(p) == reserv[p].st = "ACTIVE"

(* The reservation the sign and broadcast guards accept: ACTIVE, unexpired *)
(* by the clock, and for exactly the locked amount.                        *)
IsBacked(p) == IsActive(p) /\ ~reserv[p].lapsed /\ reserv[p].amt = gram[p]

ActivelyReserved == MapThenSumSet(LAMBDA p : reserv[p].amt, {p \in Payout : IsActive(p)})
SpendableUnreserved == confirmed - SafetyReserve     \* mutant: reservations forgotten
Spendable == confirmed - ActivelyReserved - SafetyReserve

(* Two per cent of an instant withdrawal, rounded down. *)
InstantFee(gross) == (gross * 2) \div 100

(* transitionState: the guarded UPDATE of the status, with updated_at. *)
MoveTo(p, s) ==
  /\ status' = [status EXCEPT ![p] = s]
  /\ aged' = [aged EXCEPT ![p] = FALSE]

Begin(w, t) == task[w] = Idle /\ task' = [task EXCEPT ![w] = t]
Goto(w, t)  == task' = [task EXCEPT ![w] = t]
Done(w)     == task' = [task EXCEPT ![w] = Idle]

-----------------------------------------------------------------------------
Init ==
  /\ status = [p \in Payout |-> "NONE"]
  /\ amount = [p \in Payout |-> 0]
  /\ fee = [p \in Payout |-> 0]
  /\ gram = [p \in Payout |-> 0]
  /\ dest = [p \in Payout |-> NoAddress]
  /\ hash = [p \in Payout |-> FALSE]
  /\ aged = [p \in Payout |-> FALSE]
  /\ exception = [p \in Payout |-> FALSE]
  /\ reserv = [p \in Payout |-> NoReservation]
  /\ confirmed = InitialTreasury
  /\ funded = {}
  /\ available = [m \in Merchant |-> InitialAvailable]
  /\ settling = [m \in Merchant |-> 0]
  /\ revenue = 0
  /\ clearing = 0
  /\ wallet \in [Merchant -> Address]
  /\ eligible = [m \in Merchant |-> TRUE]
  /\ frozen = FALSE
  /\ signed = [p \in Payout |-> 0]
  /\ chain = [p \in Payout |-> NoTransfer]
  /\ task = [w \in Worker |-> Idle]

(***************************************************************************)
(* queuePayoutForMerchant.  AUTOMATIC takes the whole AVAILABLE balance,   *)
(* INSTANT what the merchant asked for less the withdrawal fee; both are   *)
(* capped by MaxPayout.  The row passes through CREATED inside the         *)
(* transaction, which nobody else can see.                                 *)
(***************************************************************************)
QueueGross(p, gross, charge) ==
  LET m   == Owner[p]
      net == gross - charge
  IN /\ status[p] = "NONE"
     /\ eligible[m]
     /\ wallet[m] # NoAddress
     /\ \A q \in Payout : Owner[q] = m => status[q] \notin KnownInFlight
     /\ \A q \in Payout : Owner[q] = m => status[q] \notin IndexedInFlight
     /\ gross <= available[m]
     /\ net > 0
     /\ amount' = [amount EXCEPT ![p] = net]
     /\ fee' = [fee EXCEPT ![p] = charge]
     /\ dest' = [dest EXCEPT ![p] = wallet[m]]
     /\ available' = [available EXCEPT ![m] = @ - gross]
     /\ settling' = [settling EXCEPT ![m] = @ + net]
     /\ revenue' = revenue + charge
     /\ MoveTo(p, "QUEUED")
     /\ UNCHANGED <<gram, hash, exception, treasuryVars, clearing, partyVars,
                    worldVars, task>>

Capped(gross) == IF gross > MaxPayout THEN MaxPayout ELSE gross

QueueAutomatic(p) ==
  /\ available[Owner[p]] >= MinPayout
  /\ QueueGross(p, Capped(available[Owner[p]]), 0)

QueueInstant(p, requested) ==
  /\ requested <= available[Owner[p]]
  /\ requested >= MinPayout
  /\ QueueGross(p, Capped(requested), InstantFee(Capped(requested)))

(***************************************************************************)
(* lockPayoutRate.  The conversion floors.  A payout that waits for        *)
(* liquidity is locked again, at whatever the rate is by then.             *)
(***************************************************************************)
Lockable(p) == status[p] \in {"QUEUED", "WAITING_LIQUIDITY"}

LockPayoutRate(p, rate) ==
  LET grams == amount[p] \div rate
  IN /\ Lockable(p)
     /\ grams > 0
     /\ gram' = [gram EXCEPT ![p] = grams]
     /\ MoveTo(p, "RATE_LOCKED")
     /\ UNCHANGED <<amount, fee, dest, hash, exception, treasuryVars, ledgerVars,
                    partyVars, worldVars, task>>

(***************************************************************************)
(* reservePayoutLiquidity: the full amount is reserved, or the payout      *)
(* waits.  reserveQueuedPayouts and the pipeline both end here, and the    *)
(* transaction checks everything again, so which payout is tried first is  *)
(* left open.                                                              *)
(***************************************************************************)
ReservePayoutLiquidity(p) ==
  /\ status[p] = "RATE_LOCKED"
  /\ \/ /\ Spendable < gram[p]
        /\ MoveTo(p, "WAITING_LIQUIDITY")
        /\ UNCHANGED reserv
     \/ /\ Spendable >= gram[p]
        /\ ~IsActive(p)
        /\ reserv' = [reserv EXCEPT ![p] = [st |-> "ACTIVE", amt |-> gram[p], lapsed |-> FALSE]]
        /\ MoveTo(p, "RESERVED")
  /\ UNCHANGED <<amount, fee, gram, dest, hash, exception, confirmed, funded,
                 ledgerVars, partyVars, worldVars, task>>

(***************************************************************************)
(* signPayout: validate, call the signer with no transaction open, record. *)
(* The signer deduplicates on the sign request id payout:<id>, so only the *)
(* first request for a payout produces a signature, for the amount it      *)
(* carried.                                                                *)
(***************************************************************************)
SignValidate(w, p) ==
  /\ status[p] = "RESERVED"
  /\ IsBacked(p)
  /\ Begin(w, [Idle EXCEPT !.at = "sign", !.p = p, !.amt = gram[p]])
  /\ UNCHANGED <<payoutVars, treasuryVars, ledgerVars, partyVars, worldVars>>

SignerSign(w) ==
  LET t == task[w]
  IN /\ t.at = "sign"
     /\ signed' = [signed EXCEPT ![t.p] = IF @ = 0 THEN t.amt ELSE @]
     /\ Goto(w, [t EXCEPT !.at = "record"])
     /\ UNCHANGED <<payoutVars, treasuryVars, ledgerVars, partyVars, chain>>

SignRecord(w) ==
  LET t == task[w]
  IN /\ t.at = "record"
     /\ \/ status[t.p] = "RESERVED" /\ MoveTo(t.p, "SIGNED")
        \/ status[t.p] # "RESERVED" /\ UNCHANGED <<status, aged>>
     /\ Done(w)
     /\ UNCHANGED <<amount, fee, gram, dest, hash, exception, treasuryVars,
                    ledgerVars, partyVars, worldVars>>

(***************************************************************************)
(* broadcastPayout: validate under the row lock, look the idempotency key  *)
(* up, hand the transfer to the network, record what it answered.  The     *)
(* validating transaction touches updated_at with the attempt count.       *)
(***************************************************************************)
Sendable(p) == status[p] = "SIGNED"

BroadcastValidate(w, p) ==
  /\ Sendable(p)
  /\ IsBacked(p)
  /\ wallet[Owner[p]] = dest[p]
  /\ aged' = [aged EXCEPT ![p] = FALSE]
  /\ Begin(w, [Idle EXCEPT !.at = "lookup", !.p = p, !.amt = gram[p]])
  /\ UNCHANGED <<status, amount, fee, gram, dest, hash, exception, treasuryVars,
                 ledgerVars, partyVars, worldVars>>

(* A refusal that comes after a transfer of the payout went out is taken   *)
(* for one all the same.  Whether there is such a refusal is up to the     *)
(* network and to the configuration of the worker.                         *)
MayReject(p) == RejectionIsFinal => chain[p].st \notin {"PENDING", "LANDED"}

(* TonAdapter.send: a request that fails its own checks is refused, and a  *)
(* transfer known under the key is not sent again.  A lookup that fails,   *)
(* or asks an indexer that lags, reads as "not sent".                      *)
SendLookup(w) ==
  LET t == task[w]
  IN /\ t.at = "lookup"
     /\ \/ MayReject(t.p) /\ Goto(w, [t EXCEPT !.at = "rejected"])
        \/ chain[t.p].st # "NONE" /\ Goto(w, [t EXCEPT !.at = "accepted"])
        \/ Goto(w, [t EXCEPT !.at = "post"])
     /\ UNCHANGED <<payoutVars, treasuryVars, ledgerVars, partyVars, worldVars>>

(* The POST.  The network deduplicates on the key it carries.  A timeout   *)
(* or an answer without a hash says nothing about whether it went out; a   *)
(* 400 says that THIS request did not, of an earlier one it says nothing.  *)
SendPost(w) ==
  LET t == task[w]
      out == IF chain[t.p].st = "NONE"
             THEN [chain EXCEPT ![t.p] = [st |-> "PENDING", amt |-> t.amt, cost |-> 0]]
             ELSE chain
  IN /\ t.at = "post"
     /\ \/ chain' = out /\ Goto(w, [t EXCEPT !.at = "accepted"])
        \/ chain' \in {chain, out} /\ Goto(w, [t EXCEPT !.at = "ambiguous"])
        \/ MayReject(t.p) /\ chain' = chain /\ Goto(w, [t EXCEPT !.at = "rejected"])
     /\ UNCHANGED <<payoutVars, treasuryVars, ledgerVars, partyVars, signed>>

BroadcastRecord(w) ==
  LET t == task[w]
  IN /\ t.at = "accepted"
     /\ \/ /\ status[t.p] = "SIGNED"
           /\ MoveTo(t.p, "BROADCASTED")
           /\ hash' = [hash EXCEPT ![t.p] = TRUE]
        \/ status[t.p] # "SIGNED" /\ UNCHANGED <<status, aged, hash>>
     /\ Done(w)
     /\ UNCHANGED <<amount, fee, gram, dest, exception, treasuryVars, ledgerVars,
                    partyVars, worldVars>>

MarkUnknown(w) ==
  LET t == task[w]
  IN /\ t.at = "ambiguous"
     /\ \/ /\ status[t.p] \in {"RESERVED", "SIGNED", "BROADCASTED", "CONFIRMING"}
           /\ MoveTo(t.p, "UNKNOWN")
           /\ exception' = [exception EXCEPT ![t.p] = TRUE]
        \/ /\ status[t.p] \notin {"RESERVED", "SIGNED", "BROADCASTED", "CONFIRMING"}
           /\ UNCHANGED <<status, aged, exception>>
     /\ Done(w)
     /\ UNCHANGED <<amount, fee, gram, dest, hash, treasuryVars, ledgerVars,
                    partyVars, worldVars>>

(***************************************************************************)
(* failPayout: SETTLING goes back to AVAILABLE, an instant fee is          *)
(* reversed, the reservation is released.  FAILED already is a no-op;      *)
(* SETTLED and UNKNOWN throw.                                              *)
(***************************************************************************)
FailableTwice(p)   == status[p] \notin {"NONE", "SETTLED", "UNKNOWN"}  \* mutant
Failable(p) == status[p] \notin {"NONE", "FAILED", "SETTLED", "UNKNOWN"}

RefundNet(p) == amount[p]     \* mutant: the fee is reversed but not credited
Refund(p) == amount[p] + fee[p]

EndReservation(p, end) ==
  reserv' = IF IsActive(p) THEN [reserv EXCEPT ![p].st = end] ELSE reserv

FailPayout(p) ==
  LET m == Owner[p]
  IN /\ settling' = [settling EXCEPT ![m] = @ - amount[p]]
     /\ available' = [available EXCEPT ![m] = @ + Refund(p)]
     /\ revenue' = revenue - fee[p]
     /\ EndReservation(p, "RELEASED")
     /\ MoveTo(p, "FAILED")

FailRejected(w) ==
  LET t == task[w]
  IN /\ t.at = "rejected"
     /\ \/ Failable(t.p) /\ FailPayout(t.p)
        \/ ~Failable(t.p) /\ UNCHANGED <<status, aged, reserv, available, settling, revenue>>
     /\ Done(w)
     /\ UNCHANGED <<amount, fee, gram, dest, hash, exception, confirmed, funded,
                    clearing, partyVars, worldVars>>

(***************************************************************************)
(* settlePayout, the only way to SETTLED: asset, network and destination   *)
(* of the evidence match the snapshot by construction of the request, the  *)
(* amount is compared, the liability is closed, the reservation consumed,  *)
(* the treasury debited with principal and network fee.  The database      *)
(* refuses a negative treasury balance.                                    *)
(***************************************************************************)
SettleableSeen(p, evidence) ==          \* mutant: an ambiguous payout is not settled
  /\ status[p] \in {"BROADCASTED", "CONFIRMING"} /\ evidence = gram[p]
  /\ confirmed >= gram[p] + chain[p].cost
Settleable(p, evidence) ==
  /\ status[p] \in {"BROADCASTED", "CONFIRMING", "UNKNOWN"}
  /\ evidence = gram[p]
  /\ confirmed >= gram[p] + chain[p].cost

SettlePayout(p) ==
  LET m == Owner[p]
  IN /\ settling' = [settling EXCEPT ![m] = @ - amount[p]]
     /\ clearing' = clearing + amount[p]
     /\ confirmed' = confirmed - (gram[p] + chain[p].cost)
     /\ EndReservation(p, "CONSUMED")
     /\ hash' = [hash EXCEPT ![p] = TRUE]
     /\ MoveTo(p, "SETTLED")

SkipSettle == UNCHANGED <<status, aged, hash, reserv, confirmed, settling, clearing>>

(***************************************************************************)
(* What getTransferStatus can answer.  With a hash it reads the            *)
(* transaction, which an indexer may not show yet; without one it looks    *)
(* the idempotency key up, and a failed lookup answers NOT_FOUND.          *)
(***************************************************************************)
CanAnswerEarly(p, answer) ==            \* mutant: seen is taken for confirmed
  answer = "CONFIRMED" /\ chain[p].st \in {"PENDING", "LANDED"}
CanAnswer(p, answer) ==
  \/ answer = "NOT_FOUND" /\ \/ chain[p].st \in {"NONE", "DROPPED"}
                             \/ ~PropagationBounded
                             \/ ~aged[p]
                             \/ LookupMayFail /\ ~hash[p]
  \/ answer = "PENDING"   /\ chain[p].st \in {"PENDING", "LANDED"}
  \/ answer = "CONFIRMED" /\ chain[p].st = "LANDED"
  \/ answer = "FAILED"    /\ chain[p].st = "FAILED"

Answer == {"NOT_FOUND", "PENDING", "CONFIRMED", "FAILED"}

(* The worker reads the row, asks the chain, and keeps both answers: as    *)
(* the BROADCASTED/CONFIRMING stage of advancePayouts, or as               *)
(* reconcilePayout, which works out the age of the row it read afterwards. *)
Observe(w, p, use, statuses) ==
  /\ status[p] \in statuses
  /\ \E answer \in Answer :
       /\ CanAnswer(p, answer)
       /\ Begin(w, [at |-> use, p |-> p, read |-> status[p], seen |-> answer, old |-> aged[p],
                    amt |-> IF answer = "CONFIRMED" THEN chain[p].amt ELSE 0])
  /\ UNCHANGED <<payoutVars, treasuryVars, ledgerVars, partyVars, worldVars>>

AdvanceObserve(w, p) == Observe(w, p, "advance", {"BROADCASTED", "CONFIRMING"})
ReconcileObserve(w, p) ==
  Observe(w, p, "reconcile", {"UNKNOWN", "BROADCASTED", "CONFIRMING"})

MarkConfirming(w) ==
  LET t == task[w]
  IN /\ t.at = "advance" /\ t.seen = "PENDING" /\ t.read = "BROADCASTED"
     /\ \/ /\ status[t.p] = "BROADCASTED"
           /\ MoveTo(t.p, "CONFIRMING")
           /\ hash' = [hash EXCEPT ![t.p] = TRUE]
        \/ status[t.p] # "BROADCASTED" /\ UNCHANGED <<status, aged, hash>>
     /\ Done(w)
     /\ UNCHANGED <<amount, fee, gram, dest, exception, treasuryVars, ledgerVars,
                    partyVars, worldVars>>

AdvanceSettle(w) ==
  LET t == task[w]
  IN /\ t.at = "advance" /\ t.seen = "CONFIRMED"
     /\ \/ Settleable(t.p, t.amt) /\ SettlePayout(t.p)
        \/ ~Settleable(t.p, t.amt) /\ SkipSettle
     /\ Done(w)
     /\ UNCHANGED <<amount, fee, gram, dest, exception, funded, available, revenue,
                    partyVars, worldVars>>

(* A payout settled meanwhile is a replay, not an error: reconciliation    *)
(* goes on to resolve the exception.  Any other refusal throws.            *)
SettledBefore(p) == status[p] = "SETTLED"

ReconcileSettle(w) ==
  LET t == task[w]
  IN /\ t.at = "reconcile" /\ t.seen = "CONFIRMED"
     /\ \/ Settleable(t.p, t.amt) /\ SettlePayout(t.p) /\ Goto(w, [t EXCEPT !.at = "resolve"])
        \/ SettledBefore(t.p) /\ SkipSettle /\ Goto(w, [t EXCEPT !.at = "resolve"])
        \/ ~Settleable(t.p, t.amt) /\ ~SettledBefore(t.p) /\ SkipSettle /\ Done(w)
     /\ UNCHANGED <<amount, fee, gram, dest, exception, funded, available, revenue,
                    partyVars, worldVars>>

(* Nothing that was handed to the network is still unseen.  A window that  *)
(* bounds propagation leaves room for the request that asks, so this holds *)
(* of the answer even if the window ends before its age is worked out.     *)
NothingUnseen(p, states) ==
  PropagationBounded =>
    /\ chain[p].st \notin states
    /\ \A w \in Worker : task[w].p = p => task[w].at \notin {"lookup", "post"}

(* The window ends between the answer and the look at the clock.           *)
ReconcileAges(w) ==
  LET t == task[w]
  IN /\ t.at = "reconcile" /\ t.seen = "NOT_FOUND" /\ ~t.old
     /\ NothingUnseen(t.p, {"PENDING", "LANDED"})
     /\ Goto(w, [t EXCEPT !.old = TRUE])
     /\ UNCHANGED <<payoutVars, treasuryVars, ledgerVars, partyVars, worldVars>>

(* Unseen for longer than the observation window: a first transaction      *)
(* takes the payout out of UNKNOWN ...                                     *)
DefinitiveAtOnce(t) == t.seen = "NOT_FOUND"                \* mutant: no window
NeverDefinitive(t)  == t.seen = "NOT_FOUND" /\ FALSE       \* mutant: never failed on a timer
Definitive(t) == t.seen = "NOT_FOUND" /\ t.old

ReconcileReset(w) ==
  LET t == task[w]
  IN /\ t.at = "reconcile" /\ Definitive(t)
     /\ \/ status[t.p] = "UNKNOWN" /\ MoveTo(t.p, "RESERVED")
        \/ status[t.p] # "UNKNOWN" /\ UNCHANGED <<status, aged>>
     /\ Goto(w, [t EXCEPT !.at = "fail"])
     /\ UNCHANGED <<amount, fee, gram, dest, hash, exception, treasuryVars,
                    ledgerVars, partyVars, worldVars>>

(* ... and a second one fails it, whatever it is by then. *)
FailedOrRefused(p) == ~Failable(p)     \* mutant: a refusal reads as failed
FailedBefore(p) == status[p] = "FAILED"

ReconcileFail(w) ==
  LET t == task[w]
  IN /\ t.at = "fail"
     /\ \/ Failable(t.p) /\ FailPayout(t.p) /\ Goto(w, [t EXCEPT !.at = "resolve"])
        \/ /\ FailedBefore(t.p) /\ Goto(w, [t EXCEPT !.at = "resolve"])
           /\ UNCHANGED <<status, aged, reserv, available, settling, revenue>>
        \/ /\ ~Failable(t.p) /\ ~FailedBefore(t.p) /\ Done(w)
           /\ UNCHANGED <<status, aged, reserv, available, settling, revenue>>
     /\ UNCHANGED <<amount, fee, gram, dest, hash, exception, confirmed, funded,
                    clearing, partyVars, worldVars>>

ResolveExceptions(w) ==
  LET t == task[w]
  IN /\ t.at = "resolve"
     /\ exception' = [exception EXCEPT ![t.p] = FALSE]
     /\ Done(w)
     /\ UNCHANGED <<status, amount, fee, gram, dest, hash, aged, treasuryVars,
                    ledgerVars, partyVars, worldVars>>

(* Nothing to act on: the payout stays as it is until the next cycle. *)
StillUnknown(w) ==
  LET t == task[w]
  IN /\ \/ t.at = "advance" /\ \/ t.seen \in {"NOT_FOUND", "FAILED"}
                               \/ t.seen = "PENDING" /\ t.read # "BROADCASTED"
        \/ t.at = "reconcile" /\ t.seen # "CONFIRMED" /\ ~Definitive(t)
     /\ Done(w)
     /\ UNCHANGED <<payoutVars, treasuryVars, ledgerVars, partyVars, worldVars>>

(* The process dies, or a call throws: what the worker held is forgotten. *)
Crash(w) ==
  /\ MayCrash
  /\ task[w] # Idle
  /\ Done(w)
  /\ UNCHANGED <<payoutVars, treasuryVars, ledgerVars, partyVars, worldVars>>

-----------------------------------------------------------------------------
(* expireStaleReservations: every lapsed ACTIVE reservation in one         *)
(* transaction; only a RESERVED payout goes back to RATE_LOCKED.           *)
Stale(p) == IsActive(p) /\ reserv[p].lapsed

ExpireStaleReservations ==
  LET stale == {p \in Payout : Stale(p)}
      back  == {p \in stale : status[p] = "RESERVED"}
  IN /\ stale # {}
     /\ reserv' = [p \in Payout |->
                     IF p \in stale THEN [reserv[p] EXCEPT !.st = "EXPIRED"] ELSE reserv[p]]
     /\ status' = [p \in Payout |-> IF p \in back THEN "RATE_LOCKED" ELSE status[p]]
     /\ aged' = [p \in Payout |-> IF p \in back THEN FALSE ELSE aged[p]]
     /\ UNCHANGED <<amount, fee, gram, dest, hash, exception, confirmed, funded,
                    ledgerVars, partyVars, worldVars, task>>

(* recordManualTreasuryFunding, idempotent on the transaction hash. *)
RecordFunding(amt) ==
  /\ amt > 0
  /\ amt \notin funded
  /\ funded' = funded \cup {amt}
  /\ confirmed' = confirmed + amt
  /\ UNCHANGED <<payoutVars, reserv, ledgerVars, partyVars, worldVars, task>>

-----------------------------------------------------------------------------
(* The clock, the network and the operator. *)

(* RESERVATION_TTL_SECONDS passes. *)
ReservationLapses(p) ==
  /\ MayLapse
  /\ IsActive(p) /\ ~reserv[p].lapsed
  /\ reserv' = [reserv EXCEPT ![p].lapsed = TRUE]
  /\ UNCHANGED <<payoutVars, confirmed, funded, ledgerVars, partyVars, worldVars, task>>

(* PAYOUT_NOT_FOUND_WINDOW_SECONDS passes.  Where propagation is bounded   *)
(* nothing handed to the network is still on its way by then, and no send  *)
(* call is still running.                                                  *)
WindowPasses(p) ==
  /\ status[p] \in {"BROADCASTED", "CONFIRMING", "UNKNOWN"}
  /\ ~aged[p]
  /\ NothingUnseen(p, {"PENDING"})
  /\ aged' = [aged EXCEPT ![p] = TRUE]
  /\ UNCHANGED <<status, amount, fee, gram, dest, hash, exception, treasuryVars,
                 ledgerVars, partyVars, worldVars, task>>

TransferLands(p, cost) ==
  /\ chain[p].st = "PENDING"
  /\ chain' = [chain EXCEPT ![p] = [@ EXCEPT !.st = "LANDED", !.cost = cost]]
  /\ UNCHANGED <<payoutVars, treasuryVars, ledgerVars, partyVars, signed, task>>

(* It is never included, or it is included and fails without moving money. *)
TransferLost(p, end) ==
  /\ end \in {"DROPPED", "FAILED"}
  /\ chain[p].st = "PENDING"
  /\ chain' = [chain EXCEPT ![p].st = end]
  /\ UNCHANGED <<payoutVars, treasuryVars, ledgerVars, partyVars, signed, task>>

(* A wallet is registered, activated or disabled outside the pipeline. *)
ReplaceWallet(m, address) ==
  /\ OperatorActs
  /\ wallet' = [wallet EXCEPT ![m] = address]
  /\ UNCHANGED <<payoutVars, treasuryVars, ledgerVars, eligible, frozen, worldVars, task>>

(* suspendMerchant, activateMerchant, the auto payout flag, a wallet hold. *)
ChangeEligibility(m) ==
  /\ OperatorActs
  /\ eligible' = [eligible EXCEPT ![m] = ~@]
  /\ UNCHANGED <<payoutVars, treasuryVars, ledgerVars, wallet, frozen, worldVars, task>>

(* resolveException: an admin closes an exception, whatever its payout is. *)
AdminResolves(p) ==
  /\ OperatorActs
  /\ exception[p]
  /\ exception' = [exception EXCEPT ![p] = FALSE]
  /\ UNCHANGED <<status, amount, fee, gram, dest, hash, aged, treasuryVars,
                 ledgerVars, partyVars, worldVars, task>>

(* The freeze is put on or lifted.  A cycle reads it when it begins and    *)
(* goes on whatever happens to it, so it stops no step, only the cycles    *)
(* that Fairness counts on.                                                *)
ToggleFreeze ==
  /\ MayFreeze
  /\ frozen' = ~frozen
  /\ UNCHANGED <<payoutVars, treasuryVars, ledgerVars, wallet, eligible, worldVars, task>>

-----------------------------------------------------------------------------
PipelineStep ==
  \E p \in Payout :
    \/ QueueAutomatic(p)
    \/ \E requested \in Requests : QueueInstant(p, requested)
    \/ \E rate \in Rates : LockPayoutRate(p, rate)
    \/ ReservePayoutLiquidity(p)

BeginTask ==
  \E w \in Worker, p \in Payout :
    SignValidate(w, p) \/ BroadcastValidate(w, p) \/ AdvanceObserve(w, p) \/ ReconcileObserve(w, p)

TaskStep(w) ==
  \/ SignerSign(w) \/ SignRecord(w)
  \/ SendLookup(w) \/ SendPost(w) \/ BroadcastRecord(w) \/ MarkUnknown(w) \/ FailRejected(w)
  \/ MarkConfirming(w) \/ AdvanceSettle(w)
  \/ ReconcileSettle(w) \/ ReconcileReset(w) \/ ReconcileFail(w) \/ ResolveExceptions(w)
  \/ StillUnknown(w)

EnvironmentStep ==
  \/ \E p \in Payout : ReservationLapses(p) \/ WindowPasses(p)
  \/ \E p \in Payout, end \in {"DROPPED", "FAILED"} : TransferLost(p, end)
  \/ \E p \in Payout, cost \in NetworkFees : TransferLands(p, cost)
  \/ \E m \in Merchant, address \in Address \cup {NoAddress} : ReplaceWallet(m, address)
  \/ \E m \in Merchant : ChangeEligibility(m)
  \/ \E p \in Payout : AdminResolves(p)
  \/ ToggleFreeze
  \/ \E w \in Worker : ReconcileAges(w) \/ Crash(w)

Next ==
  \/ PipelineStep
  \/ BeginTask
  \/ \E w \in Worker : TaskStep(w)
  \/ ExpireStaleReservations
  \/ \E amt \in Fundings : RecordFunding(amt)
  \/ EnvironmentStep

Spec == Init /\ [][Next]_vars

(***************************************************************************)
(* Fairness.  setInterval starts cycle after cycle.  A cycle that begins   *)
(* under no freeze takes the PipelineBatch oldest payouts of the pipeline  *)
(* one stage further and asks about the ReconcileBatch oldest UNKNOWN      *)
(* ones, so a payout with fewer others than that beside it is not passed   *)
(* over for ever; one with as many may be, because payouts that no step    *)
(* moves keep their places.  Between its attempts the worker is at other   *)
(* payouts, and an answer may lag: hence strong fairness, and of the       *)
(* answers that help.  Crashes come in any number, but not for ever.  The  *)
(* network includes a transfer or loses it, and the clock runs.  Nothing   *)
(* is assumed of merchants, funding or operators.                          *)
(***************************************************************************)
Pipelined(p) == status[p] \in Live \ {"UNKNOWN"}

InBatch(p) ==
  /\ ~frozen
  /\ Cardinality({q \in Payout \ {p} : Pipelined(q)}) < PipelineBatch
InSweep(p) ==
  /\ ~frozen
  /\ Cardinality({q \in Payout \ {p} : status[q] = "UNKNOWN"}) < ReconcileBatch

Advance(p) ==
  /\ InBatch(p)
  /\ ReservePayoutLiquidity(p) \/ \E rate \in Rates : LockPayoutRate(p, rate)
Learn(w, p) ==
  /\ \/ InBatch(p) /\ AdvanceObserve(w, p)
     \/ InSweep(p) /\ status[p] = "UNKNOWN" /\ ReconcileObserve(w, p)
  /\ task'[w].seen \in {"CONFIRMED"} \cup (IF aged[p] THEN {"NOT_FOUND"} ELSE {})
TakeUp(w, p) ==
  \/ InBatch(p) /\ (SignValidate(w, p) \/ BroadcastValidate(w, p))
  \/ Learn(w, p)

Fairness ==
  /\ \A p \in Payout :
       /\ WF_vars(Advance(p))
       /\ WF_vars(WindowPasses(p))
       /\ WF_vars(\E cost \in NetworkFees : TransferLands(p, cost))
       /\ \A w \in Worker : SF_vars(TakeUp(w, p))
  /\ \A w \in Worker : WF_vars(TaskStep(w))
  /\ <>[][\A w \in Worker : Crash(w) => TaskStep(w)]_vars

FairSpec == Spec /\ Fairness

-----------------------------------------------------------------------------
(***************************************************************************)
(* Types.                                                                  *)
(***************************************************************************)
Reservation == [st : {"NONE", "ACTIVE", "CONSUMED", "RELEASED", "EXPIRED"},
                amt : Nat, lapsed : BOOLEAN]
Transfer == [st : {"NONE", "PENDING", "LANDED", "DROPPED", "FAILED"}, amt : Nat, cost : Nat]
Task == [at : Stage, p : Payout \cup {NoPayout}, amt : Nat, read : Status,
         seen : Answer \cup {"NONE"}, old : BOOLEAN]

(* Every variable keeps its type: no balance of the treasury or of a       *)
(* merchant's bucket is ever negative, which in the code are CHECK         *)
(* constraints that would abort the transaction.                           *)
TypeOK ==
  /\ status \in [Payout -> Status]
  /\ amount \in [Payout -> Nat] /\ fee \in [Payout -> Nat] /\ gram \in [Payout -> Nat]
  /\ dest \in [Payout -> Address \cup {NoAddress}]
  /\ hash \in [Payout -> BOOLEAN] /\ aged \in [Payout -> BOOLEAN]
  /\ exception \in [Payout -> BOOLEAN]
  /\ reserv \in [Payout -> Reservation]
  /\ confirmed \in Nat /\ funded \subseteq Fundings
  /\ available \in [Merchant -> Nat] /\ settling \in [Merchant -> Nat]
  /\ revenue \in Int /\ clearing \in Nat
  /\ wallet \in [Merchant -> Address \cup {NoAddress}] /\ eligible \in [Merchant -> BOOLEAN]
  /\ frozen \in BOOLEAN
  /\ signed \in [Payout -> Nat] /\ chain \in [Payout -> Transfer]
  /\ task \in [Worker -> Task]

(***************************************************************************)
(* Safety that holds whatever the environment does.                        *)
(***************************************************************************)
IsLive(p) == status[p] \in Live
Decided(p) == status[p] \in {"SETTLED", "FAILED"}

(* A merchant never has two payouts under way, whatever order payouts are  *)
(* queued, failed and reconciled in (ux_payouts_merchant_in_flight).       *)
OneInFlight ==
  \A p, q \in Payout : Owner[p] = Owner[q] /\ IsLive(p) /\ IsLive(q) => p = q

(* The SETTLING bucket of a merchant is exactly what the payout under way  *)
(* owes, and empty when there is none: no path through settle, fail,       *)
(* reject and reconcile takes it out twice or leaves it behind.            *)
SettlingIsOwed ==
  \A m \in Merchant :
    /\ \A p \in Payout : Owner[p] = m /\ IsLive(p) => settling[m] = amount[p]
    /\ (\A p \in Payout : Owner[p] = m => ~IsLive(p)) => settling[m] = 0

(* Toman is only moved: balances, fee revenue and what was settled add up  *)
(* to what the merchants had, a failed instant payout with its fee         *)
(* included.                                                               *)
TomanConserved ==
  MapThenSumSet(LAMBDA m : available[m] + settling[m], Merchant) + revenue + clearing
    = Cardinality(Merchant) * InitialAvailable

(* GRAM only leaves the treasury with a settled payout, its fee included,  *)
(* and every settled payout took its GRAM out once.                        *)
Funded(amounts) == SumFunctionOnSet([amt \in amounts |-> amt], amounts)
Spent == [p \in Payout |-> IF status[p] = "SETTLED" THEN gram[p] + chain[p].cost ELSE 0]
GramConserved ==
  confirmed + SumFunctionOnSet(Spent, Payout) = InitialTreasury + Funded(funded)

(* The books of a payout hold together: types, no negative bucket, and no  *)
(* Toman or GRAM that appears or disappears whatever cycles overlap        *)
(* (queuePayoutForMerchant, settlePayout and failPayout,                   *)
(* recordManualTreasuryFunding).                                           *)
BooksBalance == TypeOK /\ TomanConserved /\ GramConserved

(* No chain confirmation, no SETTLED: the transfer landed, and with the    *)
(* amount locked for the payout (settlePayout).                            *)
SettledOnEvidence ==
  \A p \in Payout : status[p] = "SETTLED" => chain[p].st = "LANDED" /\ chain[p].amt = gram[p]

(* Liquidity is held only for a payout that still needs it: nothing that   *)
(* ended, or went back to the queue, keeps an ACTIVE reservation.          *)
ActiveOnlyInFlight ==
  \A p \in Payout : IsActive(p) => status[p] \in PayoutInFlight

(* An ambiguous payout is on the operators' list until one of them takes   *)
(* it off: no payout becomes UNKNOWN without an exception, and no late     *)
(* reconciliation resolves that of a payout that is UNKNOWN.               *)
UnknownIsVisible ==
  [][\A p \in Payout : status'[p] = "UNKNOWN" /\ ~exception'[p] =>
       \/ status[p] = "UNKNOWN" /\ ~exception[p]
       \/ AdminResolves(p)]_vars

(* What a worker learnt before it opened its last transaction is still     *)
(* true when it acts on it: the evidence it settles on is that of a        *)
(* transfer that landed, and the exceptions it resolves are those of a     *)
(* payout that is decided, whatever other workers did in between.          *)
Remembers(t) ==
  /\ t.at # "idle" => t.p \in Payout
  /\ t.at \in {"advance", "reconcile"} /\ t.seen = "CONFIRMED" =>
       chain[t.p].st = "LANDED" /\ chain[t.p].amt = t.amt
  /\ t.at = "resolve" => Decided(t.p)
WorkersRemember == \A w \in Worker : Remembers(task[w])

(* A payout is decided once: no slow worker moves it, or its figures, once *)
(* it is SETTLED or FAILED.                                                *)
DecidedOnce ==
  [][\A p \in Payout : Decided(p) =>
       /\ status'[p] = status[p]
       /\ amount'[p] = amount[p] /\ gram'[p] = gram[p]]_vars

(***************************************************************************)
(* Safety of the money under the assumptions its run states.               *)
(***************************************************************************)

(* Money goes back to the merchant only when the transfer did not happen   *)
(* and no longer can (failPayout: "Only legal when we know the transfer    *)
(* definitively did NOT happen").                                          *)
NoRefundOfTransfer ==
  \A p \in Payout : status[p] = "FAILED" => chain[p].st \notin {"PENDING", "LANDED"}

(* A payout whose money is committed on chain holds an ACTIVE reservation  *)
(* for the locked amount until it is decided.                              *)
InFlightIsReserved ==
  \A p \in Payout : status[p] \in PayoutInFlight => IsActive(p) /\ reserv[p].amt = gram[p]

(* The treasury can pay everything it is committed to and keep its safety  *)
(* reserve, but for what the network charged: it is never promised twice.  *)
Charged == [p \in Payout |-> IF status[p] = "SETTLED" THEN chain[p].cost ELSE 0]
InFlightCovered ==
  MapThenSumSet(LAMBDA p : gram[p], {p \in Payout : status[p] \in PayoutInFlight})
    + SafetyReserve <= confirmed + SumFunctionOnSet(Charged, Payout)

(* A payout on its way is backed by a reservation of its own and by GRAM   *)
(* the treasury has (reservePayoutLiquidity, expireStaleReservations).     *)
InFlightIsBacked == InFlightIsReserved /\ InFlightCovered

(* The figure broadcast is the figure the signer signed, and the figure    *)
(* locked for the payout (ADR-004: the number the merchant is told is the  *)
(* number that lands).                                                     *)
SentIsSigned ==
  \A p \in Payout : chain[p].st # "NONE" => chain[p].amt = signed[p]
SentIsLocked ==
  \A p \in Payout : chain[p].st # "NONE" => chain[p].amt = gram[p]

(* What is sent is what was signed and what the merchant was told, through *)
(* every retry and relock (lockPayoutRate, signPayout, broadcastPayout).   *)
SentIsAgreed == SentIsSigned /\ SentIsLocked

(***************************************************************************)
(* Liveness, under FairSpec, while reservations do not lapse and the       *)
(* treasury suffices, of every payout that is in reach of the cycles from  *)
(* some time on.                                                           *)
(***************************************************************************)
InReach(p) == IF status[p] = "UNKNOWN" THEN InSweep(p) ELSE InBatch(p)

(* A transfer that landed is settled, however the send call ended.         *)
LandedIsSettled ==
  \A p \in Payout : <>[]InReach(p) => (chain[p].st = "LANDED" ~> status[p] = "SETTLED")

(* An ambiguous payout does not stay so, unless its transaction failed on  *)
(* chain: it is settled or failed, or, when a worker died between the two  *)
(* transactions with which reconcilePayout returns the money, signed anew. *)
UnknownIsDecided ==
  \A p \in Payout : <>[]InReach(p) =>
    (status[p] = "UNKNOWN" ~> Decided(p) \/ chain[p].st = "FAILED" \/ status[p] = "SIGNED")

(* A queued payout is paid or returned, unless its transfer was lost.      *)
QueuedIsDecided ==
  \A p \in Payout : <>[]InReach(p) =>
    (status[p] = "QUEUED" ~> Decided(p) \/ chain[p].st \in {"DROPPED", "FAILED"})

(* Every payout that is queued, or whose fate is unknown, comes to an end  *)
(* (advancePayouts, reconcilePayout).                                      *)
PayoutEnds == QueuedIsDecided /\ UnknownIsDecided

(***************************************************************************)
(* The pipeline keeps the promise of MerchantPromise: eight live statuses  *)
(* are one debt, and settling, failing and rejecting are its only ends.    *)
(***************************************************************************)
PromiseOf(p) ==
  CASE status[p] = "NONE"    -> "none"
    [] status[p] = "SETTLED" -> "paid"
    [] status[p] = "FAILED"  -> "returned"
    [] OTHER                 -> "owed"

Promise == INSTANCE MerchantPromise WITH
  InitialBalance <- InitialAvailable,
  promise <- [p \in Payout |-> PromiseOf(p)],
  taken   <- [p \in Payout |-> amount[p] + fee[p]],
  balance <- available,
  landed  <- {p \in Payout : chain[p].st = "LANDED"}

(* Every step of the pipeline, of its workers and of the world is a step   *)
(* of the promise, or none at all.                                         *)
KeepsPromise == Promise!Spec

(***************************************************************************)
(* While reservations do not lapse the pipeline also keeps the promise of  *)
(* TransferPromise.  A figure is an amount: the KmsSigner has no numbers.  *)
(***************************************************************************)
FateOf(p) ==
  CASE chain[p].st = "PENDING"              -> "SENT"
    [] chain[p].st \in {"DROPPED", "FAILED"} -> "LOST"
    [] OTHER                                 -> chain[p].st

Transferring == INSTANCE TransferPromise WITH
  covered <- [p \in Payout |-> {signed[p]} \ {0}],
  carried <- [p \in Payout |-> IF chain[p].st = "NONE" THEN {} ELSE {chain[p].amt}],
  fate    <- [p \in Payout |-> FateOf(p)],
  paid    <- {p \in Payout : status[p] = "SETTLED"}

(* Through every retry, crash, lookup that finds nothing and relock, what  *)
(* leaves is what the payout was signed for and locked at, it leaves once, *)
(* and the payout is settled only when it landed (signPayout,              *)
(* TonAdapter.send, settlePayout).                                         *)
KeepsTransferPromise == Transferring!Spec /\ []SentIsAgreed
=============================================================================
