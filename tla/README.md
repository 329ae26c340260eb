# A TLA+ model of the GRAM payment gateway

The gateway takes Toman from the customers of merchants through a payment
provider (CubePay), keeps them in a double-entry ledger, and pays merchants out
in GRAM on the TON network. This directory models the parts of it whose steps
can meet, fail or be repeated:

* **Payouts** - from a merchant's AVAILABLE balance to GRAM in the merchant's
  wallet, or back;
* **Payments** - from an invoice to AVAILABLE balance;
* **Transfers** - the signatures and sequence numbers behind a payout;
* **Requests** - a merchant's call from the SDK to its effect, once;
* **Delivery** - from a committed event to a merchant who knows of it;
* **Operations** - what admins decide, and the freeze;
* **Ledger** - how journals are posted, projected and sealed;
* the arithmetic of **Amounts**, the agreement of market sources
  (**RateConsensus**) and the choice among waiting payouts (**LiquidityFit**).

Each is a specification that TLC checks on small instances. Four short
specifications say what the detailed ones come to, and are implemented by them:
**MerchantPromise** (Payouts) and **CreditPromise** (Payments) for a merchant,
**LedgerPromise** (Ledger) for whoever posts, and **TransferPromise** (Transfers
and Payouts) for whoever pays a payout. Theorems that TLAPS proves hold for every value of the constants.

## The system

| Part | State it keeps | Operations | Speaks to |
|---|---|---|---|
| Payout pipeline (`core/src/use-cases/payout.ts`) | `finance.payouts`, `liquidity_reservations`, treasury, merchant buckets | queue, choose, lock rate, reserve, sign, broadcast, observe, settle, fail, reconcile, expire, fund | signer, TON adapter, ledger, rates |
| Worker (`apps/worker/src/main.ts`) | none; `setInterval` starts cycle after cycle | one stage of each payout per cycle, reconciliation, sweeps, delivery | all use cases |
| TON adapter, KMS signer, sequence numbers (`packages/ton`) | `system.signing_requests`, `payout_seqno_allocations`, `treasury_wallet_sequences` | send, lookup, status; claim, sign, complete; allocate, gate, confirm, reconcile | the network, KMS |
| Rates (`core/src/adapters`) | the last quote | ask the sources of two legs, agree, check | market sources |
| Invoices, polling (`create-invoice.ts`, `poll-pending-invoices.ts`) | `core.invoices` | create, recover checkout, poll, expire, cancel | provider |
| Finalize, release (`finalize-payment.ts`, `release-payment.ts`) | `core.payments`, journals | credit PENDING, move to AVAILABLE | ledger, holds |
| Disputes, holds (`dispute.ts`, `risk.ts`) | `core.disputes`, `finance.payment_holds` | open, resolve, place and lift holds | release |
| Refund requests (`refund.ts`) | `core.refunds` | request within what was collected | payment |
| Provider callback (`apps/api/src/routes.ts`) | `integration.webhook_events` | store event, verify, finalize | provider, finalize |
| API keys, idempotency (`auth.ts`, `idempotency.ts`), SDK | `system.request_nonces`, `integration.idempotency_keys` | authenticate, claim a key, replay, complete; retry | use cases |
| Outbox, dispatcher, webhooks | `system.outbox_events`, `integration.webhook_deliveries` | enqueue, claim, schedule, post, retry | merchants, Telegram |
| Ledger (`packages/ledger`) | accounts, journals, balances, blocks | post, project, verify, seal | - |
| Scheduler (`apps/scheduler/src/main.ts`) | none | expire, poll, purge, check the ledger, freeze | use cases |
| Admin operations (`core/src/admin`) | approvals, platform freeze, exceptions, merchant status | request, approve, reject, fund, freeze, lift, resolve, suspend | treasury |

The use cases share one PostgreSQL database and nothing else; they interact
through its rows. What is hard about them:

* **Overlap.** The API, the scheduler and one or more worker cycles run at
  once; `setInterval` starts a cycle whether or not the last one ended.
* **Calls between transactions.** Signing, sending, asking the network or the
  provider happens outside any transaction. What was read before the call is
  acted on after it.
* **Ambiguity.** A send that times out may have been accepted; a lookup that
  fails looks like a transfer that does not exist; a provider that lags looks
  like a customer who has not paid.
* **Crashes** between any two steps; nothing is lost from the database, the
  worker's memory is.
* **Clocks.** Invoices expire, reservations, leases and claims lapse, nonces
  and keys are purged, holds end, and an unanswered question becomes an answer
  after a window.
* **Repetition.** Every client retries: the SDK its calls, the provider its
  callbacks, a worker its stages, a transaction its deadlocks.

What makes each part correct: nobody's Toman are credited, released, paid or
returned twice; a merchant is credited or a payout settled only on evidence;
the treasury never promises the same GRAM twice; a payout is signed for one
amount and one number only; a repeated request has one effect; an event reaches
every endpoint; a deposit is credited by two admins and once; the balances are
the journals; every ambiguity is visible and is decided in the end.
The hazards behind these are in `PROJECT.json`, each at
the line where it bites.

## The modules

| Module | What it is |
|---|---|
| `Payouts` | the pipeline, its treasury, the merchant's buckets, the network and the signer |
| `MerchantPromise` | what the pipeline promises a merchant: taken once, then paid after landing or returned whole |
| `TransferPromise` | what paying a payout may rely on: signed for one figure, sent for that figure however often it is posted, moved once, paid when landed |
| `LedgerPromise` | what the ledger promises: an operation moves all its money in one instant, once, and no balance goes below zero |
| `PayoutsProofs` | theorems about `Payouts` and `Treasury`, among them that `Payouts` implements `MerchantPromise` and `TransferPromise` |
| `Payments` | invoices, checkouts, callbacks, polling, finalizing, releasing, disputes and holds |
| `CreditPromise` | what accepting payments promises: an earned invoice is credited once and released once, for its net amount |
| `PaymentsProofs` | theorems about `Payments` and `Books`, among them that `Payments` implements `CreditPromise` |
| `Transfers` | signing requests with lease and fencing, sequence numbers, the broadcast gate, the wallet contract |
| `Requests` | attempts of the SDK, nonces, idempotency keys, creation of invoices, refund requests |
| `Delivery` | outbox events, their dispatch, webhook deliveries, Telegram |
| `Operations` | four-eyes funding, freeze, exceptions, the integrity sweep |
| `Ledger` | posting under locks, numbers, deadlocks and retries; blocks |
| `TransfersProofs`, `RequestsProofs`, `DeliveryProofs`, `OperationsProofs`, `LedgerProofs` | theorems about the module of that name; `Transfers` implements `TransferPromise` and `Ledger` implements `LedgerPromise` |
| `Sums` | lemmas about sums over finite sets, which the proofs about money need, about counting and about recursive functions |
| `Amounts` | division with rounding, percentages, fee split, provider cost, Toman to GRAM and back |
| `RateConsensus` | the rate a leg's sources agree on and the quote made of two legs |
| `LiquidityFit` | which waiting payouts are chosen, and which are then reserved |
| `MCPayouts`, `MCPayments`, `MCTransfers`, ... | the constants and symmetries of the TLC instances |
| `Treasury` | composes `Payouts` with `RateConsensus` and `LiquidityFit`: payouts are locked at quotes of a market and chosen for what is spendable |
| `Books` | composes `Payments` with `Amounts`: prices, fees and costs are what the code computes |
| `MCTreasury`, `MCBooks` | the instances of `Treasury` and of `Books` |

### How the models correspond to the code

*One database transaction is one action.* Serializable transactions, row locks
and unique indexes make the transactions of the code behave as if they ran one
after the other, so an action is a transaction in that order. An early return,
or an exception that rolls everything back, is a disjunct that changes nothing
but the worker's task, or a guard where nobody would notice.

*A use case that leaves its transaction is a task.* `task[w]` holds what the
code keeps in local variables (which row, the figure it read, the answer it
got) and the step that comes next. Between two steps of a task anything else
may happen: another worker, a sweep, the clock, a crash. This is where most of
the properties live: `WorkersRemember` in both modules says which of those
local variables stay true.

`Payouts`: `status`, `amount`, `fee`, `gram`, `dest`, `hash` are the columns of
`finance.payouts`; `aged` says that the observation window lies behind;
`reserv` is the latest reservation; `confirmed` the treasury; `available`,
`settling`, `revenue`, `clearing` the ledger accounts a payout touches;
`signed` and `chain` are the signer's and the network's own memory; `frozen` is
the platform freeze. The actions
carry the names of the functions: `QueueAutomatic`, `LockPayoutRate`,
`ReservePayoutLiquidity`, `SignValidate` / `SignerSign` / `SignRecord`,
`BroadcastValidate` / `SendLookup` / `SendPost` / `BroadcastRecord`,
`AdvanceObserve` and `ReconcileObserve` with the transactions that follow them,
`ExpireStaleReservations`, `RecordFunding`, and `AdminResolves` for
`resolveException`, which asks nothing about the payout. `SendLookup` asks an
indexer that may fail or lag, so an empty answer says nothing and the transfer
is posted again; `SendPost` and the adapter's own checks may refuse a request.
`ReconcileAges` lies between the chain's answer (`payout.ts` 1399) and the look
at the row's age (1435). Amounts are small integers: what
matters is which is larger and whether they add up.

`Payments`: `invoice`, `provider` (the mode, fixed at creation), `external`,
`attempts` are columns of `core.invoices`;
`clock` and `age` say where NOW() stands for it (before `expires_at`, after it,
after the grace period; full days since creation); `payment` and `due` are
`core.payments` by external payment id; `hold` and `dispute` the cases; `event`
the stored callback; `checkout` is what the provider itself knows; `frozen` is
the platform freeze. A sweep's work on one invoice is a task of three steps:
`SweepBegins` fixes the sweep's clock, `PollSelect` takes the invoice if it is
still to be asked about, `PollVerify` asks. `DatedLate` is the date a payment
gets: the provider's, or the time of the answer (the callback route, and the
STANDARD adapter itself, `standard-adapter.ts` 222), or, for VIP in a sweep, the
time the sweep began. A callback of VIP is signed and speaks of a payment of its
own invoice; one of STANDARD may come early or name another STANDARD invoice,
and `Bound` is the comparison of the order id that refuses the latter. The early
returns of `finalizePayment` are the
five actions `FinalizeReplay` to `FinalizeCredit`. The credit moves what the
journal moves: PENDING, platform revenue, provider clearing, and the provider's
own fee.

`Transfers` is the same pipeline seen from the wallet: the money is a version
of the locked amount, and every signature KMS ever gave is in `issued`. The
claim of a request, the call of KMS and the completion are three actions, and
`LeaseExpires` may come between any two; `token` fences. `CanBroadcast` is the
gate, `onChain` the contract's own number, `ReconcileSequenceGap` the repair.
After a lookup that failed or saw nothing (`adapter.ts` 231-233) the message is
posted again whatever became of it: the same signed bytes with the same number.
The container of the repository builds the `KmsSigner`; the classes modelled
here are used where the AWS signer is configured.

`Requests`: a message is one attempt of a call with a timestamp and a nonce of
its own; it stays on the wire, so it may arrive late or twice. `runIdempotent`
is `Claim`, `Look`, `Reclaim`, the operation (`Create`), `Complete` or
`FailKey`; each is a statement of its own in the code. `requestRefund` is one
transaction, but three actions: it holds the payment's row lock, and the trigger
`core.assert_refund_within_limit` sums only what is committed.

`Delivery`: a worker is a cycle that claims a batch of events or of deliveries
in one transaction and works through it with none open. Backoff is left out:
what is to be retried is due at some time. `RecordFails` is the statement that
records an answer and throws, committed or not: the catch (`webhooks.ts` 282)
records the delivery again, as one the endpoint could not answer, so an accepted
delivery may be posted once more. (A committed RETRY is taken to be written
again within its backoff.)

`Operations`: an admin is authenticated with the role he has then and acts
later. The approval, the funding and the mark EXECUTED are three transactions;
the count before lifting the freeze and the lifting are two statements, as are
the three of the integrity sweep.

`Ledger` goes below the transaction: an INSERT takes its number from the
sequence and waits for an undecided conflict, each line locks a balance, and a
deadlock ends one transaction, which is tried again. Projections are kept for
the accounts `post` projects (liabilities and assets).

`Amounts`, `RateConsensus` and `LiquidityFit` are operators; their properties
compare them with a definition. `Treasury` and `Books` use the same operators
where the code does: a payout is locked at a `Quote` of what the sources report
(`MarketAssumption`), the choice among waiting payouts is made for every amount
the treasury can have to spend (`LiquidityAssumption`), and the price and the net of an invoice are what
`CalculateFees` returns for its base amount and fee mode
(`SnapshotAssumption`). `ConsensusIsRobust` and `AmountsAreExact` say of the two
together what the operators promise and what comes of it in every state: a
payout has the GRAM that its Toman buy at some quote, to the unit, and the
revenue is the fees of the paid invoices.

All stateful modules have constants for what the environment may do (`MayCrash`,
`LookupMayFail`, `VerifyMayLag`, ...). Safety runs switch everything on, unless
a property needs a friendlier world, and then the run says so in its first line.

## The runs

All runs switch deadlock detection off: a system whose payouts are all decided,
or whose invoices are all closed, really stops. A property that is a
conjunction names its parts in its module, each with its own comment.

| Run | Instance | Shows |
|---|---|---|
| `payouts_overlap` | one payout, two cycles, every fault, admins who resolve exceptions | `BooksBalance`, `SettlingIsOwed` (SETTLING is exactly what the live payout owes), `UnknownIsVisible` (only an admin takes the exception of an UNKNOWN payout away), `KeepsPromise` (refinement of `MerchantPromise`) |
| `payouts_treasury` | two merchants, a treasury too small for both, network fees, one cycle at a time | `InFlightIsBacked`, `NoRefundOfTransfer`, `ConsensusIsRobust`, `KeepsTransferPromise` (`SentIsAgreed` and refinement of `TransferPromise`); of the choice `SelectionIsBest` |
| `payouts_progress` | two payouts and batches of one, crashes, freezes, fair cycles | `LandedIsSettled`, `PayoutEnds` |
| `payments_credit` | one invoice of either mode, a checkout that may be issued twice, two requests, lagging answers, mispayments, closed checkouts | `CreditedOnce`, `CreditIsEarned`, `KeepsCreditPromise` (refinement of `CreditPromise`) |
| `payments_release` | two STANDARD invoices of different prices, callbacks that may name the wrong one, failed verification, a dispute, suspensions, one request at a time | `BooksBalance`, `DisputedStays`, `AmountsAreExact` |
| `payments_progress` | two invoices, sweeps and cycles that take one row, a worker that may die, freezes, fair sweeps | `PaidIsCredited`, `CreditIsReleased` |
| `transfers` | two payouts of one wallet, two workers whose leases lapse, rates locked anew, lookups that see nothing, an expired message, a transfer by hand | `NumbersAreKept`, `InTurn`, `CompletedIsFinal`, `KeepsTransferPromise` (refinement of `TransferPromise`) |
| `requests` | a call retried once; two bodies under one key, three messages in all; two refunds of one payment | `KeysAreKept`, `HandledOnce`, `DuplicateIsLapsed`, `RefundsWithinCollected`, `AnswerStands` |
| `delivery` | one event, an endpoint that is there and one that comes later, two overlapping cycles, two faults | `ClaimsAreKept`, `SentIsScheduled`, `DecidedStays`, `NothingIsLeft` |
| `operations` | two admins, two requests for one deposit that disagree on its amount, one change of role, unbalanced books | `CreditsAgree`, `CreditedByTwo`, `DecisionStands`, `ImbalanceFreezes` |
| `ledger` | three processes, two payments and a withdrawal that lock accounts in opposite orders, one fault, two blocks | `BooksAgree` (`PostedOnce` among it), `SealedInOrder`, `PostEnds`, `KeepsLedgerPromise` (refinement of `LedgerPromise`) |
| `refund_retried` | one refund call whose answer is lost | finds `OneRefundPerCall` violated |

`payouts_treasury` leaves out lapsing reservations, failed lookups, overlapping
cycles, unbounded propagation and late refusals: with any of them its properties
fail, as described below. An indexer that lags is in all runs.

### Where the code differs from what the repository says

`refund_retried` checks one statement of a comment and finds it violated:
`sdk/src/index.ts` 156 says "Refunds always carry an idempotency key: a
duplicate would return money twice", the SDK therefore retries, and the route
(`routes.ts` 443) keeps no key, so the retry records a second refund. That the
two together stay within what was collected is `RefundsWithinCollected`.

The models contain more behaviour of this kind. It is not given runs of its
own; it shows in what the other runs have to assume or except:

Payouts and their transfers

* Two cycles send one payout; the request of one is accepted, that of the other
  rejected, and the rejection returns the money (`payout.ts` 897). Hence one
  cycle at a time in `payouts_treasury`.
* A failed lookup is read as "not sent" (`adapter.ts` 231, although its comment
  says it must not be): the money of a transfer on its way is returned. Hence
  `LookupMayFail = FALSE` there.
* An empty answer of an indexer that lags reads the same, so a worker that takes
  over posts again what is on its way. If that request is refused, by a 400
  ("the network never accepted it", `adapter.ts` 117) or by the adapter's own
  checks under another configuration (58-69), `failPayout` returns the money.
  One cycle, bounded propagation and lookups that answer are not enough: hence
  `RejectionIsFinal`, which says that no refusal follows a request that went
  out.
* The age of a payout that was not found is worked out after the answer, from a
  clock read later (`payout.ts` 1435). Bounded propagation therefore has to mean
  that the window leaves room for the request itself (`NothingUnseen`); the
  default of 900 seconds does.
* An admin may resolve the exception of a payout that is still UNKNOWN
  (`operations.ts` 374-403); no later step opens it again. `UnknownIsVisible`
  says that nobody else does.
* A cycle takes the 25 oldest payouts of the pipeline and the 20 UNKNOWN ones
  that were touched longest ago (`worker/src/main.ts` 155-160, 96-98), and
  STILL_UNKNOWN touches nothing. Payouts no step moves, such as a SIGNED one
  whose reservation lapsed or one whose transfer failed, keep their places; as
  many of them as the batch holds starve everything behind them. Under a freeze
  (56-63) no payout is moved. Hence `InReach` in the liveness properties.
* The sweep expires the reservation of an UNKNOWN payout too (`payout.ts` 1471,
  `docs/recovery/README.md` 39: "Treasury reservation = PRESERVED"); a SIGNED
  payout whose reservation lapsed stays SIGNED, and neither sign nor broadcast
  takes it again; and a signature requested before such a lapse may be recorded
  for a newer figure (`payout.ts` 684). Hence no lapsing there.
* Reconciliation passes through RESERVED on the way from UNKNOWN to FAILED
  (`payout.ts` 1445); a crash in between sends the payout round again.
* A transfer the chain reports as FAILED is never acted on (`payout.ts` 1454),
  and a BROADCASTED payout whose transfer was dropped is not handed to
  reconciliation. Hence the exceptions in `PayoutEnds`.
* The network fee leaves a treasury in which only the principal was reserved
  (`payout.ts` 1164), so what is spendable may fall below zero and the last
  payout may find too little. `InFlightIsBacked` says that the fees already
  charged are all that can be missing.
* A payout locked anew after WAITING_LIQUIDITY presents another intent under
  the same request id and is refused for ever (`aws-kms-signer.ts` 157-168):
  that is `ClaimRefused`, which keeps `OneIntent` at the price of progress. For
  the same reason `valid_until` of a request is never renewed (212).
* `markBroadcasted` and `fail` of the sequence numbers name no status
  (`seqno-manager.ts` 295, 383), and a number given up as EXPIRED, which a
  comment calls re-sequenced, is kept by its payout (546). A number that failed
  keeps every later one from being broadcast (157); `Transfers` has no liveness
  property for this reason.
* Of two subsets that use the same liquidity the search keeps the first
  (`payout.ts` 1663), not the one its comment (1650-1651) describes: one payout
  of 5 is paid where two of 2 and 3 would have been. A payout larger than what
  is spendable is filtered out before anyone looks at how long it has waited, so
  it can be passed over for ever. A payout that is WAITING_LIQUIDITY may be
  chosen but is refused when it is to be reserved (`payout.ts` 1719, 448), and
  the room it was given stays idle until it is locked anew. `SelectionIsBest`
  says what does hold, and it speaks of the choice: not of a payout's way
  through the pipeline.
* Sources are compared in full percents, so two that are just under 11 percent
  apart pass a limit of 10 (`rate-aggregator.ts` 233).

Payments

* An invoice is expired on the clock before the provider is asked
  (`create-invoice.ts` 272). Hence `PromptPolling` in `payments_progress`.
* A sweep fixes its clock when it begins (`poll-pending-invoices.ts` 33) and
  gives it to payments VIP has no date for (156), so a payment made after
  `expires_at`, while the sweep was at other invoices, is credited, although
  `finalize-payment.ts` 309 says "Paid after expiry: hold for manual review".
  Hence `InTime`, which `CreditIsEarned` and the `earned` of `CreditPromise`
  are stated with: made in time, or while a sweep that began in time had yet to
  ask. STANDARD payments are dated by its adapter when it answers.
* An invoice may be open for 30 days and is polled for two
  (`poll-pending-invoices.ts` 118), the 50 oldest at a time (119). Hence
  `age[i] < 2` and `InPoll` in `PaidIsCredited`.
* A cycle tries the 100 oldest payments that are due (`release-payment.ts`
  45-53), those of a hold or of a suspended merchant included, which stay at the
  head of the list; the hold of a REFUND_REQUIRED dispute is never lifted but by
  hand. Hence `InRelease` in `CreditIsReleased`.
* An invoice with an UNKNOWN payment can be cancelled (`create-invoice.ts` 311).
  Hence CANCELLED in `PaidIsCredited`.
* A payment recorded as UNKNOWN answers every later poll as a replay
  (`finalize-payment.ts` 131), although `states.ts` 87 says reconciliation
  resolves it. An unsigned STANDARD callback that comes before the payment is
  enough. Hence a VIP provider that does not lag there.
* An order id in the answer is compared with the invoice's (`finalize-payment.ts`
  145-153), and an answer without one is not. `Bound` takes it that STANDARD
  reports it (`standard-adapter.ts` 218).
* A late payment of an invoice that is EXPIRED already leaves no record
  (`finalize-payment.ts` 299).
* A callback is acknowledged as a duplicate although its first attempt failed
  or still runs (`routes.ts` 1058); polling alone makes up for it.
* The resolution of a second dispute lifts the hold the first one kept because
  a refund was required (`dispute.ts` 213). `DisputedStays` speaks of live
  disputes only, and of holds nobody lifts by hand (`~MayLift`).
* A cycle looks at the freeze once, when it begins (`worker/src/main.ts` 56), so
  releases and payouts that are under way go on after it was put on.
* For small amounts the fee rounds to zero and the provider's cost to one, so
  the margin of such a payment is negative; `AmountsAreExact` does not say
  otherwise.

Requests, delivery, operations, ledger

* Nothing ties NONCE_TTL_SECONDS to HMAC_WINDOW_SECONDS (`config`): replay
  protection needs the first to be twice the second, which
  `RequestsAssumption` states and the defaults (900, 300) meet.
* The SDK takes the 409 of a request still in progress as final
  (`routes.ts` 286-288), so a caller whose first attempt is slow is told of a
  conflict. A checkout the provider refused is not asked for again under the
  same key (218-255); the recovery sweep does that.
* Two invoices under one key are possible once a lease lapsed while its request
  still ran: `DuplicateIsLapsed` says that it takes this.
* The UPDATE that takes over a key asks for its state and lease, not for the
  request's hash (`idempotency.ts` 117-125). A handler that stays between its
  SELECT and this UPDATE until the key was purged, claimed for another body and
  has lapsed again would take over that other request's row.
* When the statement that records a 2xx fails, the catch writes RETRY whatever
  the row says (`webhooks.ts` 282-284, 312-320), and a delivery that was accepted
  is posted again: at least once, as `dispatcher.ts` 3 says. `DecidedStays`
  says that nothing else brings a decided delivery back.
* A delivery whose cycle stops between claim and answer stays SENDING
  (`webhooks.ts` 173). `NothingIsLeft` is checked with cycles that stop at
  other places only.
* An approval whose API process stops after the claim stays APPROVED and is not
  executed (`operations.ts` 197). An approval that is found to have expired
  stays PENDING: the UPDATE to EXPIRED is rolled back with the error (160).
* The freeze is lifted on a count taken one statement earlier
  (`operations.ts` 288), so a CRITICAL exception may be open after all. What
  holds is `ImbalanceFreezes`: the next sweep freezes again.
* Journal numbers have gaps, because a sequence does not roll back; the
  continuity `ledger-blocks.ts` 97 checks is not a property of the code. A
  journal that commits after a block passed its number is in no block, and
  `verifyLedgerBlocks` then reports the block. `sealLedgerBlock` has no caller
  outside the tests; two at once would fork the chain, so the model has one.

### The bounds

* **Two workers** are enough for a pair to meet on a row; a third adds no pair,
  and symmetry makes the two one. Runs about books rather than races have one.
* In `payments_credit` workers get stuck rather than die, which differs only in
  that a dead one makes room for a third; the theorems cover any number. What
  one run of `Payments` leaves out another has: failed verification, suspensions
  and disputes are in `payments_release`, where nobody lifts a hold by hand,
  checkouts the provider closes in `payments_credit`, the freeze in
  `payments_progress`.
* **One payout** in the race runs, because every action but the reservation and
  the queueing touches one payout only; **two** where payouts compete, for the
  treasury (`payouts_treasury`) or for a place in a batch of one
  (`payouts_progress`). In the same way `payments_progress` has two invoices for
  sweeps and cycles that take one. That a merchant has one payout in flight is a
  theorem (`OneInFlightHolds`) and needs no instance.
* **Two checkouts** of one invoice are what an overwritten checkout takes; two
  invoices are what a mix-up of amounts takes, hence their different prices.
* **Rates** 25 and 49 turn 100 Toman into 4 and 2 units of GRAM, with a rest in
  the second case, so a stale rate shows, and a treasury of 4 or 5 units holds
  one payout and not two. (`payouts_treasury` gets these rates from sources
  that agree on 50 and 5, or on 70 and 7, one of which may be off; a third
  market has no quote.)
* `MaxAttempts` is 1 where the code has 5, or 0 where recovery is not the
  question: the count only decides when recovery gives up.
* `age` counts two days and no more, since nothing compares it with more. The
  runs count one (`payments_credit`, where recovery ends) or none; that polling
  ends after two is therefore in the code's guard and in the theorems, and in no
  run. Neither `age` nor `clock` moves once an invoice is closed, since every
  transaction that asks for them asks for CREATED first.
* **Transfers**: two payouts make a predecessor and a successor; two amounts
  are what one new lock takes; one may lapse and the other expire, so that both
  meet a failed neighbour. A number the owner uses by hand makes the one gap
  reconciliation is for.
* **Requests**: a call is tried twice, and two clients with one key and two
  bodies send three messages between them. Time is counted in leases; a window of one tick, a nonce kept
  for two and a key kept for two give every order of the deadlines, and the
  clock stops after the last of them. One client is a tick ahead. No handler of
  the instance outlives its key by as much as the takeover above needs; the
  theorem about `KeysAreKept` says so (`PromptTakeovers`).
* **Delivery**: two attempts and three dispatches, so that a delivery can be
  given up and two faults cannot use up an event.
* **Operations**: two admins and two requests for one deposit are what four
  eyes, a double approval and a double credit take.
* **Ledger**: three processes, so that two wait while one fails; lines that
  lock in opposite orders make the deadlock; one retry.
* **Operators**: queues of up to four payouts with a search of three, so that
  the bound of the search shows; three sources with nine, ten, fifteen and more
  percent between their values; all amounts to 60 of either sign.

### The fairness

`Payouts!Fairness`: the worker starts a cycle every few seconds. A cycle that
finds no freeze takes `PipelineBatch` payouts of the pipeline one stage further
and asks about `ReconcileBatch` UNKNOWN ones, the oldest first; so a payout with
fewer others than that beside it (`InBatch`, `InSweep`) is not passed over for
ever, and nothing is assumed of one with as many. (This is less than the code
guarantees, which also looks at who is older.) A crash or an unclear answer may
spoil any attempt but not all of them: hence strong fairness of taking a payout
up and of learning a definite answer, and crashes that come to an end. The
network includes a transfer or drops it. Nothing is assumed of merchants or
operators, nor that a freeze is lifted: the properties speak of payouts that are
`InReach` from some time on.

`Payments!Fairness`: the scheduler sweeps every minute and a worker's cycle
releases every few seconds, each the oldest rows first. An invoice with fewer
than `PollBatch` others to be polled is asked about again and again (strong
fairness, because a worker may be busy), a due payment with fewer than
`ReleaseBatch` others, and no freeze, is tried; holds come to an end by the
clock, tasks go on, and workers die finitely often. Callbacks are *not* fair:
`PaidIsCredited` says that polling
alone suffices. It further needs `PromptPolling` (no deadline passes a payment
no sweep has looked at; without it the expiry sweep comes first), a
provider that returns the checkout it already has, and a payment within the two
days the poller looks back.

`Delivery!Fairness`: cycle follows cycle, so both batches are claimed again and
again (strong, as workers may be busy), a cycle that runs goes on, and a claim
grows old with the clock; faults are finite. `Operations!FairSpec`: the
scheduler sweeps every minute. `Ledger!FairSpec`: a transaction that can go on
does; PostgreSQL ends a deadlock, which is a step like the others.

## The proofs

All theorems are for any sets of merchants, payouts, invoices, checkouts and
workers, any amounts and any environment, from the assumptions on the constants
stated in the modules, which TLC evaluates on every run. Some need a friendlier
environment; then it is a hypothesis of the theorem and is named below. Where
there are sums, the sets they range over are finite (`FiniteAssumption`,
`HashAssumption`, `SnapshotAssumption` and the like).

**`Sums`.** `MapThenSumSet` picks an element and adds the rest, and what it
comes to for every finite set calls for induction. A theorem of induction takes
the property as a parameter, which the provers cannot instantiate, so each of
these lemmas is proved from a least counterexample, which a finite set has
because inclusion among its subsets is well founded. The results are what one
expects (a sum over `S` is the element taken out and the rest; changing one
summand changes the sum by the difference; larger summands have a larger sum),
and every proof about money is one of them and a case analysis of what a step
changes. Minimum and maximum of finite sets of integers are here as well, and so
is counting up: a set that holds `0` and with each number the next holds them
all. From it comes that a recursive function over `0 .. n` is what its definition
says (`HasRecursive`), which the proofs about the choice of payouts need.

**`PayoutsProofs`.** `Inv` is the conjunction of `TypeOK`, `OneInFlight`,
`SettlingIsOwed`, `SettledOnEvidence`, `ActiveOnlyInFlight` and
`WorkersRemember`. No part is inductive alone: SETTLING stays a natural
number only because it is what the *one* live payout owes, which needs
`OneInFlight`; and a settlement is on evidence only because the answer in the
hands of a slow worker is still true, which needs `WorkersRemember`. One lemma
per action, on top of a few on what a worker's step and the network can change.
From `Inv` follow the theorems of the same names, and `UnknownIsVisibleHolds`,
because who resolves exceptions remembers that the payout is decided. On top of
it:

* `PromiseHolds`: every step is a step of `MerchantPromise` or a stutter. It
  needs one more invariant (`Known`): only a payout somebody took money for has
  a worker or a transfer. The same cases give `DecidedOnceHolds`.
* `BooksBalanceHolds`: `Conserved` is Toman conservation in the form of one sum
  over what each merchant holds. Queueing, failing and settling move Toman
  within one merchant, to revenue or to clearing; nothing else touches them.
  `Accounted` is the same for GRAM: what the treasury holds and what was spent on
  settled payouts, network fees included, is what it began with and was funded
  with. Only settling and funding move it, and a settled payout's figures stay.
* `SentIsAgreedHolds`, while no reservation lapses (`~MayLapse`): `Agreement`
  says for every payout that reservation, signature, transfer and locked figure
  agree from RESERVED on (`Agreed`), and for every worker that the figure in
  his hands is that one (`Carries`). Lapsing is what breaks it: a payout locked
  anew meets the signature of its first figure.
* `KeepsTransferPromiseHolds`, under `~MayLapse` too: the signer's `signed` is
  what is covered, the network's `chain` what is carried. `Agreement` makes a
  post carry what was signed; `Figured`, that a payout past QUEUED has an amount
  above zero unless it failed, makes the first signature cover something; and
  what is settled landed, because the worker remembers it.
* `NeverPromisedTwice` and `InFlightIsBackedHolds`, under `~MayLapse` and a
  treasury that begins with its safety reserve: `Covered` says that what is
  promised, and the safety reserve, are at most the treasury and the network
  fees already charged, whatever the network charges. The second adds that each
  payout on its way has a reservation of its own.
* `NoRefundOfTransferHolds`, for one cycle at a time (`Alone`), bounded
  propagation, lookups that answer and rejections that are final: `Certainty` says for each stage of a use
  case what the worker may conclude about the network (`Certain`). Each
  hypothesis is used, and each is one of the divergences above.
* `ConsensusIsRobustHolds`: the middle of finitely many values exists and, of
  three or more, lies between two of the others whichever one is left out; full
  percents are monotone. So a value that is not refused is confirmed by a
  second source, and the odd one out moves it nowhere the others are not. That
  every payout is locked at a quote (`Quoted`) needs that one nobody queued has
  no GRAM.
* `SelectionIsBestHolds`: the operators of `LiquidityFit` are recursive functions
  on `0 .. n`, so what each comes to is a set of indices shown to hold `0` and
  every next one. The first pass takes a starved payout unless older ones leave
  no room or no slot (`StarvedUpTo`). The search keeps the greatest fitting sum
  among the masks it has seen (`SearchUpTo`); that the masks below `2^n` are all
  subsets of the head (`MasksAreAll`) comes from the bits of a number
  (`BitTop`, `BitBelow`). The second reading may find less than the first, and
  reserving one by one keeps within it (`ReserveUpTo`). What can be spendable in
  a state is one of the amounts the choice is made for, because `Accounted`
  bounds the treasury by what it began with and can be funded with.

**`PaymentsProofs`.** `Inv` joins `CreditedOnce` and `CreditIsEarned` to what
surrounds them: every worker's task fits (`Fit`: what it remembers is true and
it has a checkout where its stage needs one), and `Known`: a payment belongs to
a checkout that was issued, the row's `provider_invoice_id` names a checkout of
that very invoice, and what was paid while the clock stood before `expires_at`
was in time. `Sees` adds, of a sweep that began before `expires_at` and has yet to
ask, that what was paid since is in time by `InTime`. The last two are what a
payment without a date is worth. Steps are grouped by what they touch (no row, an invoice, a checkout, a
payment), with one lemma per group and a short one per action. On top of it:

* `DisputedStaysHolds`, under `~MayLift`: the live dispute of a payment is
  the only one and its hold is in place; uniqueness is needed because a
  resolution lifts *every* DISPUTE hold of the payment.
* `KeepsCreditPromiseHolds`: `FinalizeCredit` is the promise's `Credit` because
  the worker's evidence is still true and the invoice has no credit;
  `ReleaseOne` is its `Release`; everything else stutters or earns.
* `BooksBalanceHolds`: `Booked` says that PENDING and AVAILABLE of a merchant
  are the sums of the nets of his VERIFIED and RELEASED payments. That no
  bucket is negative, which `TypeOK` needs when `ReleaseOne` subtracts, follows
  from it and not the other way round.
* `AmountsAreExactHolds`: `DivRound` from quotient, rest and sign, then the fee
  split, the provider's cost and the conversion to GRAM, for all amounts
  (a product of two variables gets a name, so that what is left to prove about
  it is linear); and `Earning`, that the revenue is the fees of the paid
  invoices, because a credit brings what the customer paid less what the
  merchant gets, which is the fee.

**`OperationsProofs`.** `Inv` says what an admin in the middle of a request
relies on (`Holds`: the row he approved is still APPROVED, by him, when he funds
and marks it) and that a decided row has two names (`DecidedByTwo`).
`CreditedByTwo` needs the first, because the credit is made a transaction after
the decision; `DecisionStands` needs it because the mark EXECUTED names no
status. The theorems need that nobody's name is the empty one
(`NoAdminAssumption`). `CreditsAgreeHolds` adds that the treasury is a sum over
the hashes of the deposits, of which a credit changes one summand.

**`TransfersProofs`.** `OneIntent` speaks of signatures KMS gave in the past:
those of a payout are one. It follows from `Vouched` (a signature covers what its request and allocation
still say), and this from two facts: nothing takes an amount or a number back
once it was asked for (`Onward`), and whoever calls KMS has compared his intent
with the request (`Sits`), even if his lease ran out since. That two payouts
have different numbers (`Numbered`) needs in turn that all are below the
wallet's next one. `InTurnHolds` and `NumbersAreKeptHolds` come from `Order`:
the row is never ahead of the contract (`Row`), what has landed has its number
behind the contract's (`Evidence`), and whoever sends, or has sent, has only
landed numbers before him (`Turn`). That lasts because a landed message is never
undone and because every new number is above all that were given.
`KeepsTransferPromiseHolds` needs the converse of `Vouched`: what a worker
brings back, what a request records and what the payout records was indeed
issued (`Backed`). With `OneIntent` the signatures of a payout are one
(`OneCovered`), so a second call of KMS is a stutter of the promise, and the
message that leaves is that one.

**`RequestsProofs`.** Three invariants. `NonceInv`: a message
that was handled has a nonce that outlives its window, or its window is over;
this is where `NonceTtl >= 2 * Window` is used, once for the clock of a client
that is ahead and once for the window itself. `KeyInv`: who is at work, or has
created an invoice, owns his key or is noted to have lost it, and under a key
whose owner is at work nothing is recorded. From this follow
`DuplicateIsLapsed`, because a key has one owner, and `AnswerStands`, because a
row that is COMPLETED has neither a lease to lapse nor an owner at work.
`RefundInv`: between the check and the commit the payment's lock is his own
(`Holder`), and what is uncommitted is his (`Uncommitted`), so the sum he
checked is the sum there is when he commits: `RefundsWithinCollected`.
`KeysAreKeptHolds` has a hypothesis about behaviours, `PromptTakeovers`: no key
is purged while a handler stands between its look at the key and its takeover.
Without it the invariant (`AnswerInv`) is not inductive, and the step that
breaks it is the divergence described above: it takes a handler that stands
still between two statements while its key expires, is purged, is claimed anew
and lapses again.

**`DeliveryProofs`.** `Inv` joins the run's invariants to three facts: a
delivery that may be claimed again has an attempt left (`Left`), a cycle in the
middle of something knows of what (`Sound`), and what a dispatching cycle has
yet to insert is all that its event lacks (`Scheduled`). The last one gives
`SentIsScheduledHolds` although the inserts are transactions of their own.
`DecidedStaysHolds` needs that only PENDING and RETRY are claimed, that whoever
holds a decided delivery is the cycle whose recording failed (`Unsure`), and that an
insert meets the row that is there.

**`LedgerProofs`.** `PostedOnce` follows from `OneWriter` (of those who write
the lines of an operation there is one, and none once it is committed) and
`OwnNumber` (nobody else has the number of an undecided journal, so that no
commit replaces another's journal). `BooksAgreeHolds` is from `MoneyInv`: a
locked balance is the sum of the committed lines and of those its holder has
applied so far (`Balanced`), a holder is somebody who posts (`HoldersPost`), and
whoever does not hold an account has not applied a line to it yet
(`Untouched`). So a rollback takes back exactly what was added.
`SealedInOrderHolds` is from `SealInv`: what is being sealed begins where the
last block ended. `KeepsLedgerPromiseHolds` looks at each balance less what is
undecided: by `MoneyInv` that is the sum of the committed lines and never below
zero (`Settled`), so inserting, applying lines, rolling back and trying again
are stutters, and a commit, which by `PostedOnce` no other of the operation came
before, moves all its lines at once.

Only model-checked is liveness, which is out of the prover's reach:
`LandedIsSettled`, `PayoutEnds`, `PaidIsCredited`, `CreditIsReleased`,
`NothingIsLeft`, `PostEnds`, and `ImbalanceFreezes`. `OneRefundPerCall` is
refuted. Every other property of a run is a theorem.

## The plan

Done: every module of the first plan, the compositions `Treasury` and `Books`,
a theorem for every safety property the runs check, and four refinements, one
of them by two modules: `TransferPromise` is what `Payouts` assumes of signing
and sending, and what `Transfers` makes of leases and numbers.

Left:

1. `Gateway`, which composes `Payments` and `Payouts` over the merchant's
   AVAILABLE bucket and `Operations` over the platform freeze. Each module now
   gives the other's money an action of its own (`Payouts` begins with a
   balance, `Payments` only adds to one).
2. Payouts over a signer that refuses a second figure, with lapsing
   reservations: what `KeepsTransferPromise` says then, and which payouts never
   end.

## Not modelled

* Risk scoring and velocity limits: the rules that place a hold are a choice of
  the environment; what a hold does is modelled.
* The resolver of CubePay's answers and its HTTP client: the provider is
  modelled from how the use cases use it (a checkout, a state, an amount).
* `payout_items`, which link a payout to released payments, and the GRAM legs of
  the payout's journals.
* Hashes and Merkle roots of blocks, signatures and encryption: two values that
  differ have different hashes.
* The TON message, its cells and addresses: a message is what it pays to whom
  under which number.
* Formatting, parsing, paging, rate limiting, metrics, tracing, logs, the bot,
  the mini app, the admin UI and the support tickets: nothing they do is read
  back into a decision about money.
* The queue port: built by the container, used by no use case.
* `StubSigner` and the in-memory adapters: development and tests.
* Reading configuration: the values are the constants of the modules.
* Evidence, attempts and intents that are stored for the record and not read
  back into a decision.
* The execution of refunds: the code has none, so no payment becomes REFUNDED.
