------------------------------ MODULE Payments ------------------------------
(***************************************************************************)
(* From an invoice to spendable Toman: the invoice, payment, hold and      *)
(* dispute use cases of packages/core/src/use-cases, the callback route of *)
(* apps/api/src/routes.ts, the sweep of apps/scheduler/src/main.ts, and    *)
(* the CubePay provider behind its port.                                   *)
(*                                                                         *)
(* One database transaction is one action.  A request that calls the       *)
(* provider between two transactions is a task of a worker: an API request *)
(* that creates an invoice, a callback, or one step of pollPendingInvoices.*)
(* A checkout is what the provider knows by one external payment id.       *)
(***************************************************************************)
EXTENDS Integers, FiniteSets, FiniteSetsExt

CONSTANTS
  Merchant,      \* merchants
  Invoice,       \* identities of the invoices that can be created
  Checkout,      \* external payment ids the provider can issue
  Dispute,       \* identities of the disputes that can be opened
  Worker,        \* requests and sweeps that can be running at once
  Owner,         \* the merchant of an invoice
  NoInvoice,     \* the invoice of a checkout that was not issued
  NoCheckout,    \* provider_invoice_id IS NULL
  Total,         \* customer_total_amount of an invoice
  Net,           \* merchant_net_amount of an invoice
  ProviderFees,  \* fees the provider may keep from one payment
  MaxAttempts,   \* provider_create_attempts after which recovery gives up
  MaxAge,        \* days since created_at that are counted: two matter
  PollBatch,     \* invoices one sweep asks about, LIMIT 50 in the code
  ReleaseBatch   \* payments one cycle tries to release, LIMIT 100 in the code

(* What the environment may do. *)
CONSTANTS
  MayCrash,         \* a worker may stop between two of its steps
  CheckoutStable,   \* creating a checkout again returns the one there is
  ProviderModes,    \* provider modes an invoice may be created under
  ReportsPaidAt,    \* the provider says when it was paid
  VerifyMayFail,    \* verifyPayment may throw
  VerifyMayLag,     \* verifyPayment may not yet know of a payment
  MayMispay,        \* the customer may pay another amount
  MayClose,         \* the provider may close a checkout that was not paid
  PromptPolling,    \* no clock passes a payment nobody has looked at
  MayLift,          \* an administrator may lift a hold by hand
  MaySuspend,       \* merchants may be suspended and activated again
  MayFreeze         \* the system may be put under a financial freeze

ASSUME OwnerAssumption == Owner \in [Invoice -> Merchant]

(* There are finitely many payments and merchants, so that they have sums. *)
ASSUME FiniteAssumption == IsFiniteSet(Checkout) /\ IsFiniteSet(Merchant)

ASSUME NoValueAssumption == NoInvoice \notin Invoice /\ NoCheckout \notin Checkout

ASSUME AmountAssumption ==
  /\ Total \in [Invoice -> Nat] /\ Net \in [Invoice -> Nat]
  /\ \A i \in Invoice : Net[i] <= Total[i]
  /\ ProviderFees \subseteq Nat /\ MaxAttempts \in Nat /\ MaxAge \in 0 .. 2
  /\ PollBatch \in Nat /\ ReleaseBatch \in Nat

ASSUME EnvironmentAssumption ==
  /\ MayCrash \in BOOLEAN /\ CheckoutStable \in BOOLEAN
  /\ ProviderModes \subseteq {"VIP", "STANDARD"}
  /\ ReportsPaidAt \in BOOLEAN /\ VerifyMayFail \in BOOLEAN /\ VerifyMayLag \in BOOLEAN
  /\ MayMispay \in BOOLEAN /\ MayClose \in BOOLEAN /\ PromptPolling \in BOOLEAN
  /\ MayLift \in BOOLEAN /\ MaySuspend \in BOOLEAN /\ MayFreeze \in BOOLEAN

VARIABLES
  invoice,    \* core.invoices.status, "NONE" before the row exists
  provider,   \* provider_mode, fixed when the invoice is created
  external,   \* provider_invoice_id, whose payable amount is the snapshot
  attempts,   \* provider_create_attempts
  clock,      \* where NOW() stands: before expires_at, past it, past the grace
  age,        \* full days since created_at, up to the two that matter
  payment,    \* core.payments.status of an external payment id
  due,        \* release_at has passed
  hold,       \* sources with an ACTIVE row in finance.payment_holds
  dispute,    \* core.disputes
  pending,    \* the merchant account's PENDING bucket
  available,  \* the merchant account's AVAILABLE bucket
  books,      \* provider clearing, platform revenue and platform expense
  active,     \* the merchant is ACTIVE
  frozen,     \* a financial freeze is on: cycles that begin now skip releases
  event,      \* integration.webhook_events.status of an external event id
  checkout,   \* the provider's own record
  task        \* the request or sweep a worker is in the middle of

invoiceVars  == <<invoice, provider, external, attempts>>
timeVars     == <<clock, age, due>>
disputeVars  == <<hold, dispute>>
ledgerVars   == <<pending, available, books>>
standingVars == <<active, frozen>>
vars == <<invoiceVars, timeVars, payment, disputeVars, ledgerVars, standingVars, event,
          checkout, task>>

-----------------------------------------------------------------------------
InvoiceStatus == {"NONE", "CREATED", "PAID", "EXPIRED", "CANCELLED"}
PaymentStatus == {"NONE", "VERIFIED", "RELEASED", "MISMATCH", "FAILED", "UNKNOWN"}
Resolution    == {"UPHELD_MERCHANT", "UPHELD_CUSTOMER", "REFUND_REQUIRED", "NO_ACTION"}
Source        == {"RISK", "DISPUTE"}

(* Answers of verifyPayment; PENDING stands for UNKNOWN too. *)
Answer == {"PAID", "PENDING", "FAILED"}

NotIssued == [inv |-> NoInvoice, st |-> "none", link |-> FALSE, ontime |-> FALSE,
              swept |-> FALSE, exact |-> FALSE]
NoDispute == [x |-> NoCheckout, st |-> "NONE", res |-> "NONE"]

Stage == {"idle", "create", "attach", "createfail", "verify", "select", "ask", "finalize",
          "mark", "expire"}
Idle == [at |-> "idle", who |-> "none", i |-> NoInvoice, x |-> NoCheckout, now |-> "open",
         seen |-> "NONE", late |-> FALSE]

Begin(w, t) == task[w] = Idle /\ task' = [task EXCEPT ![w] = t]
Goto(w, t)  == task' = [task EXCEPT ![w] = t]
Done(w)     == task' = [task EXCEPT ![w] = Idle]

(* The payment holds economic value: ux_payment_invoice_settled. *)
Credited(x) == payment[x] \in {"VERIFIED", "RELEASED"}

Init ==
  /\ invoice = [i \in Invoice |-> "NONE"]
  /\ provider \in [Invoice -> ProviderModes]
  /\ external = [i \in Invoice |-> NoCheckout]
  /\ attempts = [i \in Invoice |-> 0]
  /\ clock = [i \in Invoice |-> "open"]
  /\ age = [i \in Invoice |-> 0]
  /\ payment = [x \in Checkout |-> "NONE"]
  /\ due = [x \in Checkout |-> FALSE]
  /\ hold = [x \in Checkout |-> {}]
  /\ dispute = [d \in Dispute |-> NoDispute]
  /\ pending = [m \in Merchant |-> 0]
  /\ available = [m \in Merchant |-> 0]
  /\ books = [clearing |-> 0, revenue |-> 0, expense |-> 0]
  /\ active = [m \in Merchant |-> TRUE]
  /\ frozen = FALSE
  /\ event = [x \in Checkout |-> "NONE"]
  /\ checkout = [x \in Checkout |-> NotIssued]
  /\ task = [w \in Worker |-> Idle]

-----------------------------------------------------------------------------
(***************************************************************************)
(* Creating an invoice.  The row is committed first.  The API then asks    *)
(* the provider for a checkout; the bot leaves that to the recovery step   *)
(* of the poller, which also picks up whatever the API failed to attach.   *)
(***************************************************************************)
CreateInvoice(w, i) ==
  /\ invoice[i] = "NONE"
  /\ active[Owner[i]]
  /\ invoice' = [invoice EXCEPT ![i] = "CREATED"]
  /\ \/ Begin(w, [Idle EXCEPT !.at = "create", !.who = "api", !.i = i])
     \/ UNCHANGED task
  /\ UNCHANGED <<provider, external, attempts, timeVars, payment, disputeVars, ledgerVars,
                 standingVars, event, checkout>>

RecoverUncreated(w, i) ==
  /\ invoice[i] = "CREATED"
  /\ external[i] = NoCheckout
  /\ attempts[i] < MaxAttempts
  /\ age[i] < 1
  /\ Begin(w, [Idle EXCEPT !.at = "create", !.who = "poll", !.i = i])
  /\ UNCHANGED <<invoiceVars, timeVars, payment, disputeVars, ledgerVars, standingVars,
                 event, checkout>>

(* The provider answers with a checkout, or the call fails before or after *)
(* the provider has made one.                                              *)
ProviderCreate(w) ==
  LET t     == task[w]
      known == {x \in Checkout : checkout[x].inv = t.i}
      fresh == {x \in Checkout : checkout[x].inv = NoInvoice}
  IN /\ t.at = "create"
     /\ \/ UNCHANGED checkout /\ Goto(w, [t EXCEPT !.at = "createfail"])
        \/ /\ CheckoutStable
           /\ \E x \in known : Goto(w, [t EXCEPT !.at = "attach", !.x = x])
           /\ UNCHANGED checkout
        \/ /\ CheckoutStable => known = {}
           /\ \E x \in fresh :
                /\ checkout' = [checkout EXCEPT ![x] = [NotIssued EXCEPT !.inv = t.i, !.st = "open"]]
                /\ Goto(w, [t EXCEPT !.at = "attach", !.x = x]) \/ Goto(w, [t EXCEPT !.at = "createfail"])
     /\ UNCHANGED <<invoiceVars, timeVars, payment, disputeVars, ledgerVars, standingVars,
                    event>>

(* The id and the payable amount are recorded, whatever the invoice is by  *)
(* then and whatever another worker recorded before.                       *)
Attach(i, x) == external' = [external EXCEPT ![i] = x]

AttachCheckout(w) ==
  LET t == task[w]
  IN /\ t.at = "attach"
     /\ Attach(t.i, t.x)
     /\ checkout' = [checkout EXCEPT ![t.x].link = TRUE]
     /\ Done(w)
     /\ UNCHANGED <<invoice, provider, attempts, timeVars, payment, disputeVars, ledgerVars,
                    standingVars, event>>

(* The API sets the attempts to one, the poller counts them. *)
CreateFails(w) ==
  LET t == task[w]
  IN /\ t.at = "createfail"
     /\ attempts' = [attempts EXCEPT ![t.i] = IF t.who = "api" THEN 1 ELSE @ + 1]
     /\ Done(w)
     /\ UNCHANGED <<invoice, provider, external, timeVars, payment, disputeVars, ledgerVars,
                    standingVars, event, checkout>>

(***************************************************************************)
(* Closing an invoice.  expireStaleInvoices looks at nothing but the       *)
(* clock; the scheduler calls it before it polls, the worker in every      *)
(* cycle.                                                                  *)
(***************************************************************************)
Stale(i) == invoice[i] = "CREATED" /\ clock[i] # "open"

ExpireStaleInvoices ==
  LET stale == {i \in Invoice : Stale(i)}
  IN /\ stale # {}
     /\ invoice' = [i \in Invoice |-> IF i \in stale THEN "EXPIRED" ELSE invoice[i]]
     /\ UNCHANGED <<provider, external, attempts, timeVars, payment, disputeVars,
                    ledgerVars, standingVars, event, checkout, task>>

(* Of the payment statuses cancelInvoice looks for, only VERIFIED exists. *)
CancelInvoice(i) ==
  /\ invoice[i] = "CREATED"
  /\ \A x \in Checkout : checkout[x].inv = i => payment[x] # "VERIFIED"
  /\ invoice' = [invoice EXCEPT ![i] = "CANCELLED"]
  /\ UNCHANGED <<provider, external, attempts, timeVars, payment, disputeVars, ledgerVars,
                 standingVars, event, checkout, task>>

-----------------------------------------------------------------------------
(***************************************************************************)
(* The provider's callback.  The event is stored first and deduplicated by *)
(* its id, which is the external payment id; a known event is acknowledged *)
(* whatever became of it, and nothing else is done.  VIP signs its         *)
(* callbacks, so they speak of a payment that was made and of its own      *)
(* invoice; STANDARD does not, and a callback may come early or name       *)
(* another invoice of STANDARD's.                                          *)
(***************************************************************************)
Callback(w, x, i) ==
  /\ event[x] = "NONE"
  /\ checkout[x].st # "none"
  /\ invoice[i] # "NONE"
  /\ provider[i] = provider[checkout[x].inv]
  /\ provider[i] = "VIP" => checkout[x].st = "paid" /\ checkout[x].inv = i
  /\ event' = [event EXCEPT ![x] = "RECEIVED"]
  /\ Begin(w, [Idle EXCEPT !.at = "verify", !.who = "callback", !.i = i, !.x = x])
  /\ UNCHANGED <<invoiceVars, timeVars, payment, disputeVars, ledgerVars, standingVars,
                 checkout>>

(* What verifyPayment may answer. *)
CanAnswer(x, answer) ==
  \/ answer = "PAID"    /\ checkout[x].st = "paid"
  \/ answer = "PENDING" /\ \/ checkout[x].st = "open"
                           \/ checkout[x].st = "paid" /\ VerifyMayLag
  \/ answer = "FAILED"  /\ checkout[x].st = "failed"

(* The date of a payment lies past expires_at: the provider's date, or the *)
(* time of the answer where it tells none, or, where a sweep asks VIP, the *)
(* time the sweep began.                                                   *)
DatedLate(t) ==
  IF ReportsPaidAt THEN ~checkout[t.x].ontime
  ELSE (IF t.who = "poll" /\ provider[t.i] = "VIP" THEN t.now ELSE clock[t.i]) # "open"

Answered(t, at, answer) ==
  [t EXCEPT !.at = at, !.now = "open", !.seen = answer, !.late = answer = "PAID" /\ DatedLate(t)]

CallbackVerify(w) ==
  LET t == task[w]
  IN /\ t.at = "verify"
     /\ \/ \E answer \in Answer :
             /\ CanAnswer(t.x, answer)
             /\ Goto(w, Answered(t, "finalize", answer))
             /\ UNCHANGED event
        \/ VerifyMayFail /\ event' = [event EXCEPT ![t.x] = "FAILED"] /\ Done(w)
     /\ UNCHANGED <<invoiceVars, timeVars, payment, disputeVars, ledgerVars, standingVars,
                    checkout>>

MarkProcessed(w) ==
  LET t == task[w]
  IN /\ t.at = "mark"
     /\ event' = [event EXCEPT ![t.x] = "PROCESSED"]
     /\ Done(w)
     /\ UNCHANGED <<invoiceVars, timeVars, payment, disputeVars, ledgerVars, standingVars,
                    checkout>>

(***************************************************************************)
(* pollPendingInvoices, for one invoice of the sweep: the sweep looks at   *)
(* the clock once, selects what it will ask about after it has recovered   *)
(* missing checkouts, and comes to the invoice after those before it.  The *)
(* provider is asked before the local clock counts: an invoice it does not *)
(* know to be paid expires if its grace was over when the sweep began.     *)
(***************************************************************************)
SweepBegins(w, i) ==
  /\ invoice[i] = "CREATED"
  /\ Begin(w, [Idle EXCEPT !.at = "select", !.who = "poll", !.i = i, !.now = clock[i]])
  /\ UNCHANGED <<invoiceVars, timeVars, payment, disputeVars, ledgerVars, standingVars,
                 event, checkout>>

PollableLate(i) ==     \* mutant: the window is compared the wrong way round
  invoice[i] = "CREATED" /\ external[i] # NoCheckout /\ age[i] >= 2
Pollable(i) == invoice[i] = "CREATED" /\ external[i] # NoCheckout /\ age[i] < 2

PollSelect(w) ==
  LET t == task[w]
  IN /\ t.at = "select"
     /\ \/ Pollable(t.i) /\ Goto(w, [t EXCEPT !.at = "ask", !.x = external[t.i]])
        \/ ~Pollable(t.i) /\ Done(w)
     /\ UNCHANGED <<invoiceVars, timeVars, payment, disputeVars, ledgerVars, standingVars,
                    event, checkout>>

PollVerify(w) ==
  LET t == task[w]
  IN /\ t.at = "ask"
     /\ \/ \E answer \in {"PAID", "FAILED"} :
             CanAnswer(t.x, answer) /\ Goto(w, Answered(t, "finalize", answer))
        \/ /\ CanAnswer(t.x, "PENDING") /\ t.now = "graced"
           /\ Goto(w, Answered(t, "expire", "PENDING"))
        \/ CanAnswer(t.x, "PENDING") /\ t.now # "graced" /\ Done(w)
        \/ VerifyMayFail /\ Done(w)
     /\ UNCHANGED <<invoiceVars, timeVars, payment, disputeVars, ledgerVars, standingVars,
                    event, checkout>>

PollExpire(w) ==
  LET t == task[w]
  IN /\ t.at = "expire"
     /\ invoice' = [invoice EXCEPT ![t.i] = IF @ = "CREATED" THEN "EXPIRED" ELSE @]
     /\ Done(w)
     /\ UNCHANGED <<provider, external, attempts, timeVars, payment, disputeVars,
                    ledgerVars, standingVars, event, checkout>>

-----------------------------------------------------------------------------
(***************************************************************************)
(* finalizePayment, one serializable transaction under the invoice's row   *)
(* lock.  Its early returns are the next five actions: a replay, an        *)
(* inconclusive answer, an amount or a date that does not fit, a checkout  *)
(* of another invoice or an invoice that is not payable (which throw and   *)
(* leave nothing behind), and the credit.                                  *)
(***************************************************************************)
Finalizing(w) == task[w].at = "finalize"

Finished(w) ==
  IF task[w].who = "callback" THEN Goto(w, [task[w] EXCEPT !.at = "mark"]) ELSE Done(w)

(* The order id that was verified is that of the invoice at hand. *)
Bound(t) == checkout[t.x].inv = t.i

(* The amount paid is the one the invoice's snapshot asks for, which under *)
(* STANDARD is the checkout's own.                                         *)
MatchesTotal(i, x) == TRUE     \* mutant: any amount will do
Matches(i, x) == checkout[x].exact /\ (provider[i] = "STANDARD" => external[i] = x)

PayableTwice(i, x) == TRUE     \* mutant: neither the status nor the index
Payable(i, x) ==
  /\ invoice[i] = "CREATED"
  /\ \A y \in Checkout : checkout[y].inv = i => ~Credited(y)

Record(w, x, st) ==
  /\ payment' = [payment EXCEPT ![x] = st]
  /\ Finished(w)
  /\ UNCHANGED <<invoiceVars, timeVars, disputeVars, ledgerVars, standingVars, event,
                 checkout>>

FinalizeReplay(w) ==
  /\ Finalizing(w)
  /\ payment[task[w].x] # "NONE"
  /\ Finished(w)
  /\ UNCHANGED <<invoiceVars, timeVars, payment, disputeVars, ledgerVars, standingVars,
                 event, checkout>>

FinalizeInconclusive(w) ==
  LET t == task[w]
  IN /\ Finalizing(w) /\ payment[t.x] = "NONE" /\ Bound(t) /\ t.seen # "PAID"
     /\ Record(w, t.x, IF t.seen = "FAILED" THEN "FAILED" ELSE "UNKNOWN")

FinalizeMismatch(w) ==
  LET t == task[w]
  IN /\ Finalizing(w) /\ payment[t.x] = "NONE" /\ Bound(t) /\ t.seen = "PAID"
     /\ \/ ~Matches(t.i, t.x)
        \/ Payable(t.i, t.x) /\ t.late
     /\ Record(w, t.x, "MISMATCH")

FinalizeRefuse(w) ==
  LET t == task[w]
  IN /\ Finalizing(w) /\ payment[t.x] = "NONE"
     /\ \/ ~Bound(t)
        \/ t.seen = "PAID" /\ Matches(t.i, t.x) /\ ~Payable(t.i, t.x)
     /\ Done(w)
     /\ UNCHANGED <<invoiceVars, timeVars, payment, disputeVars, ledgerVars, standingVars,
                    event, checkout>>

(* The merchant is credited in PENDING, the fee is earned, the provider's  *)
(* own fee is an expense; the score or the provider's match flags may put  *)
(* a RISK hold on the payment.                                             *)
FinalizeCredit(w) ==
  LET t == task[w]
  IN /\ Finalizing(w) /\ payment[t.x] = "NONE" /\ Bound(t) /\ t.seen = "PAID"
     /\ Matches(t.i, t.x) /\ Payable(t.i, t.x) /\ ~t.late
     /\ payment' = [payment EXCEPT ![t.x] = "VERIFIED"]
     /\ invoice' = [invoice EXCEPT ![t.i] = "PAID"]
     /\ pending' = [pending EXCEPT ![Owner[t.i]] = @ + Net[t.i]]
     /\ \E fee \in ProviderFees :
          books' = [clearing |-> books.clearing + Total[t.i] - fee,
                    revenue  |-> books.revenue + Total[t.i] - Net[t.i],
                    expense  |-> books.expense + fee]
     /\ \E risk \in SUBSET {"RISK"} : hold' = [hold EXCEPT ![t.x] = @ \cup risk]
     /\ Finished(w)
     /\ UNCHANGED <<provider, external, attempts, timeVars, dispute, available,
                    standingVars, event, checkout>>

-----------------------------------------------------------------------------
(***************************************************************************)
(* releaseOne: PENDING to AVAILABLE once release_at has passed, unless     *)
(* something holds the payment or the merchant is not ACTIVE.  What is     *)
(* moved is what the payment's journal put into PENDING.                   *)
(***************************************************************************)
UnheldByRisk(x) == "RISK" \notin hold[x]     \* mutant: a dispute does not pause
Unheld(x) == hold[x] = {}

ReleasableEarly(x) ==     \* mutant: release_at compared the wrong way round
  payment[x] = "VERIFIED" /\ ~due[x]
Releasable(x) == payment[x] = "VERIFIED" /\ due[x]

GrossReleased(i) == Total[i]     \* mutant: the fee is released with it
AmountReleased(i) == Net[i]

ReleaseOne(x) ==
  LET i == checkout[x].inv
      m == Owner[i]
  IN /\ Releasable(x)
     /\ active[m]
     /\ Unheld(x)
     /\ AmountReleased(i) > 0
     /\ payment' = [payment EXCEPT ![x] = "RELEASED"]
     /\ pending' = [pending EXCEPT ![m] = @ - AmountReleased(i)]
     /\ available' = [available EXCEPT ![m] = @ + AmountReleased(i)]
     /\ UNCHANGED <<invoiceVars, timeVars, disputeVars, books, standingVars, event,
                    checkout, task>>

(***************************************************************************)
(* Disputes and holds.  A payment has one live dispute at a time, and at   *)
(* most one ACTIVE hold of a source.  A resolution that leaves the money   *)
(* with the merchant lifts every DISPUTE hold of the payment.              *)
(***************************************************************************)
LiveDispute(d) == dispute[d].st = "HOLD"

OpenDispute(d, x) ==
  /\ dispute[d].st = "NONE"
  /\ payment[x] # "NONE"
  /\ \A e \in Dispute : dispute[e].x = x => ~LiveDispute(e)
  /\ dispute' = [dispute EXCEPT ![d] = [x |-> x, st |-> "HOLD", res |-> "NONE"]]
  /\ hold' = [hold EXCEPT ![x] = @ \cup {"DISPUTE"}]
  /\ UNCHANGED <<invoiceVars, timeVars, payment, ledgerVars, standingVars, event, checkout,
                 task>>

Lifts(res) == res \in {"UPHELD_MERCHANT", "NO_ACTION"}

ResolveDispute(d, res) ==
  /\ LiveDispute(d)
  /\ dispute' = [dispute EXCEPT ![d].st = "RESOLVED", ![d].res = res]
  /\ hold' = IF Lifts(res) THEN [hold EXCEPT ![dispute[d].x] = @ \ {"DISPUTE"}] ELSE hold
  /\ UNCHANGED <<invoiceVars, timeVars, payment, ledgerVars, standingVars, event, checkout,
                 task>>

(* releaseHold, an administrator's decision. *)
ReleaseHold(x, source) ==
  /\ MayLift
  /\ source \in hold[x]
  /\ hold' = [hold EXCEPT ![x] = @ \ {source}]
  /\ UNCHANGED <<invoiceVars, timeVars, payment, dispute, ledgerVars, standingVars, event,
                 checkout, task>>

(* suspendMerchant and activateMerchant. *)
ChangeStanding(m) ==
  /\ MaySuspend
  /\ active' = [active EXCEPT ![m] = ~@]
  /\ UNCHANGED <<invoiceVars, timeVars, payment, disputeVars, ledgerVars, frozen, event,
                 checkout, task>>

(* A cycle looks at the freeze when it begins, so that one under way may   *)
(* still release: ReleaseOne does not ask for it, Fairness does.           *)
ToggleFreeze ==
  /\ MayFreeze
  /\ frozen' = ~frozen
  /\ UNCHANGED <<invoiceVars, timeVars, payment, disputeVars, ledgerVars, active, event,
                 checkout, task>>

-----------------------------------------------------------------------------
(* The customer, the provider and the clock. *)

(* A sweep that has yet to ask about the invoice began before expires_at,  *)
(* and will date a payment of now by that.                                 *)
Swept(i) ==
  /\ provider[i] = "VIP" /\ ~ReportsPaidAt
  /\ \E w \in Worker :
       task[w].i = i /\ task[w].at \in {"select", "ask"} /\ task[w].now = "open"

CustomerPays(x, exact) ==
  LET i == checkout[x].inv
  IN /\ checkout[x].st = "open" /\ checkout[x].link
     /\ exact \/ MayMispay
     /\ checkout' = [checkout EXCEPT ![x].st = "paid", ![x].exact = exact,
                       ![x].ontime = clock[i] = "open",
                       ![x].swept = clock[i] # "open" /\ Swept(i)]
     /\ UNCHANGED <<invoiceVars, timeVars, payment, disputeVars, ledgerVars, standingVars,
                    event, task>>

ProviderCloses(x) ==
  /\ MayClose
  /\ checkout[x].st = "open"
  /\ checkout' = [checkout EXCEPT ![x].st = "failed"]
  /\ UNCHANGED <<invoiceVars, timeVars, payment, disputeVars, ledgerVars, standingVars,
                 event, task>>

(* Time matters as long as the invoice is CREATED: every transaction that  *)
(* asks for it asks for that first.  Where polling is prompt no deadline   *)
(* passes a payment before somebody has recorded it.                       *)
MayPass(i) ==
  /\ invoice[i] = "CREATED"
  /\ PromptPolling =>
       \A x \in Checkout : checkout[x].inv = i /\ checkout[x].st = "paid" => payment[x] # "NONE"

ClockPasses(i) ==
  /\ MayPass(i)
  /\ \/ clock[i] = "open" /\ clock' = [clock EXCEPT ![i] = "expired"]
     \/ clock[i] = "expired" /\ clock' = [clock EXCEPT ![i] = "graced"]
  /\ UNCHANGED <<invoiceVars, age, due, payment, disputeVars, ledgerVars, standingVars,
                 event, checkout, task>>

DayPasses(i) ==
  /\ MayPass(i)
  /\ age[i] < MaxAge
  /\ age' = [age EXCEPT ![i] = @ + 1]
  /\ UNCHANGED <<invoiceVars, clock, due, payment, disputeVars, ledgerVars, standingVars,
                 event, checkout, task>>

HoldPasses(x) ==
  /\ payment[x] = "VERIFIED" /\ ~due[x]
  /\ due' = [due EXCEPT ![x] = TRUE]
  /\ UNCHANGED <<invoiceVars, clock, age, payment, disputeVars, ledgerVars, standingVars,
                 event, checkout, task>>

Crash(w) ==
  /\ MayCrash
  /\ task[w] # Idle
  /\ Done(w)
  /\ UNCHANGED <<invoiceVars, timeVars, payment, disputeVars, ledgerVars, standingVars,
                 event, checkout>>

-----------------------------------------------------------------------------
Finalize(w) ==
  \/ FinalizeReplay(w) \/ FinalizeInconclusive(w) \/ FinalizeMismatch(w)
  \/ FinalizeRefuse(w) \/ FinalizeCredit(w)

TaskStep(w) ==
  \/ ProviderCreate(w) \/ AttachCheckout(w) \/ CreateFails(w)
  \/ CallbackVerify(w) \/ MarkProcessed(w)
  \/ PollSelect(w) \/ PollVerify(w) \/ PollExpire(w)
  \/ Finalize(w)

BeginTask(w) ==
  \/ \E i \in Invoice : CreateInvoice(w, i) \/ RecoverUncreated(w, i) \/ SweepBegins(w, i)
  \/ \E x \in Checkout, i \in Invoice : Callback(w, x, i)

CaseStep ==
  \/ \E d \in Dispute : (\E x \in Checkout : OpenDispute(d, x))
                        \/ (\E res \in Resolution : ResolveDispute(d, res))
  \/ \E x \in Checkout, source \in Source : ReleaseHold(x, source)
  \/ \E m \in Merchant : ChangeStanding(m)
  \/ ToggleFreeze

WorldStep ==
  \/ \E x \in Checkout, exact \in BOOLEAN : CustomerPays(x, exact)
  \/ \E x \in Checkout : ProviderCloses(x) \/ HoldPasses(x)
  \/ \E i \in Invoice : ClockPasses(i) \/ DayPasses(i)
  \/ \E w \in Worker : Crash(w)

Next ==
  \/ \E w \in Worker : BeginTask(w) \/ TaskStep(w)
  \/ \E i \in Invoice : CancelInvoice(i)
  \/ ExpireStaleInvoices
  \/ \E x \in Checkout : ReleaseOne(x)
  \/ CaseStep
  \/ WorldStep

Spec == Init /\ [][Next]_vars

-----------------------------------------------------------------------------
(***************************************************************************)
(* Fairness.  The scheduler sweeps every minute, recovering first and then *)
(* asking about the PollBatch oldest invoices; a worker's cycle that finds *)
(* no freeze tries the ReleaseBatch oldest payments that are due.  One     *)
(* with fewer others than that beside it is not passed over for ever; one  *)
(* with as many may be, because a held or suspended payment is skipped and *)
(* keeps its place.  Requests that were begun go on unless the process     *)
(* dies, any number of times but not for ever, and the clock runs.         *)
(* Nothing is assumed of the customer, the merchant, callbacks or          *)
(* operators.                                                              *)
(***************************************************************************)
InPoll(i) == Cardinality({j \in Invoice \ {i} : Pollable(j)}) < PollBatch

InRelease(x) ==
  /\ ~frozen
  /\ Cardinality({y \in Checkout \ {x} : Releasable(y)}) < ReleaseBatch

Fairness ==
  /\ \A w \in Worker :
       /\ WF_vars(TaskStep(w))
       /\ \A i \in Invoice : SF_vars(InPoll(i) /\ Pollable(i) /\ SweepBegins(w, i))
  /\ \A x \in Checkout : WF_vars(HoldPasses(x)) /\ WF_vars(InRelease(x) /\ ReleaseOne(x))
  /\ <>[][\A w \in Worker : Crash(w) => TaskStep(w)]_vars

FairSpec == Spec /\ Fairness

-----------------------------------------------------------------------------
ClockFace == {"open", "expired", "graced"}
Deal == [inv : Invoice \cup {NoInvoice}, st : {"none", "open", "paid", "failed"},
         link : BOOLEAN, ontime : BOOLEAN, swept : BOOLEAN, exact : BOOLEAN]
Case == [x : Checkout \cup {NoCheckout}, st : {"NONE", "HOLD", "RESOLVED"},
         res : Resolution \cup {"NONE"}]
Task == [at : Stage, who : {"none", "api", "poll", "callback"}, i : Invoice \cup {NoInvoice},
         x : Checkout \cup {NoCheckout}, now : ClockFace, seen : Answer \cup {"NONE"},
         late : BOOLEAN]

(* Every variable keeps its type; no merchant bucket is ever negative.     *)
TypeOK ==
  /\ invoice \in [Invoice -> InvoiceStatus]
  /\ provider \in [Invoice -> {"VIP", "STANDARD"}]
  /\ external \in [Invoice -> Checkout \cup {NoCheckout}]
  /\ attempts \in [Invoice -> Nat]
  /\ clock \in [Invoice -> ClockFace] /\ age \in [Invoice -> 0 .. 2]
  /\ payment \in [Checkout -> PaymentStatus] /\ due \in [Checkout -> BOOLEAN]
  /\ hold \in [Checkout -> SUBSET Source] /\ dispute \in [Dispute -> Case]
  /\ pending \in [Merchant -> Nat] /\ available \in [Merchant -> Nat]
  /\ books \in [clearing : Int, revenue : Nat, expense : Nat]
  /\ active \in [Merchant -> BOOLEAN] /\ frozen \in BOOLEAN
  /\ event \in [Checkout -> {"NONE", "RECEIVED", "PROCESSED", "FAILED"}]
  /\ checkout \in [Checkout -> Deal]
  /\ task \in [Worker -> Task]

(***************************************************************************)
(* Safety whatever the environment does.                                   *)
(***************************************************************************)
PaymentsOf(i) == {x \in Checkout : checkout[x].inv = i}

(* An invoice is credited once: callbacks, their retries, the poller and a *)
(* second checkout of the same invoice never make two credits of it, and a *)
(* credited invoice is PAID for ever after.                                *)
CreditedOnce ==
  \A i \in Invoice :
    /\ \A x, y \in PaymentsOf(i) : Credited(x) /\ Credited(y) => x = y
    /\ invoice[i] = "PAID" <=> \E x \in PaymentsOf(i) : Credited(x)

(* A payment counts as made in time if it was made before expires_at, and  *)
(* also, where VIP gives it no date, if a sweep that began before that had *)
(* yet to ask about the invoice when it was made.                          *)
InTime(x) == checkout[x].ontime \/ checkout[x].swept

(* A credit is worth its evidence: the provider holds the money, it was    *)
(* paid in full and before expires_at, or at least before the end of a     *)
(* sweep that began before it, however old the answer was that a slow      *)
(* worker finalized on (finalizePayment, pollPendingInvoices).             *)
CreditIsEarned ==
  \A x \in Checkout : Credited(x) =>
    checkout[x].st = "paid" /\ InTime(x) /\ checkout[x].exact

(* The buckets are what the payments say: PENDING the net of the VERIFIED, *)
(* AVAILABLE that of the RELEASED, and provider clearing and expense are   *)
(* matched by the buckets and the fee revenue.                             *)
NetOf(m, st) ==
  MapThenSumSet(LAMBDA x : Net[checkout[x].inv],
                {x \in Checkout : payment[x] = st /\ Owner[checkout[x].inv] = m})
CreditsAreBooked ==
  /\ \A m \in Merchant :
       pending[m] = NetOf(m, "VERIFIED") /\ available[m] = NetOf(m, "RELEASED")
  /\ books.clearing + books.expense =
       MapThenSumSet(LAMBDA m : pending[m] + available[m], Merchant) + books.revenue

(* The books of a payment hold together: types, no negative bucket, and    *)
(* buckets that hold what is credited and not released, or released        *)
(* (finalizePayment, releaseOne).                                          *)
BooksBalance == TypeOK /\ CreditsAreBooked

(* What a worker acts on stays true of the checkout it asked about: the    *)
(* provider's answer, the date it was given, and, but for an unsigned      *)
(* callback, that it belongs to the invoice at hand.                       *)
Remembers(t) ==
  t.at # "idle" =>
    /\ t.i \in Invoice /\ invoice[t.i] # "NONE"
    /\ t.x # NoCheckout =>
         /\ checkout[t.x].inv # NoInvoice
         /\ Bound(t) \/ (t.who = "callback" /\ provider[t.i] = "STANDARD")
         /\ t.seen = "PAID" => checkout[t.x].st = "paid" /\ (Bound(t) => t.late \/ InTime(t.x))
WorkersRemember == \A w \in Worker : Remembers(task[w])

(* While a dispute over a payment is live its money does not move on, as   *)
(* long as nobody lifts the hold by hand.                                  *)
DisputedStays ==
  [][\A d \in Dispute : LiveDispute(d) /\ payment[dispute[d].x] = "VERIFIED" =>
       payment'[dispute[d].x] = "VERIFIED"]_vars

(* What accepting payments comes to for the merchant is CreditPromise: the *)
(* attempts to pay an invoice, the callbacks, sweeps, disputes and crashes *)
(* are seen as one credit, released once.                                  *)
CreditOf(i) ==
  IF \E x \in PaymentsOf(i) : payment[x] = "RELEASED" THEN "spendable"
  ELSE IF \E x \in PaymentsOf(i) : payment[x] = "VERIFIED" THEN "pending" ELSE "none"

Earned(i) == \E x \in PaymentsOf(i) : checkout[x].st = "paid" /\ InTime(x) /\ checkout[x].exact

Promise == INSTANCE CreditPromise WITH
  earned <- {i \in Invoice : Earned(i)},
  credit <- [i \in Invoice |-> CreditOf(i)]

KeepsCreditPromise == Promise!Spec

(***************************************************************************)
(* Liveness, under FairSpec.                                               *)
(***************************************************************************)

(* The customer's money reaches the merchant although the callback is      *)
(* lost: what was paid in time, and while the poller still looks, is       *)
(* credited, unless the merchant cancelled the invoice meanwhile, or older *)
(* invoices always fill the sweep (pollPendingInvoices).                   *)
PaidInTime(i) == \E x \in PaymentsOf(i) : checkout[x].st = "paid" /\ checkout[x].ontime
PaidIsCredited ==
  \A i \in Invoice : <>[]InPoll(i) =>
    (PaidInTime(i) /\ age[i] < 2 ~> invoice[i] \in {"PAID", "CANCELLED"})

(* A credit becomes spendable, unless a hold or the merchant's standing    *)
(* keeps it, a freeze comes again and again, or payments that are skipped  *)
(* fill the worker's list (releaseEligiblePayments).                       *)
Standing(x) == \A i \in Invoice : x \in PaymentsOf(i) => active[Owner[i]]
CreditIsReleased ==
  \A x \in Checkout : <>[]InRelease(x) =>
    (payment[x] = "VERIFIED" ~> payment[x] = "RELEASED" \/ hold[x] # {} \/ ~Standing(x))
=============================================================================
