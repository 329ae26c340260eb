--------------------------- MODULE PaymentsProofs ---------------------------
(***************************************************************************)
(* Theorems about Payments, for any invoices, checkouts, disputes, workers *)
(* and amounts, and whatever the environment does.                         *)
(***************************************************************************)
EXTENDS Books, Sums, TLAPS

USE DEF invoiceVars, timeVars, disputeVars, ledgerVars, standingVars

(***************************************************************************)
(* The inductive invariant.  That an invoice is credited once, and on      *)
(* evidence, hangs on what surrounds the two: a worker that has waited may *)
(* credit only because it remembers (WorkersRemember), the poller asks     *)
(* about a checkout of the very invoice, and a payment that was in time is *)
(* known to be while the clock still stands before expires_at (Known).     *)
(***************************************************************************)
Shapes ==
  /\ invoice \in [Invoice -> InvoiceStatus]
  /\ provider \in [Invoice -> {"VIP", "STANDARD"}]
  /\ external \in [Invoice -> Checkout \cup {NoCheckout}]
  /\ clock \in [Invoice -> ClockFace]
  /\ payment \in [Checkout -> PaymentStatus]
  /\ checkout \in [Checkout -> Deal]
  /\ DOMAIN task = Worker

Known ==
  /\ \A x \in Checkout : checkout[x].inv = NoInvoice => checkout[x].st = "none" /\ payment[x] = "NONE"
  /\ \A x \in Checkout : checkout[x].inv # NoInvoice => invoice[checkout[x].inv] # "NONE"
  /\ \A x \in Checkout : checkout[x].st = "paid" /\ clock[checkout[x].inv] = "open" => checkout[x].ontime
  /\ \A i \in Invoice : external[i] # NoCheckout => checkout[external[i]].inv = i

(* A sweep that began before expires_at and has not asked yet will find    *)
(* that what was paid counts as paid in time.                              *)
Sees(t) ==
  /\ t.at \in {"select", "ask"} /\ t.now = "open" /\ provider[t.i] = "VIP" /\ ~ReportsPaidAt
  => \A x \in Checkout : checkout[x].inv = t.i /\ checkout[x].st = "paid" => InTime(x)

Fit(t) ==
  /\ t \in Task
  /\ Remembers(t)
  /\ Sees(t)
  /\ t.at \in {"attach", "verify", "ask", "finalize", "mark", "expire"} => t.x # NoCheckout
  /\ t.at \in {"create", "select"} => t.seen = "NONE"
  /\ t.at \in {"select", "ask"} => t.who = "poll"
  /\ t.at = "verify" => t.who = "callback"
  /\ t.who = "callback" => t.at \in {"verify", "finalize", "mark"}

Inv ==
  /\ Shapes
  /\ Known
  /\ \A w \in Worker : Fit(task[w])
  /\ CreditedOnce
  /\ CreditIsEarned

(* What no step takes back: a row stays, a checkout keeps its invoice, and *)
(* the provider keeps what it was paid.                                    *)
Kept ==
  /\ provider' = provider
  /\ \A i \in Invoice : invoice[i] # "NONE" => invoice'[i] # "NONE"
  /\ \A x \in Checkout : checkout[x].inv # NoInvoice => checkout'[x].inv = checkout[x].inv
  /\ \A x \in Checkout : checkout[x].st = "paid" =>
       /\ checkout'[x].st = "paid" /\ checkout'[x].ontime = checkout[x].ontime
       /\ checkout'[x].swept = checkout[x].swept /\ checkout'[x].exact = checkout[x].exact

(* A step at which, besides, nobody pays. *)
Onward ==
  /\ Kept
  /\ \A x \in Checkout : checkout'[x].st = "paid" =>
       checkout[x].st = "paid" /\ checkout'[x].inv = checkout[x].inv

-----------------------------------------------------------------------------
(* An idle worker holds a task like any other. *)
LEMMA IdleFits == Fit(Idle)
BY NoValueAssumption DEF NoValueAssumption, Idle, Task, Stage, Answer, ClockFace, Remembers, Sees, Fit

(* What a worker remembers stays true while it waits, whoever pays. *)
LEMMA MemoryStays ==
  ASSUME Kept, NEW t, Fit(t)
  PROVE  Remembers(t)'
<1>1. t.at # "idle" => t.i \in Invoice /\ invoice'[t.i] # "NONE"
  BY DEF Fit, Remembers, Kept
<1>2. t.at # "idle" /\ t.x # NoCheckout => t.x \in Checkout /\ checkout[t.x].inv # NoInvoice
  BY DEF Fit, Remembers, Task
<1>3. t.at # "idle" /\ t.x # NoCheckout =>
        checkout'[t.x].inv = checkout[t.x].inv /\ provider' = provider
  BY <1>2 DEF Kept
<1>4. t.at # "idle" /\ t.x # NoCheckout =>
        Bound(t)' \/ (t.who = "callback" /\ provider'[t.i] = "STANDARD")
  BY <1>3 DEF Fit, Remembers, Bound
<1>5. t.at # "idle" /\ t.x # NoCheckout /\ t.seen = "PAID" =>
        checkout'[t.x].st = "paid" /\ (Bound(t)' => t.late \/ InTime(t.x)')
  BY <1>2, <1>3 DEF Fit, Remembers, Kept, Bound, InTime
<1> QED BY <1>1, <1>2, <1>3, <1>4, <1>5 DEF Remembers

LEMMA MemoryKept ==
  ASSUME Onward, NEW t, Fit(t)
  PROVE  Fit(t)'
<1>1. Remembers(t)'
  BY MemoryStays DEF Onward
<1>2. Sees(t)'
  BY DEF Fit, Sees, Onward, Kept, InTime
<1> QED BY <1>1, <1>2 DEF Fit

(* A step that changes no payment and neither makes nor unmakes a PAID     *)
(* invoice leaves every credit as it is.                                   *)
LEMMA CreditsKept ==
  ASSUME Inv, Kept, payment' = payment,
         \A i \in Invoice : invoice'[i] = "PAID" <=> invoice[i] = "PAID"
  PROVE  CreditedOnce' /\ CreditIsEarned'
<1>1. \A x \in Checkout : Credited(x)' <=> Credited(x)
  BY DEF Credited
<1>2. \A x \in Checkout : Credited(x) => checkout[x].inv \in Invoice /\ checkout'[x].inv = checkout[x].inv
  BY DEF Inv, Known, Shapes, Kept, Credited, Deal
<1>3. CreditedOnce'
  BY <1>1, <1>2 DEF Inv, CreditedOnce, PaymentsOf
<1>4. CreditIsEarned'
  BY <1>1 DEF Inv, CreditIsEarned, Kept, InTime
<1> QED BY <1>3, <1>4

(* A worker that takes up a task that fits leaves the others as they were. *)
LEMMA TasksKept ==
  ASSUME Inv, Onward, NEW w \in Worker, NEW t, Fit(t)',
         task' = task \/ task' = [task EXCEPT ![w] = t]
  PROVE  DOMAIN task' = Worker /\ \A v \in Worker : Fit(task[v])'
<1>1. DOMAIN task' = Worker
  BY DEF Inv, Shapes
<1>2. \A v \in Worker : task'[v] = task[v] \/ task'[v] = t
  BY DEF Inv, Shapes
<1>3. ASSUME NEW v \in Worker PROVE Fit(task[v])'
  <2>1. PICK u : u = task[v]
    OBVIOUS
  <2>2. Fit(u)'
    <3>1. Fit(u)
      BY <2>1 DEF Inv
    <3> QED BY <3>1, MemoryKept
  <2>3. task'[v] = u \/ task'[v] = t
    BY <1>2, <2>1
  <2> QED BY <2>2, <2>3 DEF Fit, Remembers, Sees, Bound, InTime
<1> QED BY <1>1, <1>3

(***************************************************************************)
(* Steps that touch neither an invoice, a payment nor a checkout: a worker *)
(* takes up a task that fits, or none.                                     *)
(***************************************************************************)
RowsKept ==
  /\ invoice' = invoice /\ provider' = provider /\ external' = external
  /\ payment' = payment /\ checkout' = checkout

LEMMA RowsKeptStep ==
  ASSUME Inv, RowsKept,
         clock' \in [Invoice -> ClockFace],
         \A i \in Invoice : clock'[i] = "open" => clock[i] = "open",
         task' = task \/ \E w \in Worker : \E t : Fit(t) /\ task' = [task EXCEPT ![w] = t]
  PROVE  Inv'
<1>1. Onward
  BY DEF RowsKept, Onward, Kept
<1>2. Shapes' /\ Known'
  BY DEF Inv, RowsKept, Shapes, Known, Deal
<1>3. CreditedOnce' /\ CreditIsEarned'
  BY <1>1, CreditsKept DEF RowsKept, Onward
<1>4. \A w \in Worker : Fit(task[w])'
  <2>1. CASE task' = task
    BY <2>1 DEF Inv, RowsKept, Fit, Remembers, Sees, Bound, InTime
  <2>2. CASE \E w \in Worker : \E t : Fit(t) /\ task' = [task EXCEPT ![w] = t]
    <3>1. PICK w \in Worker : \E t : Fit(t) /\ task' = [task EXCEPT ![w] = t]
      BY <2>2
    <3>2. PICK t : Fit(t) /\ task' = [task EXCEPT ![w] = t]
      BY <3>1
    <3>3. Fit(t)'
      BY <1>1, <3>2, MemoryKept
    <3> QED BY <1>1, <3>2, <3>3, TasksKept
  <2> QED BY <2>1, <2>2
<1> QED BY <1>2, <1>3, <1>4 DEF Inv

(* A worker that has stopped, or finished, is idle. *)
LEMMA DoneStep ==
  ASSUME Inv, RowsKept, clock' = clock, NEW w \in Worker, Done(w)
  PROVE  Inv'
BY IdleFits, RowsKeptStep DEF Inv, Shapes, Done

(* Recovery takes up an invoice that is there. *)
LEMMA RecoverStep ==
  ASSUME Inv, NEW w \in Worker, NEW i \in Invoice, RecoverUncreated(w, i)
  PROVE  Inv'
<1> DEFINE t == [Idle EXCEPT !.at = "create", !.who = "poll", !.i = i]
<1>1. Fit(t)
  BY NoValueAssumption DEF NoValueAssumption, RecoverUncreated, Fit, Remembers, Sees, Idle, Task, Stage, ClockFace
<1> QED BY <1>1, RowsKeptStep DEF RecoverUncreated, Begin, RowsKept, Inv, Shapes

(* A callback names a checkout the provider has issued. *)
LEMMA CallbackStep ==
  ASSUME Inv, NEW w \in Worker, NEW x \in Checkout, NEW i \in Invoice, Callback(w, x, i)
  PROVE  Inv'
<1> DEFINE t == [Idle EXCEPT !.at = "verify", !.who = "callback", !.i = i, !.x = x]
<1>1. Fit(t)
  <2>1. checkout[x].inv # NoInvoice /\ invoice[i] # "NONE"
    BY DEF Callback, Inv, Known
  <2>2. checkout[x].inv = i \/ provider[i] = "STANDARD"
    BY DEF Callback, Inv, Shapes
  <2> QED BY <2>1, <2>2, NoValueAssumption
          DEF NoValueAssumption, Fit, Remembers, Sees, Bound, Idle, Task, Stage, ClockFace
<1> QED BY <1>1, RowsKeptStep DEF Callback, Begin, RowsKept, Inv, Shapes

(* A sweep that begins before expires_at knows what was paid to be in time. *)
LEMMA SweepStep ==
  ASSUME Inv, NEW w \in Worker, NEW i \in Invoice, SweepBegins(w, i)
  PROVE  Inv'
<1> DEFINE t == [Idle EXCEPT !.at = "select", !.who = "poll", !.i = i, !.now = clock[i]]
<1>1. Fit(t)
  <2>1. invoice[i] # "NONE" /\ clock[i] \in ClockFace
    BY DEF SweepBegins, Inv, Shapes
  <2>2. /\ t \in Task /\ t.at = "select" /\ t.who = "poll" /\ t.i = i /\ t.x = NoCheckout
        /\ t.seen = "NONE" /\ t.now = clock[i]
    BY <2>1 DEF Idle, Task, Stage
  <2>3. clock[i] = "open" => \A x \in Checkout : checkout[x].inv = i /\ checkout[x].st = "paid" => InTime(x)
    BY DEF Inv, Known, InTime
  <2> QED BY <2>1, <2>2, <2>3 DEF Fit, Remembers, Sees
<1> QED BY <1>1, RowsKeptStep DEF SweepBegins, Begin, RowsKept, Inv, Shapes

(* The sweep asks about the checkout of the invoice at hand. *)
LEMMA PollSelectStep ==
  ASSUME Inv, NEW w \in Worker, PollSelect(w)
  PROVE  Inv'
<1>1. RowsKept /\ clock' = clock
  BY DEF PollSelect, RowsKept
<1>2. CASE Done(w)
  BY <1>1, <1>2, DoneStep
<1>3. CASE Pollable(task[w].i) /\ Goto(w, [task[w] EXCEPT !.at = "ask", !.x = external[task[w].i]])
  <2>1. PICK t : t = task[w]
    OBVIOUS
  <2>2. Fit(t) /\ t.at = "select" /\ t.i \in Invoice /\ invoice[t.i] # "NONE"
    BY <2>1 DEF PollSelect, Inv, Fit, Remembers
  <2>3. PICK x : x = external[t.i]
    OBVIOUS
  <2>4. x \in Checkout /\ checkout[x].inv = t.i
    BY <1>3, <2>1, <2>2, <2>3 DEF Pollable, Inv, Known, Shapes
  <2> DEFINE u == [t EXCEPT !.at = "ask", !.x = x]
  <2>5. /\ u \in Task /\ u.at = "ask" /\ u.who = t.who /\ u.i = t.i /\ u.x = x
        /\ u.now = t.now /\ u.seen = t.seen
    BY <2>2, <2>4 DEF Fit, Task, Stage
  <2>6. Fit(u)
    BY <2>2, <2>4, <2>5, NoValueAssumption DEF NoValueAssumption, Fit, Remembers, Sees, Bound
  <2> QED BY <1>1, <1>3, <2>1, <2>3, <2>6, RowsKeptStep DEF Goto, Inv, Shapes
<1> QED BY <1>2, <1>3 DEF PollSelect

(***************************************************************************)
(* What verifyPayment answers of a checkout is true, and is dated late     *)
(* where the payment does not count as made in time: a date of the present *)
(* because the clock only runs, and a date of the sweep's beginning        *)
(* because the sweep was on when the customer paid.                        *)
(***************************************************************************)
LEMMA AnswerIsTrue ==
  ASSUME Inv, NEW t, Fit(t), t.at \in {"verify", "ask"}, NEW answer \in Answer, CanAnswer(t.x, answer),
         NEW at \in {"finalize", "expire"}, t.at = "verify" => at = "finalize"
  PROVE  Fit(Answered(t, at, answer))
<1>1. /\ t \in Task /\ t.i \in Invoice /\ invoice[t.i] # "NONE"
      /\ t.x \in Checkout /\ t.x # NoCheckout /\ checkout[t.x].inv # NoInvoice
      /\ Bound(t) \/ (t.who = "callback" /\ provider[t.i] = "STANDARD")
  BY DEF Fit, Remembers, Task
<1>2. DatedLate(t) \in BOOLEAN
  BY <1>1 DEF DatedLate, Inv, Shapes, Deal
<1>3. answer = "PAID" => checkout[t.x].st = "paid"
  BY DEF CanAnswer
<1>4. answer = "PAID" /\ Bound(t) => DatedLate(t) \/ InTime(t.x)
  <2>1. CASE ReportsPaidAt
    BY <2>1 DEF DatedLate, InTime
  <2>2. CASE ~ReportsPaidAt /\ t.who = "poll" /\ provider[t.i] = "VIP"
    BY <1>1, <1>3, <2>2 DEF DatedLate, Fit, Sees, Bound
  <2>3. CASE ~ReportsPaidAt /\ ~(t.who = "poll" /\ provider[t.i] = "VIP")
    BY <1>1, <1>3, <2>3 DEF DatedLate, InTime, Bound, Inv, Known
  <2> QED BY <2>1, <2>2, <2>3
<1> DEFINE u == Answered(t, at, answer)
<1>5. /\ u.at = at /\ u.i = t.i /\ u.x = t.x /\ u.who = t.who /\ u.seen = answer
      /\ answer = "PAID" => u.late = DatedLate(t)
      /\ u \in Task
  BY <1>1, <1>2 DEF Answered, Task, Stage, ClockFace
<1> HIDE DEF u
<1>6. Remembers(u)
  BY <1>1, <1>3, <1>4, <1>5 DEF Remembers, Bound
<1> QED BY <1>1, <1>5, <1>6 DEF Fit, Sees, u

(* The callback's worker goes on with a true answer, or gives up. *)
LEMMA CallbackVerifyStep ==
  ASSUME Inv, NEW w \in Worker, CallbackVerify(w)
  PROVE  Inv'
<1>1. RowsKept /\ clock' = clock /\ Fit(task[w]) /\ task[w].at = "verify"
  BY DEF CallbackVerify, RowsKept, Inv
<1>2. CASE Done(w)
  BY <1>1, <1>2, DoneStep
<1>3. CASE \E answer \in Answer :
             CanAnswer(task[w].x, answer) /\ Goto(w, Answered(task[w], "finalize", answer))
  BY <1>1, <1>3, AnswerIsTrue, RowsKeptStep DEF Goto, Inv, Shapes
<1> QED BY <1>2, <1>3 DEF CallbackVerify

(* So does the sweep's. *)
LEMMA PollVerifyStep ==
  ASSUME Inv, NEW w \in Worker, PollVerify(w)
  PROVE  Inv'
<1>1. RowsKept /\ clock' = clock /\ Fit(task[w]) /\ task[w].at = "ask"
  BY DEF PollVerify, RowsKept, Inv
<1>2. CASE Done(w)
  BY <1>1, <1>2, DoneStep
<1>3. CASE \E answer \in Answer, at \in {"finalize", "expire"} :
             CanAnswer(task[w].x, answer) /\ Goto(w, Answered(task[w], at, answer))
  BY <1>1, <1>3, AnswerIsTrue, RowsKeptStep DEF Goto, Inv, Shapes
<1> QED BY <1>2, <1>3 DEF PollVerify, Answer

(* Once a payment is recorded, a callback's worker has one step left. *)
LEMMA FinishedFits ==
  ASSUME Inv, NEW w \in Worker, Finalizing(w), Finished(w)
  PROVE  \E t : Fit(t) /\ task' = [task EXCEPT ![w] = t]
<1>1. Fit(task[w]) /\ task[w].at = "finalize"
  BY DEF Inv, Finalizing
<1>2. Fit([task[w] EXCEPT !.at = "mark"])
  BY <1>1 DEF Fit, Remembers, Sees, Bound, Task, Stage
<1> QED BY <1>2, IdleFits DEF Finished, Goto, Done

(* A replay, and a refusal, record nothing. *)
LEMMA FinalizeNothingStep ==
  ASSUME Inv, NEW w \in Worker, FinalizeReplay(w) \/ FinalizeRefuse(w)
  PROVE  Inv'
<1>1. RowsKept /\ clock' = clock
  BY DEF FinalizeReplay, FinalizeRefuse, RowsKept
<1>2. CASE Finished(w)
  BY <1>1, <1>2, FinishedFits, RowsKeptStep DEF FinalizeReplay, FinalizeRefuse, Inv, Shapes
<1>3. CASE Done(w)
  BY <1>1, <1>3, DoneStep
<1> QED BY <1>2, <1>3 DEF FinalizeReplay, FinalizeRefuse

(* Steps of disputes, holds, merchants and the clock. *)
LEMMA AsideStep ==
  ASSUME Inv, CaseStep \/ (\E x \in Checkout : HoldPasses(x))
                \/ (\E i \in Invoice : ClockPasses(i) \/ DayPasses(i))
  PROVE  Inv'
<1>1. RowsKept /\ task' = task
  BY DEF CaseStep, OpenDispute, ResolveDispute, ReleaseHold, ChangeStanding, ToggleFreeze, HoldPasses,
         ClockPasses, DayPasses, RowsKept
<1>2. \/ clock' = clock
      \/ \E i \in Invoice, c \in {"expired", "graced"} : clock' = [clock EXCEPT ![i] = c]
  BY DEF CaseStep, OpenDispute, ResolveDispute, ReleaseHold, ChangeStanding, ToggleFreeze, HoldPasses,
         ClockPasses, DayPasses
<1>3. /\ clock' \in [Invoice -> ClockFace]
      /\ \A i \in Invoice : clock'[i] = "open" => clock[i] = "open"
  BY <1>2 DEF Inv, Shapes, ClockFace
<1> QED BY <1>1, <1>3, RowsKeptStep

-----------------------------------------------------------------------------
(* Steps that open or close invoices that are not paid. *)
LEMMA InvoiceMoves ==
  ASSUME Inv, invoice' \in [Invoice -> InvoiceStatus],
         \A i \in Invoice : invoice'[i] # invoice[i] =>
           invoice[i] \in {"NONE", "CREATED"} /\ invoice'[i] \notin {"NONE", "PAID"},
         provider' = provider, external' = external, clock' = clock, payment' = payment, checkout' = checkout,
         task' = task \/ \E w \in Worker : \E t : Fit(t)' /\ task' = [task EXCEPT ![w] = t]
  PROVE  Inv'
<1>1. Onward
  BY DEF Onward, Kept
<1>2. Shapes' /\ Known'
  BY DEF Inv, Shapes, Known, Deal
<1>3. CreditedOnce' /\ CreditIsEarned'
  BY <1>1, CreditsKept DEF Onward
<1>4. \A w \in Worker : Fit(task[w])'
  <2>1. CASE task' = task
    BY <1>1, <2>1, IdleFits, TasksKept, MemoryKept DEF Inv
  <2>2. CASE \E w \in Worker : \E t : Fit(t)' /\ task' = [task EXCEPT ![w] = t]
    <3>1. PICK w \in Worker : \E t : Fit(t)' /\ task' = [task EXCEPT ![w] = t]
      BY <2>2
    <3>2. PICK t : Fit(t)' /\ task' = [task EXCEPT ![w] = t]
      BY <3>1
    <3> QED BY <1>1, <3>2, TasksKept
  <2> QED BY <2>1, <2>2
<1> QED BY <1>2, <1>3, <1>4 DEF Inv

(* A new invoice, with a worker that goes on to its checkout or without. *)
LEMMA CreateInvoiceStep ==
  ASSUME Inv, NEW w \in Worker, NEW i \in Invoice, CreateInvoice(w, i)
  PROVE  Inv'
<1> DEFINE t == [Idle EXCEPT !.at = "create", !.who = "api", !.i = i]
<1>1. /\ invoice[i] = "NONE" /\ invoice' = [invoice EXCEPT ![i] = "CREATED"]
      /\ task' = task \/ task' = [task EXCEPT ![w] = t]
      /\ provider' = provider /\ external' = external /\ clock' = clock /\ payment' = payment /\ checkout' = checkout
  BY DEF CreateInvoice, Begin
<1>2. Fit(t)'
  <2>1. t \in Task /\ t.at = "create" /\ t.seen = "NONE" /\ t.x = NoCheckout /\ t.i = i
    BY DEF Idle, Task, Stage, ClockFace
  <2>2. invoice'[i] # "NONE"
    BY <1>1 DEF Inv, Shapes
  <2> QED BY <2>1, <2>2 DEF Fit, Remembers, Sees
<1>3. /\ invoice' \in [Invoice -> InvoiceStatus]
      /\ \A j \in Invoice : invoice'[j] # invoice[j] =>
           invoice[j] \in {"NONE", "CREATED"} /\ invoice'[j] \notin {"NONE", "PAID"}
  BY <1>1 DEF Inv, Shapes, InvoiceStatus
<1> QED BY <1>1, <1>2, <1>3, InvoiceMoves

(* An invoice is closed by the clock or by its merchant. *)
LEMMA CloseStep ==
  ASSUME Inv, ExpireStaleInvoices \/ \E i \in Invoice : CancelInvoice(i)
  PROVE  Inv'
<1>1. /\ invoice' \in [Invoice -> InvoiceStatus]
      /\ \A j \in Invoice : invoice'[j] # invoice[j] =>
           invoice[j] \in {"NONE", "CREATED"} /\ invoice'[j] \notin {"NONE", "PAID"}
  BY DEF ExpireStaleInvoices, Stale, CancelInvoice, Inv, Shapes, InvoiceStatus
<1>2. provider' = provider /\ external' = external /\ clock' = clock /\ payment' = payment /\ checkout' = checkout
      /\ task' = task
  BY DEF ExpireStaleInvoices, CancelInvoice
<1> QED BY <1>1, <1>2, InvoiceMoves

(* The sweep closes an invoice that is still CREATED. *)
LEMMA PollExpireStep ==
  ASSUME Inv, NEW w \in Worker, PollExpire(w)
  PROVE  Inv'
<1>1. task[w].i \in Invoice
  BY DEF PollExpire, Inv, Fit, Remembers
<1>2. /\ invoice' \in [Invoice -> InvoiceStatus]
      /\ \A j \in Invoice : invoice'[j] # invoice[j] =>
           invoice[j] \in {"NONE", "CREATED"} /\ invoice'[j] \notin {"NONE", "PAID"}
  BY <1>1 DEF PollExpire, Inv, Shapes, InvoiceStatus
<1>3. provider' = provider /\ external' = external /\ clock' = clock /\ payment' = payment /\ checkout' = checkout
      /\ task' = [task EXCEPT ![w] = Idle]
  BY DEF PollExpire, Done
<1>4. Fit(Idle)'
  BY IdleFits DEF Fit, Remembers, Sees, Idle
<1> QED BY <1>2, <1>3, <1>4, InvoiceMoves

-----------------------------------------------------------------------------
(* Steps that change what the provider, or the invoice's row, knows of a   *)
(* checkout.                                                               *)
LEMMA CheckoutMoves ==
  ASSUME Inv, Onward, invoice' = invoice, clock' = clock, payment' = payment,
         external' \in [Invoice -> Checkout \cup {NoCheckout}],
         checkout' \in [Checkout -> Deal], Known',
         task' = task \/ \E w \in Worker : \E t : Fit(t)' /\ task' = [task EXCEPT ![w] = t]
  PROVE  Inv'
<1>1. Shapes' /\ Kept
  BY DEF Inv, Shapes, Onward, Kept
<1>2. CreditedOnce' /\ CreditIsEarned'
  BY <1>1, CreditsKept
<1>3. \A w \in Worker : Fit(task[w])'
  <2>1. CASE task' = task
    <3>1. Fit(Idle)'
      BY IdleFits, MemoryKept
    <3> QED BY <2>1, <3>1, TasksKept
  <2>2. CASE \E w \in Worker : \E t : Fit(t)' /\ task' = [task EXCEPT ![w] = t]
    <3>1. PICK w \in Worker : \E t : Fit(t)' /\ task' = [task EXCEPT ![w] = t]
      BY <2>2
    <3>2. PICK t : Fit(t)' /\ task' = [task EXCEPT ![w] = t]
      BY <3>1
    <3> QED BY <3>2, TasksKept
  <2> QED BY <2>1, <2>2
<1> QED BY <1>1, <1>2, <1>3 DEF Inv

(* The provider closes a checkout nobody paid. *)
LEMMA CloseCheckoutStep ==
  ASSUME Inv, NEW x \in Checkout, ProviderCloses(x)
  PROVE  Inv'
<1> DEFINE c == [checkout[x] EXCEPT !.st = "failed"]
<1>1. checkout[x].st = "open" /\ checkout[x] \in Deal
  BY DEF ProviderCloses, Inv, Shapes
<1>2. c \in Deal /\ c.inv = checkout[x].inv /\ c.st = "failed"
  BY <1>1 DEF Deal
<1>3. /\ checkout' = [checkout EXCEPT ![x] = c]
      /\ invoice' = invoice /\ provider' = provider /\ clock' = clock /\ payment' = payment
      /\ external' = external /\ task' = task
  BY DEF ProviderCloses
<1> HIDE DEF c
<1>4. Onward
  BY <1>1, <1>2, <1>3 DEF Onward, Kept, Inv, Shapes
<1>5. checkout' \in [Checkout -> Deal] /\ external' \in [Invoice -> Checkout \cup {NoCheckout}]
  BY <1>2, <1>3 DEF Inv, Shapes
<1>6. Known'
  BY <1>1, <1>2, <1>3, NoValueAssumption DEF NoValueAssumption, Inv, Known, Shapes
<1> QED BY <1>3, <1>4, <1>5, <1>6, CheckoutMoves

(* The customer pays.  What is paid late counts as in time for just those  *)
(* sweeps that will date it so.                                            *)
LEMMA CustomerStep ==
  ASSUME Inv, NEW x \in Checkout, NEW exact \in BOOLEAN, CustomerPays(x, exact)
  PROVE  Inv'
<1>1. PICK i : i = checkout[x].inv
  OBVIOUS
<1>2. checkout[x].st = "open" /\ i \in Invoice /\ checkout[x] \in Deal
  BY <1>1 DEF CustomerPays, Inv, Known, Shapes, Deal
<1> DEFINE ontime == clock[i] = "open"
<1> DEFINE swept == clock[i] # "open" /\ Swept(i)
<1> DEFINE c == [checkout[x] EXCEPT !.st = "paid", !.exact = exact, !.ontime = ontime, !.swept = swept]
<1>3. swept \in BOOLEAN
  BY DEF Swept
<1>4. /\ c \in Deal /\ c.inv = i /\ c.st = "paid" /\ (c.ontime <=> ontime)
      /\ c.swept <=> swept
  BY <1>1, <1>2, <1>3 DEF Deal
<1>5. /\ checkout' = [checkout EXCEPT ![x] = c]
      /\ invoice' = invoice /\ provider' = provider /\ clock' = clock /\ payment' = payment
      /\ external' = external /\ task' = task
  BY <1>1 DEF CustomerPays
<1> HIDE DEF c
<1>6. checkout' \in [Checkout -> Deal] /\ \A y \in Checkout : y # x => checkout'[y] = checkout[y]
  BY <1>4, <1>5 DEF Inv, Shapes
<1>7. checkout'[x] = c
  BY <1>5 DEF Inv, Shapes
<1>8. Kept
  BY <1>1, <1>2, <1>4, <1>5, <1>6, <1>7 DEF Kept
<1>9. Shapes' /\ Known'
  BY <1>1, <1>2, <1>4, <1>5, <1>6, <1>7, NoValueAssumption DEF NoValueAssumption, Inv, Known, Shapes
<1>10. CreditedOnce' /\ CreditIsEarned'
  BY <1>5, <1>8, CreditsKept
<1>11. ASSUME NEW w \in Worker PROVE Fit(task[w])'
  <2>1. PICK t : t = task[w]
    OBVIOUS
  <2>2. Fit(t) /\ t = task'[w]
    BY <1>5, <2>1 DEF Inv
  <2>3. Remembers(t)'
    BY <1>8, <2>2, MemoryStays
  <2>4. Sees(t)'
    <3> SUFFICES ASSUME t.at \in {"select", "ask"}, t.now = "open", provider[t.i] = "VIP",
                        ~ReportsPaidAt, NEW y \in Checkout, checkout'[y].inv = t.i,
                        checkout'[y].st = "paid"
                 PROVE  InTime(y)'
      BY <1>5 DEF Sees
    <3>1. CASE y # x
      BY <1>6, <2>2, <3>1 DEF Fit, Sees, InTime
    <3>2. CASE y = x
      <4>1. t.i = i
        BY <1>4, <1>7, <3>2
      <4>2. Swept(i)
        BY <2>1, <4>1 DEF Swept
      <4> QED BY <1>4, <1>7, <3>2, <4>2 DEF InTime
    <3> QED BY <3>1, <3>2
  <2> QED BY <2>2, <2>3, <2>4 DEF Fit
<1> QED BY <1>9, <1>10, <1>11 DEF Inv

(* The provider names a checkout of the invoice, an old one or a fresh.    *)
LEMMA ProviderCreateStep ==
  ASSUME Inv, NEW w \in Worker, ProviderCreate(w)
  PROVE  Inv'
<1>1. PICK t : t = task[w]
  OBVIOUS
<1>2. Fit(t) /\ t.at = "create" /\ t.i \in Invoice /\ invoice[t.i] # "NONE"
  BY <1>1 DEF ProviderCreate, Inv, Fit, Remembers
<1>3. invoice' = invoice /\ clock' = clock /\ payment' = payment /\ external' = external /\ provider' = provider
  BY DEF ProviderCreate
<1> DEFINE made == [NotIssued EXCEPT !.inv = t.i, !.st = "open"]
<1>4. \/ checkout' = checkout
      \/ \E x \in Checkout : checkout[x].inv = NoInvoice /\ checkout' = [checkout EXCEPT ![x] = made]
  BY <1>1 DEF ProviderCreate
<1>5. made \in Deal /\ made.inv = t.i /\ made.st = "open"
  BY <1>2 DEF NotIssued, Deal
<1>6. checkout' \in [Checkout -> Deal]
  BY <1>4, <1>5 DEF Inv, Shapes
<1>7. Onward
  <2>1. \A x \in Checkout : checkout'[x] = checkout[x] \/ (checkout[x].inv = NoInvoice /\ checkout'[x] = made)
    BY <1>4 DEF Inv, Shapes
  <2>2. \A x \in Checkout : checkout[x].inv = NoInvoice => checkout[x].st = "none"
    BY DEF Inv, Known
  <2> QED BY <1>3, <1>5, <2>1, <2>2 DEF Onward, Kept
<1>8. Known'
  <2>1. CASE checkout' = checkout
    BY <1>3, <2>1 DEF Inv, Known
  <2>2. CASE \E x \in Checkout : checkout[x].inv = NoInvoice /\ checkout' = [checkout EXCEPT ![x] = made]
    <3>1. PICK x \in Checkout : checkout[x].inv = NoInvoice /\ checkout' = [checkout EXCEPT ![x] = made]
      BY <2>2
    <3>2. /\ checkout'[x].inv = t.i /\ checkout'[x].st = "open"
          /\ \A y \in Checkout \ {x} : checkout'[y] = checkout[y]
      BY <1>5, <3>1 DEF Inv, Shapes
    <3>3. \A i \in Invoice : external[i] # NoCheckout => external[i] \in Checkout \ {x}
      BY <3>1, NoValueAssumption DEF NoValueAssumption, Inv, Known, Shapes
    <3> QED BY <1>2, <1>3, <3>2, <3>3, NoValueAssumption DEF NoValueAssumption, Inv, Known
  <2> QED BY <1>4, <2>1, <2>2
<1>9. \/ task' = [task EXCEPT ![w] = [t EXCEPT !.at = "createfail"]]
      \/ \E x \in Checkout : /\ checkout'[x].inv = t.i
                           /\ task' = [task EXCEPT ![w] = [t EXCEPT !.at = "attach", !.x = x]]
  <2>1. \A x \in Checkout : checkout' = [checkout EXCEPT ![x] = made] => checkout'[x].inv = t.i
    BY <1>5 DEF Inv, Shapes
  <2> QED BY <1>1, <2>1 DEF ProviderCreate, Goto
<1>10. Fit(t)'
  BY <1>2, <1>7, MemoryKept
<1>11. CASE task' = [task EXCEPT ![w] = [t EXCEPT !.at = "createfail"]]
  <2>1. Fit([t EXCEPT !.at = "createfail"])'
    BY <1>2, <1>10 DEF Fit, Remembers, Sees, Bound, Task, Stage
  <2> QED BY <1>3, <1>6, <1>7, <1>8, <1>11, <2>1, CheckoutMoves DEF Inv, Shapes
<1>12. ASSUME NEW x \in Checkout, checkout'[x].inv = t.i,
              task' = [task EXCEPT ![w] = [t EXCEPT !.at = "attach", !.x = x]]
       PROVE  Inv'
  <2>1. t.seen = "NONE"
    BY <1>2 DEF Fit
  <2>2. Fit([t EXCEPT !.at = "attach", !.x = x])'
    BY <1>2, <1>3, <1>12, <2>1, NoValueAssumption
       DEF NoValueAssumption, Fit, Remembers, Sees, Bound, Task, Stage
  <2> QED BY <1>3, <1>6, <1>7, <1>8, <1>12, <2>2, CheckoutMoves DEF Inv, Shapes
<1> QED BY <1>9, <1>11, <1>12

(* The row takes the checkout the worker was given for this invoice. *)
LEMMA AttachStep ==
  ASSUME Inv, NEW w \in Worker, AttachCheckout(w)
  PROVE  Inv'
<1>1. PICK t : t = task[w]
  OBVIOUS
<1>2. t.i \in Invoice /\ t.x \in Checkout /\ checkout[t.x].inv = t.i
  BY <1>1, NoValueAssumption DEF NoValueAssumption, AttachCheckout, Inv, Fit, Remembers, Bound, Task
<1>3. /\ invoice' = invoice /\ clock' = clock /\ payment' = payment
      /\ external' = [external EXCEPT ![t.i] = t.x] /\ provider' = provider
      /\ checkout' = [checkout EXCEPT ![t.x].link = TRUE]
      /\ task' = [task EXCEPT ![w] = Idle]
  BY <1>1 DEF AttachCheckout, Attach, Done
<1>4. /\ checkout' \in [Checkout -> Deal]
      /\ \A x \in Checkout : /\ checkout'[x].inv = checkout[x].inv /\ checkout'[x].st = checkout[x].st
                            /\ checkout'[x].ontime = checkout[x].ontime
                            /\ checkout'[x].swept = checkout[x].swept
                            /\ checkout'[x].exact = checkout[x].exact
  <2>1. checkout \in [Checkout -> Deal]
    BY DEF Inv, Shapes
  <2> DEFINE linked == [checkout[t.x] EXCEPT !.link = TRUE]
  <2>2. checkout' = [checkout EXCEPT ![t.x] = linked]
    BY <1>3
  <2>3. /\ linked \in Deal
        /\ linked.inv = checkout[t.x].inv /\ linked.st = checkout[t.x].st
        /\ linked.ontime = checkout[t.x].ontime /\ linked.swept = checkout[t.x].swept
        /\ linked.exact = checkout[t.x].exact
    BY <1>2, <2>1 DEF Deal
  <2> HIDE DEF linked
  <2> QED BY <1>2, <2>1, <2>2, <2>3
<1>5. Onward
  BY <1>3, <1>4 DEF Onward, Kept
<1>6. external' \in [Invoice -> Checkout \cup {NoCheckout}]
  BY <1>2, <1>3 DEF Inv, Shapes
<1>7. Known'
  BY <1>2, <1>3, <1>4 DEF Inv, Known, Shapes
<1>8. Fit(Idle)'
  BY IdleFits DEF Fit, Remembers, Sees, Idle
<1> QED BY <1>3, <1>4, <1>5, <1>6, <1>7, <1>8, CheckoutMoves

(* A failed creation, and the end of a callback, change no row. *)
LEMMA EndStep ==
  ASSUME Inv, NEW w \in Worker, CreateFails(w) \/ MarkProcessed(w) \/ Crash(w)
  PROVE  Inv'
<1>1. RowsKept /\ clock' = clock /\ Done(w)
  BY DEF CreateFails, MarkProcessed, Crash, RowsKept
<1> QED BY <1>1, DoneStep

-----------------------------------------------------------------------------
(* A payment is recorded, or a VERIFIED one released, without a credit. *)
LEMMA PaymentMoves ==
  ASSUME Inv, NEW x \in Checkout, checkout[x].inv # NoInvoice, NEW st \in PaymentStatus,
         payment' = [payment EXCEPT ![x] = st],
         st \in {"VERIFIED", "RELEASED"} <=> Credited(x),
         invoice' = invoice, provider' = provider, external' = external, clock' = clock, checkout' = checkout,
         task' = task \/ \E w \in Worker : \E t : Fit(t) /\ task' = [task EXCEPT ![w] = t]
  PROVE  Inv'
<1>1. Onward
  BY DEF Onward, Kept
<1>2. Shapes' /\ Known'
  BY DEF Inv, Shapes, Known
<1>3. \A y \in Checkout : Credited(y)' <=> Credited(y)
  BY DEF Inv, Shapes, Credited
<1>4. CreditedOnce' /\ CreditIsEarned'
  BY <1>3 DEF Inv, CreditedOnce, CreditIsEarned, PaymentsOf, InTime
<1>5. \A w \in Worker : Fit(task[w])'
  <2>1. CASE task' = task
    BY <2>1 DEF Inv, Fit, Remembers, Sees, Bound, InTime
  <2>2. CASE \E w \in Worker : \E t : Fit(t) /\ task' = [task EXCEPT ![w] = t]
    <3>1. PICK w \in Worker : \E t : Fit(t) /\ task' = [task EXCEPT ![w] = t]
      BY <2>2
    <3>2. PICK t : Fit(t) /\ task' = [task EXCEPT ![w] = t]
      BY <3>1
    <3>3. Fit(t)'
      BY <1>1, <3>2, MemoryKept
    <3> QED BY <1>1, <3>2, <3>3, TasksKept
  <2> QED BY <2>1, <2>2
<1> QED BY <1>2, <1>4, <1>5 DEF Inv

(* A worker that finalizes has a checkout that was issued, and what it was *)
(* told of it is true.                                                     *)
LEMMA FinalizingKnows ==
  ASSUME Inv, NEW w \in Worker, Finalizing(w)
  PROVE  /\ task[w].x \in Checkout /\ task[w].i \in Invoice
         /\ checkout[task[w].x].inv # NoInvoice
         /\ task[w].seen = "PAID" =>
              /\ checkout[task[w].x].st = "paid"
              /\ Bound(task[w]) => task[w].late \/ InTime(task[w].x)
BY NoValueAssumption DEF NoValueAssumption, Finalizing, Inv, Fit, Remembers, Task

(* What cannot be credited is recorded as FAILED, UNKNOWN or MISMATCH. *)
LEMMA RecordStep ==
  ASSUME Inv, NEW w \in Worker, FinalizeInconclusive(w) \/ FinalizeMismatch(w)
  PROVE  Inv'
<1>1. Finalizing(w) /\ payment[task[w].x] = "NONE"
  BY DEF FinalizeInconclusive, FinalizeMismatch
<1>2. PICK st \in {"FAILED", "UNKNOWN", "MISMATCH"} : Record(w, task[w].x, st)
  BY DEF FinalizeInconclusive, FinalizeMismatch
<1>3. task[w].x \in Checkout /\ checkout[task[w].x].inv # NoInvoice
  BY <1>1, FinalizingKnows
<1>4. \E t : Fit(t) /\ task' = [task EXCEPT ![w] = t]
  BY <1>1, <1>2, FinishedFits DEF Record
<1>5. ~Credited(task[w].x) /\ st \in PaymentStatus
  BY <1>1 DEF Credited, PaymentStatus
<1> QED BY <1>2, <1>3, <1>4, <1>5, PaymentMoves DEF Record

(* A VERIFIED payment is released. *)
LEMMA ReleaseStep ==
  ASSUME Inv, NEW x \in Checkout, ReleaseOne(x)
  PROVE  Inv'
<1>1. payment[x] = "VERIFIED" /\ payment' = [payment EXCEPT ![x] = "RELEASED"]
  BY DEF ReleaseOne, Releasable
<1>2. checkout[x].inv # NoInvoice /\ Credited(x) /\ "RELEASED" \in PaymentStatus
  BY <1>1 DEF Inv, Known, Credited, PaymentStatus
<1> QED BY <1>1, <1>2, PaymentMoves DEF ReleaseOne

(* The one step that makes a credit: on a CREATED invoice without one, on  *)
(* a payment in full that counts as made in time.                          *)
LEMMA CreditStep ==
  ASSUME Inv, NEW w \in Worker, FinalizeCredit(w)
  PROVE  Inv'
<1>1. PICK t : t = task[w]
  OBVIOUS
<1>2. /\ t.x \in Checkout /\ t.i \in Invoice /\ checkout[t.x].inv = t.i
      /\ checkout[t.x].st = "paid" /\ InTime(t.x) /\ checkout[t.x].exact
  BY <1>1, FinalizingKnows DEF FinalizeCredit, Matches, Bound
<1>3. /\ payment' = [payment EXCEPT ![t.x] = "VERIFIED"]
      /\ invoice' = [invoice EXCEPT ![t.i] = "PAID"]
      /\ provider' = provider /\ external' = external /\ clock' = clock /\ checkout' = checkout
  BY <1>1 DEF FinalizeCredit
<1>4. Onward
  BY <1>3 DEF Onward, Kept, Inv, Shapes
<1>5. Shapes' /\ Known'
  <2>1. \E u : Fit(u) /\ task' = [task EXCEPT ![w] = u]
    BY FinishedFits DEF FinalizeCredit
  <2> QED BY <1>2, <1>3, <2>1, NoValueAssumption
          DEF NoValueAssumption, Inv, Shapes, Known, InvoiceStatus, PaymentStatus
<1>6. \A y \in Checkout : Credited(y)' <=> Credited(y) \/ y = t.x
  BY <1>2, <1>3 DEF Inv, Shapes, Credited
<1>7. \A y \in PaymentsOf(t.i) : ~Credited(y)
  BY <1>1 DEF FinalizeCredit, Payable, PaymentsOf
<1>8. CreditedOnce'
  <2> SUFFICES ASSUME NEW i \in Invoice
               PROVE  /\ \A x, y \in PaymentsOf(i) : Credited(x)' /\ Credited(y)' => x = y
                      /\ invoice'[i] = "PAID" <=> \E x \in PaymentsOf(i) : Credited(x)'
    BY <1>3 DEF CreditedOnce, PaymentsOf
  <2>1. CASE i = t.i
    BY <1>2, <1>3, <1>6, <1>7, <2>1 DEF PaymentsOf, Inv, Shapes
  <2>2. CASE i # t.i
    BY <1>2, <1>3, <1>6, <2>2 DEF PaymentsOf, Inv, Shapes, CreditedOnce
  <2> QED BY <2>1, <2>2
<1>9. CreditIsEarned'
  BY <1>2, <1>3, <1>6 DEF Inv, CreditIsEarned, InTime
<1>10. \A v \in Worker : Fit(task[v])'
  <2>1. PICK u : Fit(u) /\ task' = [task EXCEPT ![w] = u]
    BY FinishedFits DEF FinalizeCredit
  <2>2. Fit(u)'
    BY <1>4, <2>1, MemoryKept
  <2> QED BY <1>4, <2>1, <2>2, TasksKept
<1> QED BY <1>5, <1>8, <1>9, <1>10 DEF Inv

-----------------------------------------------------------------------------
(* The invariant holds in the initial state and is kept by every step. *)
LEMMA InvInit == Init => Inv
<1> SUFFICES ASSUME Init PROVE Inv
  OBVIOUS
<1>1. Shapes
  BY EnvironmentAssumption
     DEF EnvironmentAssumption, Init, Shapes, InvoiceStatus, PaymentStatus, Deal, NotIssued, ClockFace
<1>2. Known
  BY NoValueAssumption DEF NoValueAssumption, Init, Known, NotIssued
<1>3. \A w \in Worker : Fit(task[w])
  BY IdleFits DEF Init
<1>4. \A x \in Checkout : ~Credited(x)
  BY DEF Init, Credited
<1>5. CreditedOnce /\ CreditIsEarned
  BY <1>4 DEF Init, CreditedOnce, CreditIsEarned, PaymentsOf
<1> QED BY <1>1, <1>2, <1>3, <1>5 DEF Inv

LEMMA InvNext == Inv /\ [Next]_vars => Inv'
<1> SUFFICES ASSUME Inv, [Next]_vars PROVE Inv'
  OBVIOUS
<1>1. ASSUME NEW w \in Worker, BeginTask(w) PROVE Inv'
  BY <1>1, CreateInvoiceStep, RecoverStep, SweepStep, CallbackStep DEF BeginTask
<1>2. ASSUME NEW w \in Worker, TaskStep(w) PROVE Inv'
  BY <1>2, ProviderCreateStep, AttachStep, EndStep, CallbackVerifyStep, PollSelectStep,
     PollVerifyStep, PollExpireStep,
     FinalizeNothingStep, RecordStep, CreditStep DEF TaskStep, Finalize
<1>3. CASE ExpireStaleInvoices \/ \E i \in Invoice : CancelInvoice(i)
  BY <1>3, CloseStep
<1>4. CASE \E x \in Checkout : ReleaseOne(x)
  BY <1>4, ReleaseStep
<1>5. CASE CaseStep
  BY <1>5, AsideStep
<1>6. CASE WorldStep
  BY <1>6, AsideStep, CustomerStep, CloseCheckoutStep, EndStep DEF WorldStep
<1>7. CASE UNCHANGED vars
  <2>1. RowsKept /\ clock' = clock /\ task' = task
    BY <1>7 DEF vars, RowsKept
  <2> QED BY <2>1, RowsKeptStep DEF Inv, Shapes
<1> QED BY <1>1, <1>2, <1>3, <1>4, <1>5, <1>6, <1>7 DEF Next

(* Inv is an invariant of the specification. *)
THEOREM InvHolds == Spec => []Inv
BY InvInit, InvNext, PTL DEF Spec

(* An invoice is credited once, and PAID exactly when it is credited,      *)
(* however callbacks, their retries, sweeps and checkouts overlap.         *)
THEOREM CreditedOnceHolds == Spec => []CreditedOnce
<1>1. Inv => CreditedOnce
  BY DEF Inv
<1> QED BY <1>1, InvHolds, PTL

(* No credit without the provider's money, in full, and in time or within  *)
(* a sweep that began in time, however long a worker waited between the    *)
(* answer and the transaction.                                             *)
THEOREM CreditIsEarnedHolds == Spec => []CreditIsEarned
<1>1. Inv => CreditIsEarned
  BY DEF Inv
<1> QED BY <1>1, InvHolds, PTL

(* What a worker acts on is still true when it acts. *)
THEOREM WorkersRememberHolds == Spec => []WorkersRemember
<1>1. Inv => WorkersRemember
  BY DEF Inv, Fit, WorkersRemember
<1> QED BY <1>1, InvHolds, PTL

-----------------------------------------------------------------------------
(***************************************************************************)
(* Disputes.  Where nobody lifts a hold by hand, a live dispute keeps its  *)
(* hold because it is the only live one of its payment: the resolution of  *)
(* another would lift the hold of both.                                    *)
(***************************************************************************)
Paused ==
  /\ hold \in [Checkout -> SUBSET Source]
  /\ dispute \in [Dispute -> Case]
  /\ \A d \in Dispute : LiveDispute(d) =>
       dispute[d].x \in Checkout /\ "DISPUTE" \in hold[dispute[d].x]
  /\ \A d, e \in Dispute : LiveDispute(d) /\ LiveDispute(e) /\ dispute[d].x = dispute[e].x => d = e

(* Every step keeps the pause of every live dispute. *)
LEMMA PausedNext ==
  ASSUME ~MayLift, Paused, [Next]_vars
  PROVE  Paused'
<1>1. ASSUME NEW d \in Dispute, NEW x \in Checkout, OpenDispute(d, x) PROVE Paused'
  BY <1>1 DEF OpenDispute, Paused, LiveDispute, Case, Source
<1>2. ASSUME NEW d \in Dispute, NEW res \in Resolution, ResolveDispute(d, res) PROVE Paused'
  BY <1>2, ZenonT(40) DEF ResolveDispute, Paused, LiveDispute, Case, Source
<1>3. ASSUME NEW w \in Worker, FinalizeCredit(w) PROVE Paused'
  <2>1. dispute' = dispute
    BY <1>3 DEF FinalizeCredit
  <2>2. PICK risk \in SUBSET {"RISK"} : hold' = [hold EXCEPT ![task[w].x] = @ \cup risk]
    BY <1>3 DEF FinalizeCredit
  <2>3. \A x \in Checkout : hold'[x] = hold[x] \/ hold'[x] = hold[x] \cup risk
    BY <2>2 DEF Paused
  <2>4. \A x \in Checkout : hold'[x] \in SUBSET Source
    <3>1. \A x \in Checkout : hold[x] \in SUBSET Source
      BY DEF Paused
    <3>2. risk \subseteq Source
      BY DEF Source
    <3> QED BY <2>3, <3>1, <3>2
  <2>5. hold' \in [Checkout -> SUBSET Source]
    BY <2>2, <2>4 DEF Paused
  <2> QED BY <2>1, <2>3, <2>5 DEF Paused, LiveDispute
<1>4. CASE hold' = hold /\ dispute' = dispute
  BY <1>4 DEF Paused, LiveDispute
<1>5. \/ hold' = hold /\ dispute' = dispute
      \/ \E w \in Worker : FinalizeCredit(w)
      \/ CaseStep
  BY ZenonT(40) DEF Next, BeginTask, TaskStep, Finalize, WorldStep, vars, CreateInvoice,
         RecoverUncreated, SweepBegins, PollSelect, PollVerify,
         Callback, ProviderCreate, AttachCheckout, CreateFails, CallbackVerify, MarkProcessed, PollExpire,
         FinalizeReplay, FinalizeInconclusive, FinalizeMismatch, FinalizeRefuse, Record, ExpireStaleInvoices,
         CancelInvoice, ReleaseOne, CustomerPays, ProviderCloses, ClockPasses, DayPasses, HoldPasses, Crash
<1>6. CaseStep => \/ \E d \in Dispute : \E x \in Checkout : OpenDispute(d, x)
                  \/ \E d \in Dispute : \E res \in Resolution : ResolveDispute(d, res)
                  \/ hold' = hold /\ dispute' = dispute
  BY DEF CaseStep, ReleaseHold, ChangeStanding, ToggleFreeze
<1> QED BY <1>1, <1>2, <1>3, <1>4, <1>5, <1>6

(* While a dispute is live its payment stays VERIFIED. *)
LEMMA PausedStays ==
  ASSUME ~MayLift, Inv, Paused, [Next]_vars, NEW d \in Dispute, LiveDispute(d),
         payment[dispute[d].x] = "VERIFIED"
  PROVE  payment'[dispute[d].x] = "VERIFIED"
<1> DEFINE x == dispute[d].x
<1>1. x \in Checkout /\ hold[x] # {}
  BY DEF Paused
<1>2. \/ payment' = payment
      \/ \E y \in Checkout : ReleaseOne(y)
      \/ \E w \in Worker, st \in PaymentStatus :
           payment[task[w].x] = "NONE" /\ payment' = [payment EXCEPT ![task[w].x] = st]
  BY ZenonT(40) DEF Next, BeginTask, TaskStep, Finalize, WorldStep, CaseStep, vars, CreateInvoice,
         RecoverUncreated, SweepBegins, PollSelect, PollVerify,
         Callback, ProviderCreate, AttachCheckout, CreateFails, CallbackVerify, MarkProcessed, PollExpire,
         FinalizeReplay, FinalizeInconclusive, FinalizeMismatch, FinalizeRefuse, FinalizeCredit, Record,
         ExpireStaleInvoices, CancelInvoice, OpenDispute, ResolveDispute, ReleaseHold, ChangeStanding, ToggleFreeze,
         CustomerPays, ProviderCloses, ClockPasses, DayPasses, HoldPasses, Crash, PaymentStatus
<1>3. ASSUME NEW y \in Checkout, ReleaseOne(y) PROVE payment'[x] = "VERIFIED"
  BY <1>1, <1>3 DEF ReleaseOne, Unheld, Inv, Shapes
<1>4. ASSUME NEW w \in Worker, NEW st \in PaymentStatus, payment[task[w].x] = "NONE",
             payment' = [payment EXCEPT ![task[w].x] = st]
      PROVE  payment'[x] = "VERIFIED"
  BY <1>1, <1>4 DEF Inv, Shapes
<1> QED BY <1>2, <1>3, <1>4

(* The money of a disputed payment does not move on while the dispute is   *)
(* live, as long as nobody lifts a hold by hand.                           *)
THEOREM DisputedStaysHolds == ~MayLift => (Spec => DisputedStays)
<1> SUFFICES ASSUME ~MayLift PROVE Spec => DisputedStays
  OBVIOUS
<1>1. Init => Paused
  BY DEF Init, Paused, LiveDispute, NoDispute, Case, Source
<1>2. Paused /\ [Next]_vars => Paused'
  BY PausedNext
<1>3. Inv /\ Paused /\ [Next]_vars =>
        [\A d \in Dispute : LiveDispute(d) /\ payment[dispute[d].x] = "VERIFIED" =>
           payment'[dispute[d].x] = "VERIFIED"]_vars
  BY PausedStays
<1> QED BY <1>1, <1>2, <1>3, InvHolds, PTL DEF Spec, DisputedStays

-----------------------------------------------------------------------------
(***************************************************************************)
(* Accepting payments keeps the promise of CreditPromise.                  *)
(***************************************************************************)
(* The two functions the promise speaks about. *)
credit == [i \in Invoice |-> CreditOf(i)]
earned == {i \in Invoice : Earned(i)}

-----------------------------------------------------------------------------
(* A payment in a status that is no credit of its own makes no difference  *)
(* to what the merchant can say of an invoice.                             *)
LEMMA CreditUnchanged ==
  ASSUME Inv,
         \A x \in Checkout : payment'[x] # payment[x] =>
           payment[x] = "NONE" /\ payment'[x] \notin {"VERIFIED", "RELEASED"},
         \A x \in Checkout : checkout[x].inv # NoInvoice => checkout'[x].inv = checkout[x].inv
  PROVE  credit' = credit
<1>1. \A x \in Checkout, st \in {"VERIFIED", "RELEASED"} : payment'[x] = st <=> payment[x] = st
  OBVIOUS
<1>2. \A x \in Checkout, i \in Invoice :
        payment[x] \in {"VERIFIED", "RELEASED"} => (checkout'[x].inv = i <=> checkout[x].inv = i)
  BY DEF Inv, Known
<1>3. \A i \in Invoice : CreditOf(i)' = CreditOf(i)
  BY <1>1, <1>2 DEF CreditOf, PaymentsOf
<1> QED BY <1>3 DEF credit

(* A step that moves no Toman and no credit earns at most one invoice. *)
LEMMA QuietStep ==
  ASSUME Inv, pending' = pending, available' = available, credit' = credit,
         earned' = earned \/ \E i \in Invoice : earned' = earned \cup {i}
  PROVE  [Promise!Next]_(Promise!vars)
BY DEF Promise!Next, Promise!Earn, Promise!vars, credit, earned

(* What the provider knows of its checkouts stays as it is. *)
LEMMA EarnedUnchanged ==
  ASSUME checkout' = checkout
  PROVE  earned' = earned
BY DEF earned, Earned, PaymentsOf, InTime

(* Steps of the customer and the provider. *)
LEMMA CustomerMaps ==
  ASSUME Inv, NEW x \in Checkout, ProviderCloses(x) \/ \E exact \in BOOLEAN : CustomerPays(x, exact)
  PROVE  [Promise!Next]_(Promise!vars)
<1>1. /\ checkout[x].st = "open" /\ checkout[x].inv \in Invoice
      /\ pending' = pending /\ available' = available /\ payment' = payment
  BY DEF ProviderCloses, CustomerPays, Inv, Known, Shapes, Deal
<1>2. /\ \A y \in Checkout : checkout'[y].inv = checkout[y].inv
      /\ \A y \in Checkout \ {x} : checkout'[y] = checkout[y]
  <2>1. CASE ProviderCloses(x)
    BY <2>1 DEF ProviderCloses, Inv, Shapes, Deal
  <2>2. CASE \E exact \in BOOLEAN : CustomerPays(x, exact)
    <3>1. PICK exact \in BOOLEAN : CustomerPays(x, exact)
      BY <2>2
    <3> DEFINE i == checkout[x].inv
               ontime == clock[i] = "open"
               swept == clock[i] # "open" /\ Swept(i)
               c == [checkout[x] EXCEPT !.st = "paid", !.exact = exact, !.ontime = ontime,
                                        !.swept = swept]
    <3>2. c.inv = checkout[x].inv
      BY DEF Inv, Shapes, Deal
    <3>3. checkout' = [checkout EXCEPT ![x] = c]
      BY <3>1 DEF CustomerPays
    <3> HIDE DEF c
    <3> QED BY <3>2, <3>3 DEF Inv, Shapes
  <2> QED BY <2>1, <2>2
<1>3. credit' = credit
  BY <1>1, <1>2, CreditUnchanged
<1>4. \A i \in Invoice \ {checkout[x].inv} : Earned(i)' <=> Earned(i)
  BY <1>2 DEF Earned, PaymentsOf, InTime
<1>5. \A i \in Invoice : Earned(i) => Earned(i)'
  BY <1>1, <1>2 DEF Earned, PaymentsOf, InTime
<1>6. earned' = earned \/ earned' = earned \cup {checkout[x].inv}
  BY <1>1, <1>4, <1>5 DEF earned
<1> QED BY <1>1, <1>3, <1>6, QuietStep

(* A fresh checkout is not paid. *)
LEMMA ProviderCreateMaps ==
  ASSUME Inv, NEW w \in Worker, ProviderCreate(w)
  PROVE  [Promise!Next]_(Promise!vars)
<1>1. pending' = pending /\ available' = available /\ payment' = payment
  BY DEF ProviderCreate
<1>2. \/ checkout' = checkout
      \/ \E x \in Checkout :
           /\ checkout[x].inv = NoInvoice
           /\ checkout' = [checkout EXCEPT ![x] = [NotIssued EXCEPT !.inv = task[w].i, !.st = "open"]]
  BY DEF ProviderCreate
<1>3. CASE checkout' = checkout
  BY <1>1, <1>3, EarnedUnchanged, CreditUnchanged, QuietStep
<1>4. ASSUME NEW x \in Checkout, checkout[x].inv = NoInvoice,
             checkout' = [checkout EXCEPT ![x] = [NotIssued EXCEPT !.inv = task[w].i, !.st = "open"]]
      PROVE  [Promise!Next]_(Promise!vars)
  <2>1. /\ checkout'[x].st = "open" /\ checkout[x].st = "none"
        /\ \A y \in Checkout \ {x} : checkout'[y] = checkout[y]
    BY <1>4 DEF NotIssued, Inv, Known, Shapes
  <2>2. credit' = credit
    BY <1>1, <1>4, <2>1, CreditUnchanged
  <2>3. earned' = earned
    <3>1. \A i \in Invoice : Earned(i)' <=> Earned(i)
      BY <2>1 DEF Earned, PaymentsOf, InTime
    <3> QED BY <3>1 DEF earned
  <2> QED BY <1>1, <2>2, <2>3, QuietStep
<1> QED BY <1>2, <1>3, <1>4

(* A link makes nothing paid. *)
LEMMA AttachMaps ==
  ASSUME Inv, NEW w \in Worker, AttachCheckout(w)
  PROVE  [Promise!Next]_(Promise!vars)
<1>1. /\ pending' = pending /\ available' = available /\ payment' = payment
      /\ checkout' = [checkout EXCEPT ![task[w].x].link = TRUE]
  BY DEF AttachCheckout
<1>2. \A y \in Checkout : /\ checkout'[y].inv = checkout[y].inv /\ checkout'[y].st = checkout[y].st
                          /\ checkout'[y].ontime = checkout[y].ontime
                          /\ checkout'[y].swept = checkout[y].swept
                          /\ checkout'[y].exact = checkout[y].exact
  BY <1>1 DEF Inv, Shapes, Deal
<1>3. earned' = earned
  BY <1>2 DEF earned, Earned, PaymentsOf, InTime
<1> QED BY <1>1, <1>2, <1>3, CreditUnchanged, QuietStep

(* Recording what is no credit. *)
LEMMA RecordMaps ==
  ASSUME Inv, NEW w \in Worker, FinalizeInconclusive(w) \/ FinalizeMismatch(w)
  PROVE  [Promise!Next]_(Promise!vars)
<1>1. PICK st \in {"FAILED", "UNKNOWN", "MISMATCH"} : Record(w, task[w].x, st)
  BY DEF FinalizeInconclusive, FinalizeMismatch
<1>2. payment[task[w].x] = "NONE" /\ payment' = [payment EXCEPT ![task[w].x] = st]
  BY <1>1 DEF Record, FinalizeInconclusive, FinalizeMismatch
<1>3. credit' = credit
  BY <1>1, <1>2, CreditUnchanged DEF Record, Inv, Shapes
<1> QED BY <1>1, <1>3, EarnedUnchanged, QuietStep DEF Record

(* The credit is the promise's credit. *)
LEMMA CreditMaps ==
  ASSUME Inv, NEW w \in Worker, FinalizeCredit(w)
  PROVE  [Promise!Next]_(Promise!vars)
<1>1. PICK t : t = task[w]
  OBVIOUS
<1>2. /\ t.x \in PaymentsOf(t.i) /\ t.i \in Invoice /\ t.x \in Checkout
      /\ checkout[t.x].st = "paid" /\ InTime(t.x) /\ checkout[t.x].exact
  BY <1>1, FinalizingKnows DEF FinalizeCredit, Matches, Bound, PaymentsOf
<1>3. /\ payment' = [payment EXCEPT ![t.x] = "VERIFIED"] /\ checkout' = checkout
      /\ pending' = [pending EXCEPT ![Owner[t.i]] = @ + Net[t.i]] /\ available' = available
  BY <1>1 DEF FinalizeCredit
<1>4. \A y \in PaymentsOf(t.i) : ~Credited(y)
  BY <1>1 DEF FinalizeCredit, Payable, PaymentsOf
<1>5. t.i \in earned /\ earned' = earned
  BY <1>2, <1>3, EarnedUnchanged DEF earned, Earned
<1>6. CreditOf(t.i) = "none" /\ CreditOf(t.i)' = "pending"
  BY <1>2, <1>3, <1>4 DEF CreditOf, Credited, PaymentsOf, Inv, Shapes
<1>7. \A i \in Invoice \ {t.i} : CreditOf(i)' = CreditOf(i)
  BY <1>2, <1>3 DEF CreditOf, PaymentsOf, Inv, Shapes
<1>8. credit' = [credit EXCEPT ![t.i] = "pending"]
  BY <1>2, <1>6, <1>7 DEF credit
<1>9. Promise!Credit(t.i)
  BY <1>2, <1>3, <1>5, <1>6, <1>8 DEF Promise!Credit, credit, earned
<1> QED BY <1>2, <1>9 DEF Promise!Next

(* The release is the promise's release, of the same amount. *)
LEMMA ReleaseMaps ==
  ASSUME Inv, NEW x \in Checkout, ReleaseOne(x)
  PROVE  [Promise!Next]_(Promise!vars)
<1> DEFINE i == checkout[x].inv
<1>1. /\ payment[x] = "VERIFIED" /\ payment' = [payment EXCEPT ![x] = "RELEASED"]
      /\ checkout' = checkout
      /\ pending' = [pending EXCEPT ![Owner[i]] = @ - Net[i]]
      /\ available' = [available EXCEPT ![Owner[i]] = @ + Net[i]]
  BY DEF ReleaseOne, Releasable, AmountReleased
<1>2. i \in Invoice /\ x \in PaymentsOf(i)
  BY <1>1 DEF Inv, Known, Shapes, Deal, PaymentsOf
<1>3. \A y \in PaymentsOf(i) : payment[y] # "RELEASED"
  BY <1>1, <1>2 DEF Inv, CreditedOnce, Credited
<1>4. CreditOf(i) = "pending" /\ (CreditOf(i))' = "spendable"
  BY <1>1, <1>2, <1>3 DEF CreditOf, PaymentsOf, Inv, Shapes
<1>5. \A j \in Invoice \ {i} : CreditOf(j)' = CreditOf(j)
  BY <1>1, <1>2 DEF CreditOf, PaymentsOf, Inv, Shapes
<1>6. credit' = [credit EXCEPT ![i] = "spendable"]
  BY <1>1, <1>2, <1>4, <1>5 DEF credit
<1>7. Promise!Release(i)
  BY <1>1, <1>2, <1>4, <1>6, EarnedUnchanged DEF Promise!Release, credit, earned
<1> QED BY <1>2, <1>7 DEF Promise!Next

-----------------------------------------------------------------------------
(* Every step is a step of the promise, or none. *)
LEMMA StepMaps ==
  ASSUME Inv, [Next]_vars
  PROVE  [Promise!Next]_(Promise!vars)
<1>1. \/ pending' = pending /\ available' = available /\ payment' = payment /\ checkout' = checkout
      \/ \E x \in Checkout : ReleaseOne(x)
      \/ \E w \in Worker : \/ FinalizeInconclusive(w) \/ FinalizeMismatch(w) \/ FinalizeCredit(w)
                           \/ ProviderCreate(w) \/ AttachCheckout(w)
      \/ \E x \in Checkout : ProviderCloses(x) \/ \E exact \in BOOLEAN : CustomerPays(x, exact)
  BY ZenonT(40) DEF Next, BeginTask, TaskStep, Finalize, WorldStep, CaseStep, vars, CreateInvoice,
         RecoverUncreated, SweepBegins, PollSelect, PollVerify,
         Callback, CreateFails, CallbackVerify, MarkProcessed, PollExpire, FinalizeReplay, FinalizeRefuse,
         ExpireStaleInvoices, CancelInvoice, OpenDispute, ResolveDispute, ReleaseHold, ChangeStanding, ToggleFreeze,
         ClockPasses, DayPasses, HoldPasses, Crash
<1>2. CASE pending' = pending /\ available' = available /\ payment' = payment /\ checkout' = checkout
  BY <1>2, CreditUnchanged, EarnedUnchanged, QuietStep
<1> QED BY <1>1, <1>2, ReleaseMaps, RecordMaps, CreditMaps, ProviderCreateMaps, AttachMaps, CustomerMaps

(* The initial state is one of the promise. *)
LEMMA InitMaps == Init => Promise!Init
<1> SUFFICES ASSUME Init PROVE Promise!Init
  OBVIOUS
<1>1. \A i \in Invoice : CreditOf(i) = "none" /\ ~Earned(i)
  BY DEF Init, CreditOf, Earned, PaymentsOf, NotIssued
<1> QED BY <1>1 DEF Init, Promise!Init

(* Attempts, callbacks, sweeps, disputes and crashes together come to one  *)
(* credit of an earned invoice, and one release of the same amount.        *)
THEOREM KeepsCreditPromiseHolds == Spec => KeepsCreditPromise
<1>1. Inv /\ [Next]_vars => [Promise!Next]_(Promise!vars)
  BY StepMaps
<1> QED BY <1>1, InitMaps, InvHolds, PTL DEF Spec, KeepsCreditPromise, Promise!Spec

-----------------------------------------------------------------------------
(***************************************************************************)
(* The money.  A bucket is the sum over the payments that are in it, and   *)
(* only a credit and a release move a payment from one to the next.        *)
(***************************************************************************)
net == [x \in Checkout |-> Net[checkout[x].inv]]
held == [m \in Merchant |-> pending[m] + available[m]]
Bucket(m, st) == {x \in Checkout : payment[x] = st /\ Owner[checkout[x].inv] = m}

(* Each sum of the specification, as the function it is defined by. *)
NetAdds(ck, S, g) ==
  g = [s \in SUBSET S |-> IF s = {} THEN 0 ELSE Net[ck[Pick(s)].inv] + g[s \ {Pick(s)}]]

HeldAdds(p, a, g) ==
  g = [s \in SUBSET Merchant |->
        IF s = {} THEN 0 ELSE (p[Pick(s)] + a[Pick(s)]) + g[s \ {Pick(s)}]]

LEMMA NetIsSum ==
  ASSUME NEW ck, NEW S \in SUBSET Checkout, NEW f, \A x \in S : f[x] = Net[ck[x].inv]
  PROVE  (CHOOSE g : NetAdds(ck, S, g))[S] = SumFunctionOnSet(f, S)
<1>1. ASSUME NEW g PROVE NetAdds(ck, S, g) <=> Adds(f, S, g)
  <2>1. \A s \in SUBSET S : s # {} => Net[ck[Pick(s)].inv] = f[Pick(s)]
    BY PickIsIn
  <2> QED BY <2>1 DEF Adds, NetAdds
<1>2. (CHOOSE g : NetAdds(ck, S, g)) = CHOOSE g : Adds(f, S, g)
  BY <1>1
<1> QED BY <1>2, SumIsChosen

LEMMA HeldIsSum ==
  ASSUME NEW p, NEW a, NEW f, \A m \in Merchant : f[m] = p[m] + a[m]
  PROVE  (CHOOSE g : HeldAdds(p, a, g))[Merchant] = SumFunctionOnSet(f, Merchant)
<1>1. ASSUME NEW g PROVE HeldAdds(p, a, g) <=> Adds(f, Merchant, g)
  <2>1. \A s \in SUBSET Merchant : s # {} => p[Pick(s)] + a[Pick(s)] = f[Pick(s)]
    BY PickIsIn
  <2> QED BY <2>1 DEF Adds, HeldAdds
<1>2. (CHOOSE g : HeldAdds(p, a, g)) = CHOOSE g : Adds(f, Merchant, g)
  BY <1>1
<1> QED BY <1>2, SumIsChosen

(* The same, of the sums as they are easier to reason about. *)
Booked ==
  /\ \A m \in Merchant : /\ pending[m] = SumFunctionOnSet(net, Bucket(m, "VERIFIED"))
                         /\ available[m] = SumFunctionOnSet(net, Bucket(m, "RELEASED"))
  /\ books.clearing + books.expense = SumFunctionOnSet(held, Merchant) + books.revenue

LEMMA BookedIs == Booked <=> CreditsAreBooked
<1>1. CreditsAreBooked <=>
        /\ \A m \in Merchant : pending[m] = NetOf(m, "VERIFIED") /\ available[m] = NetOf(m, "RELEASED")
        /\ books.clearing + books.expense =
             (CHOOSE g : HeldAdds(pending, available, g))[Merchant] + books.revenue
  BY DEF CreditsAreBooked, MapThenSumSet, MapThenFoldSet, Pick, HeldAdds
<1>2. ASSUME NEW m, NEW st PROVE NetOf(m, st) = SumFunctionOnSet(net, Bucket(m, st))
  <2>1. NetOf(m, st) = (CHOOSE g : NetAdds(checkout, Bucket(m, st), g))[Bucket(m, st)]
    BY DEF NetOf, MapThenSumSet, MapThenFoldSet, Pick, Bucket, NetAdds
  <2>2. Bucket(m, st) \subseteq Checkout /\ \A x \in Bucket(m, st) : net[x] = Net[checkout[x].inv]
    BY DEF Bucket, net
  <2> QED BY <2>1, <2>2, NetIsSum
<1>3. (CHOOSE g : HeldAdds(pending, available, g))[Merchant] = SumFunctionOnSet(held, Merchant)
  BY HeldIsSum DEF held
<1> QED BY <1>1, <1>2, <1>3 DEF Booked

MoneyTypes ==
  /\ pending \in [Merchant -> Nat] /\ available \in [Merchant -> Nat]
  /\ books \in [clearing : Int, revenue : Nat, expense : Nat]

(* What is credited has an invoice, so a net amount and a merchant. *)
LEMMA NetIsNat ==
  ASSUME Inv, NEW x \in Checkout, payment[x] \in {"VERIFIED", "RELEASED"}
  PROVE  /\ checkout[x].inv \in Invoice /\ net[x] = Net[checkout[x].inv] /\ net[x] \in Nat
         /\ Owner[checkout[x].inv] \in Merchant
<1>1. checkout[x].inv \in Invoice
  BY DEF Inv, Known, Shapes, Deal
<1> QED BY <1>1, AmountAssumption, OwnerAssumption DEF AmountAssumption, OwnerAssumption, net

LEMMA BucketIsFinite == \A m, st : IsFiniteSet(Bucket(m, st))
<1> SUFFICES ASSUME NEW m, NEW st PROVE IsFiniteSet(Bucket(m, st))
  OBVIOUS
<1>1. Bucket(m, st) \subseteq Checkout
  BY DEF Bucket
<1> QED BY <1>1, FS_Subset, FiniteAssumption DEF FiniteAssumption

LEMMA BucketIsNat ==
  ASSUME Inv, NEW m, NEW st \in {"VERIFIED", "RELEASED"}
  PROVE  /\ \A x \in Bucket(m, st) : net[x] \in Nat
         /\ SumFunctionOnSet(net, Bucket(m, st)) \in Nat
<1>1. \A x \in Bucket(m, st) : net[x] \in Nat
  BY NetIsNat DEF Bucket
<1> QED BY <1>1, BucketIsFinite, SumIsNat

(* A step that neither credits nor releases leaves every sum as it is.     *)
LEMMA QuietBooks ==
  ASSUME Inv, Booked, pending' = pending, available' = available, books' = books,
         \A x \in Checkout : payment'[x] # payment[x] =>
           payment[x] = "NONE" /\ payment'[x] \notin {"VERIFIED", "RELEASED"},
         \A x \in Checkout : checkout[x].inv # NoInvoice => checkout'[x].inv = checkout[x].inv
  PROVE  Booked'
<1>1. \A x \in Checkout, st \in {"VERIFIED", "RELEASED"} : payment'[x] = st <=> payment[x] = st
  OBVIOUS
<1>2. \A x \in Checkout : payment[x] \in {"VERIFIED", "RELEASED"} => checkout'[x].inv = checkout[x].inv
  BY DEF Inv, Known
<1>3. ASSUME NEW m, NEW st \in {"VERIFIED", "RELEASED"}
      PROVE  SumFunctionOnSet(net', Bucket(m, st)') = SumFunctionOnSet(net, Bucket(m, st))
  <2>1. Bucket(m, st)' = Bucket(m, st)
    BY <1>1, <1>2 DEF Bucket
  <2>2. \A x \in Bucket(m, st) : net'[x] = net[x]
    BY <1>2 DEF net, Bucket
  <2> QED BY <2>1, <2>2, BucketIsFinite, SumSame
<1>4. held' = held
  BY DEF held
<1> QED BY <1>3, <1>4 DEF Booked

(* What both buckets of the merchants hold together changes as one of them *)
(* does.                                                                   *)
LEMMA HeldChanges ==
  ASSUME MoneyTypes, MoneyTypes', NEW m \in Merchant,
         \A n \in Merchant \ {m} : pending'[n] = pending[n] /\ available'[n] = available[n]
  PROVE  SumFunctionOnSet(held', Merchant)
           = SumFunctionOnSet(held, Merchant)
             + ((pending'[m] + available'[m]) - (pending[m] + available[m]))
<1>1. \A n \in Merchant : held[n] \in Int /\ held'[n] \in Int
  BY DEF held, MoneyTypes
<1>2. \A n \in Merchant \ {m} : held'[n] = held[n]
  BY DEF held
<1>3. SumFunctionOnSet(held', Merchant) = SumFunctionOnSet(held, Merchant) + (held'[m] - held[m])
  BY <1>1, <1>2, SumChange, FiniteAssumption DEF FiniteAssumption
<1> QED BY <1>3 DEF held

LEMMA HeldIsInt == MoneyTypes => SumFunctionOnSet(held, Merchant) \in Int
<1>1. MoneyTypes => \A n \in Merchant : held[n] \in Int
  BY DEF held, MoneyTypes
<1> QED BY <1>1, SumIsInt, FiniteAssumption DEF FiniteAssumption

LEMMA CreditBooks ==
  ASSUME Inv, Booked, MoneyTypes, NEW w \in Worker, FinalizeCredit(w)
  PROVE  Booked' /\ MoneyTypes'
<1>1. PICK t : t = task[w]
  OBVIOUS
<1>2. t.x \in Checkout /\ t.i \in Invoice /\ checkout[t.x].inv = t.i /\ payment[t.x] = "NONE"
  BY <1>1, FinalizingKnows DEF FinalizeCredit, Bound
<1>3. PICK x, i, m : x = t.x /\ i = t.i /\ m = Owner[t.i]
  OBVIOUS
<1>4. /\ x \in Checkout /\ i \in Invoice /\ m \in Merchant /\ Owner[i] = m
      /\ checkout[x].inv = i /\ payment[x] = "NONE"
      /\ Net[i] \in Nat /\ Total[i] \in Nat /\ Net[i] <= Total[i] /\ net[x] = Net[i]
  BY <1>2, <1>3, AmountAssumption, OwnerAssumption DEF AmountAssumption, OwnerAssumption, net
<1>5. PICK fee \in Nat :
      /\ payment' = [payment EXCEPT ![x] = "VERIFIED"] /\ checkout' = checkout
      /\ pending' = [pending EXCEPT ![m] = @ + Net[i]] /\ available' = available
      /\ books' = [clearing |-> books.clearing + Total[i] - fee,
                   revenue  |-> books.revenue + Total[i] - Net[i],
                   expense  |-> books.expense + fee]
  BY <1>1, <1>3, AmountAssumption DEF FinalizeCredit, AmountAssumption
<1>6. MoneyTypes'
  BY <1>4, <1>5 DEF MoneyTypes
<1>7. net' = net
  BY <1>5 DEF net
<1>8. ASSUME NEW n \in Merchant
      PROVE  pending'[n] = SumFunctionOnSet(net', Bucket(n, "VERIFIED")')
  <2>1. CASE n = m
    <3>1. Bucket(n, "VERIFIED")' = Bucket(n, "VERIFIED") \cup {x} /\ x \notin Bucket(n, "VERIFIED")
      BY <1>4, <1>5, <2>1 DEF Bucket, Inv, Shapes
    <3>2. \A y \in Bucket(n, "VERIFIED") \cup {x} : net[y] \in Int
      BY <1>4, BucketIsNat
    <3>3. SumFunctionOnSet(net, Bucket(n, "VERIFIED") \cup {x})
            = SumFunctionOnSet(net, Bucket(n, "VERIFIED")) + net[x]
      BY <3>1, <3>2, BucketIsFinite, SumAdd
    <3>4. pending'[n] = pending[n] + Net[i]
      BY <1>4, <1>5, <2>1 DEF MoneyTypes
    <3> QED BY <1>4, <1>7, <3>1, <3>3, <3>4 DEF Booked
  <2>2. CASE n # m
    <3>1. Bucket(n, "VERIFIED")' = Bucket(n, "VERIFIED")
      BY <1>4, <1>5, <2>2 DEF Bucket, Inv, Shapes
    <3>2. pending'[n] = pending[n]
      BY <1>5, <2>2 DEF MoneyTypes
    <3> QED BY <1>7, <3>1, <3>2 DEF Booked
  <2> QED BY <2>1, <2>2
<1>9. ASSUME NEW n \in Merchant
      PROVE  available'[n] = SumFunctionOnSet(net', Bucket(n, "RELEASED")')
  <2>1. Bucket(n, "RELEASED")' = Bucket(n, "RELEASED")
    BY <1>4, <1>5 DEF Bucket, Inv, Shapes
  <2> QED BY <1>5, <1>7, <2>1 DEF Booked
<1>10. books'.clearing + books'.expense = SumFunctionOnSet(held', Merchant) + books'.revenue
  <2>1. \A n \in Merchant \ {m} : pending'[n] = pending[n] /\ available'[n] = available[n]
    BY <1>5 DEF MoneyTypes
  <2>2. SumFunctionOnSet(held', Merchant)
          = SumFunctionOnSet(held, Merchant)
            + ((pending'[m] + available'[m]) - (pending[m] + available[m]))
    BY <1>4, <1>6, <2>1, HeldChanges
  <2>3. /\ pending'[m] = pending[m] + Net[i] /\ available'[m] = available[m]
        /\ pending[m] \in Nat /\ available[m] \in Nat
    BY <1>4, <1>5 DEF MoneyTypes
  <2>4. SumFunctionOnSet(held', Merchant) = SumFunctionOnSet(held, Merchant) + Net[i]
    BY <1>4, <2>2, <2>3, HeldIsInt
  <2>5. /\ books.clearing \in Int /\ books.revenue \in Int /\ books.expense \in Int
        /\ SumFunctionOnSet(held, Merchant) \in Int
    BY HeldIsInt DEF MoneyTypes
  <2>6. /\ books'.clearing = books.clearing + Total[i] - fee /\ books'.expense = books.expense + fee
        /\ books'.revenue = books.revenue + Total[i] - Net[i]
    BY <1>5
  <2>7. books.clearing + books.expense = SumFunctionOnSet(held, Merchant) + books.revenue
    BY DEF Booked
  <2> QED BY <1>4, <2>4, <2>5, <2>6, <2>7
<1> QED BY <1>6, <1>8, <1>9, <1>10 DEF Booked

(* What is released was in PENDING: the bucket holds the payment's net.    *)
LEMMA ReleaseBooks ==
  ASSUME Inv, Booked, MoneyTypes, NEW x \in Checkout, ReleaseOne(x)
  PROVE  Booked' /\ MoneyTypes'
<1>1. PICK i, m : i = checkout[x].inv /\ m = Owner[i]
  OBVIOUS
<1>2. /\ payment[x] = "VERIFIED" /\ payment' = [payment EXCEPT ![x] = "RELEASED"]
      /\ checkout' = checkout /\ books' = books
      /\ pending' = [pending EXCEPT ![m] = @ - Net[i]]
      /\ available' = [available EXCEPT ![m] = @ + Net[i]]
  BY <1>1 DEF ReleaseOne, Releasable, AmountReleased
<1>3. i \in Invoice /\ m \in Merchant /\ net[x] = Net[i] /\ Net[i] \in Nat
  BY <1>1, <1>2, NetIsNat
<1>4. net' = net
  BY <1>2 DEF net
<1>5. /\ x \in Bucket(m, "VERIFIED") /\ Bucket(m, "VERIFIED")' = Bucket(m, "VERIFIED") \ {x}
      /\ x \notin Bucket(m, "RELEASED") /\ Bucket(m, "RELEASED")' = Bucket(m, "RELEASED") \cup {x}
  BY <1>1, <1>2 DEF Bucket, Inv, Shapes
<1>6. \A n \in Merchant \ {m}, st \in {"VERIFIED", "RELEASED"} : Bucket(n, st)' = Bucket(n, st)
  BY <1>1, <1>2 DEF Bucket, Inv, Shapes
<1>7. SumFunctionOnSet(net, Bucket(m, "VERIFIED"))
        = SumFunctionOnSet(net, Bucket(m, "VERIFIED")') + Net[i]
  <2>1. \A y \in Bucket(m, "VERIFIED") : net[y] \in Int
    BY BucketIsNat
  <2> QED BY <1>3, <1>5, <2>1, BucketIsFinite, SumRemove
<1>8. SumFunctionOnSet(net, Bucket(m, "RELEASED")')
        = SumFunctionOnSet(net, Bucket(m, "RELEASED")) + Net[i]
  <2>1. \A y \in Bucket(m, "RELEASED") \cup {x} : net[y] \in Int
    BY <1>3, BucketIsNat
  <2> QED BY <1>3, <1>5, <2>1, BucketIsFinite, SumAdd
<1>9. SumFunctionOnSet(net, Bucket(m, "VERIFIED")') \in Nat
  <2>1. /\ \A y \in Bucket(m, "VERIFIED") \ {x} : net[y] \in Nat
        /\ IsFiniteSet(Bucket(m, "VERIFIED") \ {x})
    BY BucketIsNat, BucketIsFinite, FS_RemoveElement
  <2> QED BY <1>5, <2>1, SumIsNat
<1>10. /\ pending[m] = SumFunctionOnSet(net, Bucket(m, "VERIFIED"))
       /\ available[m] = SumFunctionOnSet(net, Bucket(m, "RELEASED"))
       /\ pending[m] \in Nat /\ available[m] \in Nat
       /\ pending'[m] = pending[m] - Net[i] /\ available'[m] = available[m] + Net[i]
  BY <1>2, <1>3 DEF Booked, MoneyTypes
<1>11. /\ pending'[m] = SumFunctionOnSet(net, Bucket(m, "VERIFIED")') /\ pending'[m] \in Nat
       /\ available'[m] = SumFunctionOnSet(net, Bucket(m, "RELEASED")') /\ available'[m] \in Nat
  BY <1>3, <1>7, <1>8, <1>9, <1>10
<1>12. \A n \in Merchant \ {m} : pending'[n] = pending[n] /\ available'[n] = available[n]
  BY <1>2 DEF MoneyTypes
<1>13. MoneyTypes'
  BY <1>2, <1>11, <1>12 DEF MoneyTypes
<1>14. books'.clearing + books'.expense = SumFunctionOnSet(held', Merchant) + books'.revenue
  <2>1. SumFunctionOnSet(held', Merchant)
          = SumFunctionOnSet(held, Merchant)
            + ((pending'[m] + available'[m]) - (pending[m] + available[m]))
    BY <1>3, <1>12, <1>13, HeldChanges
  <2>2. SumFunctionOnSet(held', Merchant) = SumFunctionOnSet(held, Merchant)
    BY <1>3, <1>10, <2>1, HeldIsInt
  <2> QED BY <1>2, <2>2 DEF Booked
<1> QED BY <1>4, <1>6, <1>11, <1>12, <1>13, <1>14 DEF Booked

-----------------------------------------------------------------------------
(* The types of what the credits do not depend on. *)
SideTypes ==
  /\ attempts \in [Invoice -> Nat] /\ age \in [Invoice -> 0 .. 2]
  /\ due \in [Checkout -> BOOLEAN]
  /\ hold \in [Checkout -> SUBSET Source] /\ dispute \in [Dispute -> Case]
  /\ active \in [Merchant -> BOOLEAN] /\ frozen \in BOOLEAN
  /\ event \in [Checkout -> {"NONE", "RECEIVED", "PROCESSED", "FAILED"}]

LEMMA SideMoves ==
  ASSUME [Next]_vars
  PROVE  \/ UNCHANGED <<attempts, age, due, hold, dispute, active, frozen, event>>
         \/ \E w \in Worker : \/ CreateFails(w) \/ FinalizeCredit(w) \/ CallbackVerify(w)
                              \/ MarkProcessed(w)
                              \/ \E x \in Checkout, i \in Invoice : Callback(w, x, i)
         \/ \E x \in Checkout : HoldPasses(x)
         \/ \E i \in Invoice : DayPasses(i)
         \/ CaseStep
BY ZenonT(40) DEF Next, BeginTask, TaskStep, Finalize, WorldStep, vars, CreateInvoice, RecoverUncreated,
       SweepBegins, PollSelect, PollVerify, ProviderCreate, AttachCheckout, PollExpire, FinalizeReplay, FinalizeInconclusive,
       FinalizeMismatch, FinalizeRefuse, Record, ExpireStaleInvoices, CancelInvoice, ReleaseOne,
       CustomerPays, ProviderCloses, ClockPasses, Crash

LEMMA CaseTypes ==
  ASSUME SideTypes, CaseStep
  PROVE  SideTypes'
<1>1. ASSUME NEW d \in Dispute, NEW x \in Checkout, OpenDispute(d, x) PROVE SideTypes'
  <2>1. [x |-> x, st |-> "HOLD", res |-> "NONE"] \in Case
    BY DEF Case
  <2>2. dispute' \in [Dispute -> Case]
    BY <1>1, <2>1 DEF OpenDispute, SideTypes
  <2>3. hold' \in [Checkout -> SUBSET Source]
    BY <1>1 DEF OpenDispute, SideTypes, Source
  <2> QED BY <1>1, <2>2, <2>3 DEF OpenDispute, SideTypes
<1>2. ASSUME NEW d \in Dispute, NEW res \in Resolution, ResolveDispute(d, res) PROVE SideTypes'
  <2>1. dispute' \in [Dispute -> Case]
    <3>1. dispute[d] \in Case
      BY DEF SideTypes
    <3>2. [dispute[d] EXCEPT !.st = "RESOLVED", !.res = res] \in Case
      BY <3>1 DEF Case
    <3>3. dispute' = [dispute EXCEPT ![d] = [dispute[d] EXCEPT !.st = "RESOLVED", !.res = res]]
      BY <1>2 DEF ResolveDispute
    <3> QED BY <3>2, <3>3 DEF SideTypes
  <2>2. hold' \in [Checkout -> SUBSET Source]
    BY <1>2 DEF ResolveDispute, SideTypes
  <2> QED BY <1>2, <2>1, <2>2 DEF ResolveDispute, SideTypes
<1>3. ASSUME NEW x \in Checkout, NEW source \in Source, ReleaseHold(x, source) PROVE SideTypes'
  BY <1>3 DEF ReleaseHold, SideTypes
<1>4. ASSUME NEW m \in Merchant, ChangeStanding(m) PROVE SideTypes'
  BY <1>4 DEF ChangeStanding, SideTypes
<1>5. CASE ToggleFreeze
  BY <1>5 DEF ToggleFreeze, SideTypes
<1> QED BY <1>1, <1>2, <1>3, <1>4, <1>5 DEF CaseStep

LEMMA SideNext ==
  ASSUME Inv, SideTypes, [Next]_vars
  PROVE  SideTypes'
<1>1. CASE UNCHANGED <<attempts, age, due, hold, dispute, active, frozen, event>>
  BY <1>1 DEF SideTypes
<1>2. ASSUME NEW w \in Worker, CreateFails(w) PROVE SideTypes'
  <2>1. \E i \in Invoice, n \in Nat : attempts' = [attempts EXCEPT ![i] = n]
    <3>1. task[w].i \in Invoice
      BY <1>2 DEF CreateFails, Inv, Fit, Remembers
    <3>2. attempts[task[w].i] + 1 \in Nat
      BY <3>1 DEF SideTypes
    <3> QED BY <1>2, <3>1, <3>2 DEF CreateFails
  <2>2. attempts' \in [Invoice -> Nat]
    BY <2>1 DEF SideTypes
  <2> QED BY <1>2, <2>2 DEF CreateFails, SideTypes
<1>3. ASSUME NEW w \in Worker, FinalizeCredit(w) PROVE SideTypes'
  <2>1. PICK risk \in SUBSET Source : hold' = [hold EXCEPT ![task[w].x] = @ \cup risk]
    <3>1. SUBSET {"RISK"} \subseteq SUBSET Source
      BY DEF Source
    <3> QED BY <1>3, <3>1 DEF FinalizeCredit
  <2>2. hold' \in [Checkout -> SUBSET Source]
    BY <2>1 DEF SideTypes
  <2> QED BY <1>3, <2>2 DEF FinalizeCredit, SideTypes
<1>4. ASSUME NEW w \in Worker, CallbackVerify(w) \/ MarkProcessed(w) PROVE SideTypes'
  BY <1>4 DEF CallbackVerify, MarkProcessed, SideTypes
<1>5. ASSUME NEW w \in Worker, NEW x \in Checkout, NEW i \in Invoice, Callback(w, x, i)
      PROVE  SideTypes'
  BY <1>5 DEF Callback, SideTypes
<1>6. ASSUME NEW x \in Checkout, HoldPasses(x) PROVE SideTypes'
  BY <1>6 DEF HoldPasses, SideTypes
<1>7. ASSUME NEW i \in Invoice, DayPasses(i) PROVE SideTypes'
  BY <1>7, AmountAssumption DEF AmountAssumption, DayPasses, SideTypes
<1> QED BY <1>1, <1>2, <1>3, <1>4, <1>5, <1>6, <1>7, SideMoves, CaseTypes

(* A step is one worker's, or none's. *)
LEMMA TaskMoves ==
  ASSUME [Next]_vars
  PROVE  task' = task \/ \E w \in Worker : \E t : task' = [task EXCEPT ![w] = t]
BY ZenonT(40) DEF Next, BeginTask, TaskStep, Finalize, WorldStep, CaseStep, vars, CreateInvoice, RecoverUncreated,
       SweepBegins, PollSelect, PollVerify, Callback, ProviderCreate, AttachCheckout, CreateFails, CallbackVerify, MarkProcessed,
       PollExpire, FinalizeReplay, FinalizeInconclusive, FinalizeMismatch, FinalizeRefuse,
       FinalizeCredit, Record, Finished, ExpireStaleInvoices, CancelInvoice, ReleaseOne, OpenDispute,
       ResolveDispute, ReleaseHold, ChangeStanding, ToggleFreeze, CustomerPays, ProviderCloses, ClockPasses,
       DayPasses, HoldPasses, Crash, Begin, Goto, Done

(* A checkout that was issued keeps its invoice. *)
LEMMA CheckoutsKept ==
  ASSUME Inv, \/ \E w \in Worker : ProviderCreate(w) \/ AttachCheckout(w)
              \/ \E x \in Checkout : ProviderCloses(x) \/ \E exact \in BOOLEAN : CustomerPays(x, exact)
  PROVE  \A x \in Checkout : checkout[x].inv # NoInvoice => checkout'[x].inv = checkout[x].inv
<1>1. ASSUME NEW w \in Worker, ProviderCreate(w)
      PROVE  \A x \in Checkout : checkout[x].inv # NoInvoice => checkout'[x].inv = checkout[x].inv
  <2>1. \/ checkout' = checkout
        \/ \E x \in Checkout : checkout[x].inv = NoInvoice /\ \E c : checkout' = [checkout EXCEPT ![x] = c]
    BY <1>1 DEF ProviderCreate
  <2> QED BY <2>1 DEF Inv, Shapes
<1>2. ASSUME NEW w \in Worker, AttachCheckout(w)
      PROVE  \A x \in Checkout : checkout'[x].inv = checkout[x].inv
  <2>1. checkout' = [checkout EXCEPT ![task[w].x].link = TRUE]
    BY <1>2 DEF AttachCheckout
  <2> QED BY <2>1 DEF Inv, Shapes, Deal
<1>3. ASSUME NEW x \in Checkout, ProviderCloses(x)
      PROVE  \A y \in Checkout : checkout'[y].inv = checkout[y].inv
  <2>1. checkout' = [checkout EXCEPT ![x].st = "failed"]
    BY <1>3 DEF ProviderCloses
  <2> QED BY <2>1 DEF Inv, Shapes, Deal
<1>4. ASSUME NEW x \in Checkout, NEW exact \in BOOLEAN, CustomerPays(x, exact)
      PROVE  \A y \in Checkout : checkout'[y].inv = checkout[y].inv
  <2> DEFINE i == checkout[x].inv
             ontime == clock[i] = "open"
             swept == clock[i] # "open" /\ Swept(i)
             c == [checkout[x] EXCEPT !.st = "paid", !.exact = exact, !.ontime = ontime,
                                      !.swept = swept]
  <2>1. checkout' = [checkout EXCEPT ![x] = c]
    BY <1>4 DEF CustomerPays
  <2>2. c.inv = checkout[x].inv
    BY DEF Inv, Shapes, Deal
  <2> HIDE DEF c
  <2> QED BY <2>1, <2>2 DEF Inv, Shapes
<1> QED BY <1>1, <1>2, <1>3, <1>4

LEMMA BooksNext ==
  ASSUME Inv, Booked, MoneyTypes, [Next]_vars
  PROVE  Booked' /\ MoneyTypes'
<1>1. \/ pending' = pending /\ available' = available /\ books' = books
         /\ payment' = payment /\ checkout' = checkout
      \/ \E x \in Checkout : ReleaseOne(x)
      \/ \E w \in Worker : \/ FinalizeInconclusive(w) \/ FinalizeMismatch(w) \/ FinalizeCredit(w)
                           \/ ProviderCreate(w) \/ AttachCheckout(w)
      \/ \E x \in Checkout : ProviderCloses(x) \/ \E exact \in BOOLEAN : CustomerPays(x, exact)
  BY ZenonT(40) DEF Next, BeginTask, TaskStep, Finalize, WorldStep, CaseStep, vars, CreateInvoice,
         RecoverUncreated, SweepBegins, PollSelect, PollVerify,
         Callback, CreateFails, CallbackVerify, MarkProcessed, PollExpire, FinalizeReplay, FinalizeRefuse,
         ExpireStaleInvoices, CancelInvoice, OpenDispute, ResolveDispute, ReleaseHold, ChangeStanding, ToggleFreeze,
         ClockPasses, DayPasses, HoldPasses, Crash
<1>2. CASE pending' = pending /\ available' = available /\ books' = books
           /\ payment' = payment /\ checkout' = checkout
  BY <1>2, QuietBooks DEF MoneyTypes
<1>3. ASSUME NEW w \in Worker, FinalizeInconclusive(w) \/ FinalizeMismatch(w)
      PROVE  Booked' /\ MoneyTypes'
  <2>1. PICK st \in {"FAILED", "UNKNOWN", "MISMATCH"} : Record(w, task[w].x, st)
    BY <1>3 DEF FinalizeInconclusive, FinalizeMismatch
  <2>2. /\ payment[task[w].x] = "NONE" /\ payment' = [payment EXCEPT ![task[w].x] = st]
        /\ checkout' = checkout /\ pending' = pending /\ available' = available /\ books' = books
    BY <1>3, <2>1 DEF Record, FinalizeInconclusive, FinalizeMismatch
  <2>3. \A x \in Checkout : payment'[x] # payment[x] =>
          payment[x] = "NONE" /\ payment'[x] \notin {"VERIFIED", "RELEASED"}
    BY <2>2 DEF Inv, Shapes
  <2> QED BY <2>2, <2>3, QuietBooks DEF MoneyTypes
<1>4. CASE \/ \E w \in Worker : ProviderCreate(w) \/ AttachCheckout(w)
           \/ \E x \in Checkout : ProviderCloses(x) \/ \E exact \in BOOLEAN : CustomerPays(x, exact)
  <2>1. payment' = payment /\ pending' = pending /\ available' = available /\ books' = books
    BY <1>4 DEF ProviderCreate, AttachCheckout, ProviderCloses, CustomerPays
  <2>2. \A x \in Checkout : checkout[x].inv # NoInvoice => checkout'[x].inv = checkout[x].inv
    BY <1>4, CheckoutsKept
  <2> QED BY <2>1, <2>2, QuietBooks DEF MoneyTypes
<1> QED BY <1>1, <1>2, <1>3, <1>4, CreditBooks, ReleaseBooks

LEMMA BooksInit == Init => Booked /\ MoneyTypes /\ SideTypes /\ task \in [Worker -> Task]
<1> SUFFICES ASSUME Init PROVE Booked /\ MoneyTypes /\ SideTypes /\ task \in [Worker -> Task]
  OBVIOUS
<1>1. MoneyTypes
  BY DEF Init, MoneyTypes
<1>2. SideTypes
  <2>1. NoDispute \in Case
    BY DEF NoDispute, Case
  <2>2. age \in [Invoice -> 0 .. 2] /\ attempts \in [Invoice -> Nat]
    BY DEF Init
  <2>3. hold \in [Checkout -> SUBSET Source] /\ due \in [Checkout -> BOOLEAN]
    BY DEF Init
  <2>4. active \in [Merchant -> BOOLEAN] /\ frozen \in BOOLEAN
    BY DEF Init
  <2>5. /\ dispute \in [Dispute -> Case]
        /\ event \in [Checkout -> {"NONE", "RECEIVED", "PROCESSED", "FAILED"}]
    BY <2>1 DEF Init
  <2> QED BY <2>2, <2>3, <2>4, <2>5 DEF SideTypes
<1>3. task \in [Worker -> Task]
  BY IdleFits DEF Init, Fit
<1>4. \A m, st : st \in {"VERIFIED", "RELEASED"} => Bucket(m, st) = {}
  BY DEF Init, Bucket
<1>5. SumFunctionOnSet(held, Merchant) = 0
  <2>1. \A m \in Merchant : held[m] = 0
    BY DEF Init, held
  <2> QED BY <2>1, SumOfZeros, FiniteAssumption DEF FiniteAssumption
<1>6. Booked
  BY <1>4, <1>5, SumOfNone DEF Init, Booked
<1> QED BY <1>1, <1>2, <1>3, <1>6

(***************************************************************************)
(* The books of the payments hold together: no bucket is ever negative, a  *)
(* merchant's PENDING is the net of his verified payments, his AVAILABLE   *)
(* that of the released ones, and clearing and the provider's fees are     *)
(* matched by the buckets and the revenue (finalizePayment, releaseOne).   *)
(***************************************************************************)
THEOREM BooksBalanceHolds == Spec => []BooksBalance
<1> DEFINE All == Inv /\ Booked /\ MoneyTypes /\ SideTypes /\ task \in [Worker -> Task]
<1>1. Init => All
  BY InvInit, BooksInit
<1>2. All /\ [Next]_vars => All'
  <2> SUFFICES ASSUME All, [Next]_vars PROVE All'
    OBVIOUS
  <2>1. Inv' /\ Booked' /\ MoneyTypes' /\ SideTypes'
    BY InvNext, BooksNext, SideNext
  <2>2. \A w \in Worker : task'[w] \in Task
    BY <2>1 DEF Inv, Fit
  <2>3. task' \in [Worker -> Task]
    BY <2>2, TaskMoves
  <2> QED BY <2>1, <2>3
<1>3. All => BooksBalance
  <2> SUFFICES ASSUME All PROVE BooksBalance
    OBVIOUS
  <2>1. TypeOK
    BY DEF TypeOK, Inv, Shapes, MoneyTypes, SideTypes
  <2> QED BY <2>1, BookedIs DEF BooksBalance
<1> HIDE DEF All
<1> QED BY <1>1, <1>2, <1>3, PTL DEF Spec

-----------------------------------------------------------------------------
(***************************************************************************)
(* The arithmetic.  Products of two variables are named before an          *)
(* inequality between them is needed, so that what is left is linear.      *)
(***************************************************************************)
LEMMA Divides ==
  ASSUME NEW n \in Nat, NEW d \in Nat \ {0}
  PROVE  /\ n \div d \in Nat /\ n % d \in Nat /\ n % d < d
         /\ n = d * (n \div d) + (n % d)
<1>1. n \div d \in Int /\ n % d \in Int
  OBVIOUS
<1>2. 0 <= n % d /\ n % d < d
  OBVIOUS
<1>3. n = d * (n \div d) + (n % d)
  <2>1. n \in Int /\ d \in Int /\ d > 0
    OBVIOUS
  <2> QED BY <2>1
<1>4. 0 <= n \div d
  OBVIOUS
<1> QED BY <1>1, <1>2, <1>3, <1>4

(* What divRound takes a division apart into: quotient and rest of the     *)
(* magnitudes, and the sign of the result.                                 *)
Splits(n, d, q, r, m, s) ==
  /\ m = Abs(d) /\ r < m /\ Abs(n) = q * m + r
  /\ (s = -1) <=> (n < 0 /\ d > 0) \/ (n > 0 /\ d < 0)

(* The quotient that divRound rounds, with both signs put aside, and what  *)
(* the sign of the result makes of it.                                     *)
LEMMA Quotient ==
  ASSUME NEW n \in Int, NEW d \in Int \ {0}, NEW mode \in Rounding
  PROVE  \E q \in Nat, r \in Nat, m \in Nat \ {0}, away \in {0, 1}, s \in {-1, 1} :
           /\ Splits(n, d, q, r, m, s)
           /\ (away = 1) <=> RoundsAway(q, r, m, s = -1, mode)
           /\ DivRound(n, d, mode) = s * (q + away)
<1> DEFINE a == Abs(n)
           m == Abs(d)
           q == a \div m
           r == a % m
           negative == Sign(n) * Sign(d) < 0 /\ a > 0
           s == IF negative THEN -1 ELSE 1
           away == IF RoundsAway(q, r, m, negative, mode) THEN 1 ELSE 0
<1>1. a \in Nat /\ m \in Nat \ {0}
  BY DEF Abs
<1>2. q \in Nat /\ r \in Nat /\ r < m /\ a = m * q + r
  <2> HIDE DEF a, m
  <2> QED BY <1>1, Divides
<1>3. a = q * m + r
  <2> HIDE DEF a, m, q, r
  <2> QED BY <1>1, <1>2
<1>4. negative <=> (n < 0 /\ d > 0) \/ (n > 0 /\ d < 0)
  <2> HIDE DEF m, q, r
  <2> QED BY DEF Abs, Sign
<1>5. s \in {-1, 1} /\ away \in {0, 1} /\ (s = -1 <=> negative)
  <2> HIDE DEF a, m, q, r, negative
  <2> QED OBVIOUS
<1>6. away = 1 <=> RoundsAway(q, r, m, s = -1, mode)
  <2> HIDE DEF a, m, q, r, negative
  <2> QED BY DEF RoundsAway
<1>7. DivRound(n, d, mode) = s * (q + away)
  <2>1. DivRound(n, d, mode) = (IF negative THEN -1 ELSE 1) * (IF RoundsAway(q, r, m, negative, mode) THEN q + 1 ELSE q)
    BY DEF DivRound
  <2>2. (IF RoundsAway(q, r, m, negative, mode) THEN q + 1 ELSE q) = q + away
    <3> HIDE DEF a, m, q, r, negative
    <3> QED BY <1>2
  <2> QED BY <2>1, <2>2
<1> HIDE DEF a, m, q, r, negative, s, away
<1>8. m = Abs(d) /\ a = Abs(n)
  BY DEF m, a
<1> QED BY <1>1, <1>2, <1>3, <1>4, <1>5, <1>6, <1>7, <1>8 DEF Splits

(* How far the rounded quotient lies below the true one, times |d|.        *)
Rests(n, d, q, r, m, away, s) ==
  /\ Sign(d) * (n - (s * (q + away)) * d) = s * (r - away * m)
  /\ Abs((s * (q + away)) * d) = q * m + away * m

LEMMA Rest ==
  ASSUME NEW n \in Int, NEW d \in Int \ {0}, NEW q \in Nat, NEW r \in Nat, NEW m \in Nat \ {0},
         NEW away \in {0, 1}, NEW s \in {-1, 1}, Splits(n, d, q, r, m, s), r = 0 => away = 0
  PROVE  Rests(n, d, q, r, m, away, s)
<1>0. /\ m = Abs(d) /\ r < m /\ Abs(n) = q * m + r
      /\ (s = -1) <=> (n < 0 /\ d > 0) \/ (n > 0 /\ d < 0)
  BY DEF Splits
<1>1. PICK k \in Nat : k = q + away
  OBVIOUS
<1>2. PICK p \in Nat : p = k * m
  OBVIOUS
<1>3. p = q * m + away * m
  BY <1>1, <1>2
<1>4. \/ d = m /\ (s * k) * d = s * p
      \/ d = -m /\ (s * k) * d = -(s * p)
  <2>1. CASE d > 0
    <3>1. d = m
      BY <1>0, <2>1 DEF Abs
    <3> QED BY <1>2, <3>1
  <2>2. CASE d < 0
    <3>1. d = -m
      BY <1>0, <2>2 DEF Abs
    <3> QED BY <1>2, <3>1
  <2> QED BY <2>1, <2>2
<1>5. PICK a \in Nat, b \in Nat : a = q * m /\ b = away * m /\ p = a + b /\ (b = 0 \/ b = m)
      /\ Abs(n) = a + r /\ (r = 0 => b = 0)
  BY <1>0, <1>3
<1>6. Sign(d) * (n - (s * k) * d) = s * (r - b) /\ Abs((s * k) * d) = p
  <2>1. CASE d > 0 /\ s = 1
    BY <1>0, <1>4, <1>5, <2>1 DEF Abs, Sign
  <2>2. CASE d > 0 /\ s = -1
    BY <1>0, <1>4, <1>5, <2>2 DEF Abs, Sign
  <2>3. CASE d < 0 /\ s = 1
    BY <1>0, <1>4, <1>5, <2>3 DEF Abs, Sign
  <2>4. CASE d < 0 /\ s = -1
    BY <1>0, <1>4, <1>5, <2>4 DEF Abs, Sign
  <2> QED BY <2>1, <2>2, <2>3, <2>4
<1> QED BY <1>1, <1>5, <1>6 DEF Rests

(* divRound is what its mode says, for every pair of integers.             *)
LEMMA ModesRound ==
  ASSUME NEW n \in Int, NEW d \in Int \ {0}, NEW mode \in Rounding
  PROVE  RoundedAs(n, d, DivRound(n, d, mode), mode)
<1>1. PICK q \in Nat, r \in Nat, m \in Nat \ {0}, away \in {0, 1}, s \in {-1, 1} :
           /\ Splits(n, d, q, r, m, s)
           /\ (away = 1) <=> RoundsAway(q, r, m, s = -1, mode)
           /\ DivRound(n, d, mode) = s * (q + away)
  BY Quotient
<1>0. /\ m = Abs(d) /\ r < m /\ Abs(n) = q * m + r
      /\ (s = -1) <=> (n < 0 /\ d > 0) \/ (n > 0 /\ d < 0)
  BY <1>1 DEF Splits
<1>2. r = 0 => away = 0
  BY <1>1 DEF RoundsAway
<1>3. PICK v \in Int : v = s * (q + away)
  OBVIOUS
<1>4. PICK x \in Int : x = v * d
  BY <1>3
<1>5. PICK a \in Nat, b \in Nat : a = q * m /\ b = away * m
  BY <1>1
<1>6. Sign(d) * (n - x) = s * (r - b) /\ Abs(x) = a + b /\ Abs(n) = a + r
  <2>1. /\ Sign(d) * (n - (s * (q + away)) * d) = s * (r - away * m)
        /\ Abs((s * (q + away)) * d) = q * m + away * m
    <3>1. Splits(n, d, q, r, m, s)
      BY <1>1
    <3>2. Rests(n, d, q, r, m, away, s)
      BY <1>2, <3>1, Rest
    <3> QED BY <3>2 DEF Rests
  <2> QED BY <1>0, <1>3, <1>4, <1>5, <2>1
<1>7. (away = 0 => b = 0) /\ (away = 1 => b = m)
  BY <1>1, <1>5
<1>8. PICK u \in Int : u = Sign(d) * (n - x)
  BY <1>4 DEF Sign
<1>9. /\ mode = "FLOOR" => (RoundedAs(n, d, v, mode) <=> 0 <= u /\ u < m)
      /\ mode = "CEIL" => (RoundedAs(n, d, v, mode) <=> -m < u /\ u <= 0)
      /\ mode = "HALF_UP" => (RoundedAs(n, d, v, mode) <=>
            2 * Abs(u) < m \/ (2 * Abs(u) = m /\ Abs(x) > Abs(n)))
      /\ mode = "HALF_EVEN" => (RoundedAs(n, d, v, mode) <=>
            2 * Abs(u) < m \/ (2 * Abs(u) = m /\ v % 2 = 0))
  BY <1>0, <1>4, <1>8 DEF RoundedAs
<1>10. u = s * (r - b)
  BY <1>6, <1>8
<1>11. CASE mode = "FLOOR"
  BY <1>0, <1>1, <1>2, <1>3, <1>7, <1>9, <1>10, <1>11 DEF RoundsAway
<1>12. CASE mode = "CEIL"
  BY <1>0, <1>1, <1>2, <1>3, <1>7, <1>9, <1>10, <1>12 DEF RoundsAway
<1>13. CASE mode = "HALF_UP"
  <2>1. away = 1 <=> r > 0 /\ 2 * r >= m
    BY <1>1, <1>13 DEF RoundsAway
  <2>2. Abs(u) = IF away = 1 THEN m - r ELSE r
    BY <1>0, <1>1, <1>7, <1>10 DEF Abs
  <2>3. Abs(x) > Abs(n) <=> b > r
    BY <1>6
  <2>4. 2 * Abs(u) < m \/ (2 * Abs(u) = m /\ b > r)
    <3>1. CASE away = 1
      <4>1. Abs(u) = m - r /\ b = m /\ 2 * r >= m
        BY <1>7, <2>1, <2>2, <3>1
      <4>2. r < m
        BY <1>0
      <4> QED BY <4>1, <4>2
    <3>2. CASE away = 0
      <4>1. Abs(u) = r /\ (r = 0 \/ 2 * r < m)
        BY <2>1, <2>2, <3>2
      <4> QED BY <1>0, <4>1
    <3> QED BY <3>1, <3>2
  <2>5. RoundedAs(n, d, v, mode)
    BY <1>9, <1>13, <2>3, <2>4
  <2> QED BY <1>1, <1>3, <2>5
<1>14. CASE mode = "HALF_EVEN"
  <2>1. 2 * Abs(u) < m \/ (2 * Abs(u) = m /\ (q + away) % 2 = 0)
    BY <1>0, <1>1, <1>7, <1>10, <1>14 DEF RoundsAway, Abs
  <2>2. (q + away) % 2 = 0 => v % 2 = 0
    BY <1>3
  <2> QED BY <1>1, <1>3, <1>9, <1>14, <2>1, <2>2
<1> QED BY <1>11, <1>12, <1>13, <1>14 DEF Rounding

LEMMA IsInteger ==
  ASSUME NEW n \in Int, NEW d \in Int \ {0}, NEW mode \in Rounding
  PROVE  DivRound(n, d, mode) \in Int
<1>1. PICK q \in Nat, r \in Nat, m \in Nat \ {0}, away \in {0, 1}, s \in {-1, 1} :
           /\ Splits(n, d, q, r, m, s)
           /\ (away = 1) <=> RoundsAway(q, r, m, s = -1, mode)
           /\ DivRound(n, d, mode) = s * (q + away)
  BY Quotient
<1>2. s * (q + away) \in Int
  OBVIOUS
<1> QED BY <1>1, <1>2

LEMMA RoundsDown ==
  ASSUME NEW n \in Nat, NEW d \in Nat \ {0}
  PROVE  \E q \in Nat : q = DivRound(n, d, "FLOOR") /\ q * d <= n /\ n < (q + 1) * d
<1>1. PICK q \in Int : q = DivRound(n, d, "FLOOR") /\ RoundedAs(n, d, q, "FLOOR")
  <2>1. DivRound(n, d, "FLOOR") \in Int
    BY IsInteger DEF Rounding
  <2>2. RoundedAs(n, d, DivRound(n, d, "FLOOR"), "FLOOR")
    BY ModesRound DEF Rounding
  <2> QED BY <2>1, <2>2
<1>2. PICK x \in Int : x = q * d
  OBVIOUS
<1>3. 0 <= n - x /\ n - x < d
  BY <1>1, <1>2 DEF RoundedAs, Sign, Abs
<1>4. (q + 1) * d = x + d
  BY <1>2
<1>5. q >= 0
  <2>1. CASE q < 0
    <3>1. (q + 1) * d <= 0
      BY <2>1
    <3> QED BY <1>3, <1>4, <3>1
  <2> QED BY <2>1
<1> QED BY <1>1, <1>2, <1>3, <1>4, <1>5

LEMMA RoundsUp ==
  ASSUME NEW n \in Nat, NEW d \in Nat \ {0}
  PROVE  \E q \in Int : q = DivRound(n, d, "CEIL") /\ n <= q * d /\ q * d < n + d
<1>1. PICK q \in Int : q = DivRound(n, d, "CEIL") /\ RoundedAs(n, d, q, "CEIL")
  <2>1. DivRound(n, d, "CEIL") \in Int
    BY IsInteger DEF Rounding
  <2>2. RoundedAs(n, d, DivRound(n, d, "CEIL"), "CEIL")
    BY ModesRound DEF Rounding
  <2> QED BY <2>1, <2>2
<1>2. PICK x \in Int : x = q * d
  OBVIOUS
<1>3. -d < n - x /\ n - x <= 0
  BY <1>1, <1>2 DEF RoundedAs, Sign, Abs
<1> QED BY <1>1, <1>2, <1>3

(* A part of a whole in basis points is no more than the whole.            *)
LEMMA PartOfWhole ==
  ASSUME NEW whole \in Nat, NEW bps \in 0 .. BasisPoints
  PROVE  whole * bps \in Nat /\ whole * bps <= whole * BasisPoints
<1>1. BasisPoints \in Nat
  BY AmountsAssumption DEF AmountsAssumption
<1>2. PICK k \in Nat : k = BasisPoints - bps
  BY <1>1
<1>3. whole * BasisPoints = whole * bps + whole * k /\ whole * k \in Nat /\ whole * bps \in Nat
  <2>1. BasisPoints = bps + k
    BY <1>1, <1>2
  <2> QED BY <2>1
<1> QED BY <1>3

LEMMA Cancels ==
  ASSUME NEW a \in Int, NEW b \in Int, NEW c \in Nat \ {0}, a * c < b * c + c
  PROVE  a <= b
<1>1. CASE a > b
  <2>1. PICK k \in Nat : a = (b + 1) + k
    BY <1>1
  <2>2. a * c = (b * c + c) + k * c /\ k * c \in Nat
    BY <2>1
  <2>3. PICK x \in Int, y \in Int, z \in Nat : x = a * c /\ y = b * c /\ z = k * c
    BY <2>2
  <2> QED BY <2>2, <2>3
<1> QED BY <1>1

LEMMA FeeIsExact ==
  ASSUME NEW base \in Nat, NEW mode \in FeeMode, NEW bps \in 0 .. BasisPoints
  PROVE  LET f == CalculateFees(base, mode, bps)
         IN /\ f.customerTotal - f.platformFee = f.merchantNet
            /\ f.merchantNet >= 0 /\ f.merchantNet \in Nat /\ f.platformFee \in Nat
            /\ f.platformFee * BasisPoints <= base * bps
            /\ base * bps < (f.platformFee + 1) * BasisPoints
            /\ mode = "SPLIT" => f.merchantShare - f.customerShare \in {0, 1}
<1>0. BasisPoints \in Nat \ {0}
  BY AmountsAssumption DEF AmountsAssumption
<1>1. base * bps \in Nat /\ base * bps <= base * BasisPoints
  BY PartOfWhole
<1>2. PICK fee \in Nat : /\ fee = ApplyTo(bps, base, "FLOOR") /\ fee * BasisPoints <= base * bps
                         /\ base * bps < (fee + 1) * BasisPoints
  BY <1>0, <1>1, RoundsDown DEF ApplyTo
<1>3. fee <= base
  <2>1. PICK x \in Int, y \in Int, z \in Int :
          x = fee * BasisPoints /\ y = base * BasisPoints /\ z = base * bps
    BY <1>0, <1>1
  <2>2. x < y + BasisPoints
    BY <1>0, <1>1, <1>2, <2>1
  <2> QED BY <1>0, <2>1, <2>2, Cancels
<1>4. PICK half \in Nat : half = DivRound(fee, 2, "FLOOR") /\ half * 2 <= fee /\ fee < (half + 1) * 2
  BY RoundsDown
<1>5. PICK c \in Nat : /\ c = CustomerShare(fee, mode) /\ c <= fee
                       /\ mode = "SPLIT" => c = half
  <2>1. CASE mode = "CUSTOMER"
    BY <2>1 DEF CustomerShare
  <2>2. CASE mode = "MERCHANT"
    BY <2>2 DEF CustomerShare
  <2>3. CASE mode = "SPLIT"
    BY <1>4, <2>3 DEF CustomerShare
  <2> QED BY <2>1, <2>2, <2>3 DEF FeeMode
<1>6. CalculateFees(base, mode, bps)
        = [customerTotal |-> base + c, merchantNet |-> base - (fee - c),
           platformFee |-> c + (fee - c), customerShare |-> c, merchantShare |-> fee - c]
  BY <1>2, <1>5 DEF CalculateFees, MerchantShare
<1>7. c + (fee - c) = fee
  OBVIOUS
<1>8. base - (fee - c) \in Nat
  BY <1>3, <1>5
<1>9. mode = "SPLIT" => (fee - c) - c \in {0, 1}
  <2>1. (fee - half) - half = 0 \/ (fee - half) - half = 1
    BY <1>4
  <2> QED BY <1>5, <2>1
<1>10. (base + c) - fee = base - (fee - c)
  OBVIOUS
<1> QED BY <1>2, <1>6, <1>7, <1>8, <1>9, <1>10

LEMMA CostIsExact ==
  ASSUME NEW collected \in Nat, NEW bps \in 0 .. BasisPoints
  PROVE  LET fee == ProviderFee(collected, bps)
         IN /\ collected * bps <= fee * BasisPoints
            /\ fee * BasisPoints < collected * bps + BasisPoints
            /\ fee <= collected
<1>0. BasisPoints \in Nat \ {0}
  BY AmountsAssumption DEF AmountsAssumption
<1>1. collected * bps \in Nat /\ collected * bps <= collected * BasisPoints
  BY PartOfWhole
<1>2. PICK fee \in Int : /\ fee = ProviderFee(collected, bps) /\ collected * bps <= fee * BasisPoints
                         /\ fee * BasisPoints < collected * bps + BasisPoints
  BY <1>0, <1>1, RoundsUp DEF ApplyTo, ProviderFee
<1>3. fee <= collected
  <2>1. PICK x \in Int, y \in Int, z \in Int :
          x = fee * BasisPoints /\ y = collected * BasisPoints /\ z = collected * bps
    BY <1>0, <1>1
  <2>2. x < y + BasisPoints
    BY <1>0, <1>1, <1>2, <2>1
  <2> QED BY <1>0, <2>1, <2>2, Cancels
<1> QED BY <1>2, <1>3

LEMMA GramIsExact ==
  ASSUME NEW toman \in Nat, NEW rate \in Nat \ {0}
  PROVE  LET gram == TomanToGram(toman, rate)
         IN /\ gram * rate <= toman * GramUnit
            /\ toman * GramUnit < (gram + 1) * rate
            /\ GramToToman(gram, rate) <= toman
<1>0. GramUnit \in Nat \ {0}
  BY AmountsAssumption DEF AmountsAssumption
<1>1. PICK bought \in Nat : bought = toman * GramUnit
  BY <1>0
<1>2. PICK gram \in Nat : /\ gram = TomanToGram(toman, rate)
                          /\ gram * rate <= bought /\ bought < (gram + 1) * rate
  BY <1>1, RoundsDown DEF TomanToGram
<1>3. PICK cost \in Nat : cost = gram * rate
  OBVIOUS
<1>4. PICK back \in Nat : back = GramToToman(gram, rate) /\ back * GramUnit <= cost
  BY <1>0, <1>3, RoundsDown DEF GramToToman
<1>5. back <= toman
  <2>1. PICK x \in Int : x = back * GramUnit
    BY <1>0
  <2>2. x < bought + GramUnit
    BY <1>0, <1>2, <1>3, <1>4, <2>1
  <2> QED BY <1>0, <1>1, <2>1, <2>2, Cancels
<1> QED BY <1>1, <1>2, <1>4, <1>5

(* The operators of Amounts are exact, whichever inputs they are for.      *)
LEMMA OperatorsAreExact == DivisionRounds /\ FeesConserve /\ CostIsCovered /\ GramIsCovered
<1>0. /\ BasisPoints \in Nat /\ Amount \subseteq Nat /\ Bps \subseteq 0 .. BasisPoints
      /\ RatePerGram \subseteq Nat \ {0}
  BY AmountsAssumption DEF AmountsAssumption
<1>1. DivisionRounds
  <2>1. ASSUME NEW S, \A x \in S : x \in Nat, NEW y \in Signed(S)
        PROVE  y \in Int /\ (y = 0 => y \in S)
    <3>1. y \in S \/ \E x \in S : y = -x
      BY <2>1 DEF Signed
    <3> QED BY <2>1, <3>1
  <2>2. \A n \in Signed(Amount) : n \in Int
    BY <1>0, <2>1
  <2>3. \A d \in Signed(1 .. 8) : d \in Int \ {0}
    <3>1. \A x \in 1 .. 8 : x \in Nat /\ x # 0
      OBVIOUS
    <3> QED BY <2>1, <3>1
  <2> QED BY <2>2, <2>3, ModesRound DEF DivisionRounds
<1>2. FeesConserve
  BY <1>0, FeeIsExact DEF FeesConserve
<1>3. CostIsCovered
  BY <1>0, CostIsExact DEF CostIsCovered
<1>4. GramIsCovered
  BY <1>0, GramIsExact DEF GramIsCovered
<1> QED BY <1>1, <1>2, <1>3, <1>4

-----------------------------------------------------------------------------
(* The fees of the invoices, as a function, and the revenue as their sum.  *)
fees == [i \in Invoice |-> FeesOf(i).platformFee]
Paid == {i \in Invoice : invoice[i] = "PAID"}
Earning == books.revenue = SumFunctionOnSet(fees, Paid)

FeesAdd(S, g) ==
  g = [s \in SUBSET S |-> IF s = {} THEN 0 ELSE FeesOf(Pick(s)).platformFee + g[s \ {Pick(s)}]]

LEMMA EarningIs == Earning <=> EarnedAreFees
<1>1. EarnedAreFees <=> books.revenue = (CHOOSE g : FeesAdd(Paid, g))[Paid]
  BY DEF EarnedAreFees, MapThenSumSet, MapThenFoldSet, Pick, FeesAdd, Paid
<1>2. ASSUME NEW g PROVE FeesAdd(Paid, g) <=> Adds(fees, Paid, g)
  <2>1. \A s \in SUBSET Paid : s # {} => FeesOf(Pick(s)).platformFee = fees[Pick(s)]
    BY PickIsIn DEF fees, Paid
  <2> QED BY <2>1 DEF Adds, FeesAdd
<1>3. (CHOOSE g : FeesAdd(Paid, g)) = CHOOSE g : Adds(fees, Paid, g)
  BY <1>2
<1> QED BY <1>1, <1>3, SumIsChosen DEF Earning

(* What the customer pays and the merchant does not get is the fee.        *)
LEMMA FeeIsMargin ==
  ASSUME NEW i \in Invoice
  PROVE  fees[i] \in Nat /\ Total[i] - Net[i] = fees[i]
<1>1. Base[i] \in Nat /\ BornBy[i] \in FeeMode /\ PlatformBps \in 0 .. BasisPoints
  BY SnapshotAssumption, AmountsAssumption DEF SnapshotAssumption, AmountsAssumption
<1>2. PICK f : f = CalculateFees(Base[i], BornBy[i], PlatformBps)
  OBVIOUS
<1>3. f.customerTotal - f.platformFee = f.merchantNet /\ f.platformFee \in Nat
  BY <1>1, <1>2, FeeIsExact
<1>4. Total[i] = f.customerTotal /\ Net[i] = f.merchantNet /\ fees[i] = f.platformFee
  BY <1>2, SnapshotAssumption DEF SnapshotAssumption, FeesOf, fees
<1>5. Total[i] \in Nat /\ Net[i] \in Nat
  BY AmountAssumption DEF AmountAssumption
<1> QED BY <1>3, <1>4, <1>5

(* Only a credit earns, and only a credit makes an invoice PAID for good.  *)
LEMMA OthersEarnNothing ==
  ASSUME Inv, [Next]_vars
  PROVE  \/ books' = books /\ \A i \in Invoice : invoice'[i] = "PAID" <=> invoice[i] = "PAID"
         \/ \E w \in Worker : FinalizeCredit(w)
<1>1. \/ books' = books /\ invoice' = invoice
      \/ \E w \in Worker : FinalizeCredit(w) \/ PollExpire(w) \/ \E i \in Invoice : CreateInvoice(w, i)
      \/ ExpireStaleInvoices \/ \E i \in Invoice : CancelInvoice(i)
  BY ZenonT(40) DEF Next, BeginTask, TaskStep, Finalize, WorldStep, CaseStep, vars,
         RecoverUncreated, SweepBegins, PollSelect, PollVerify,
         Callback, CreateFails, CallbackVerify, MarkProcessed, FinalizeReplay, FinalizeRefuse,
         FinalizeInconclusive, FinalizeMismatch, Record, ProviderCreate, AttachCheckout,
         OpenDispute, ResolveDispute, ReleaseHold, ChangeStanding, ToggleFreeze, ReleaseOne, CustomerPays, ProviderCloses,
         ClockPasses, DayPasses, HoldPasses, Crash
<1>2. ASSUME NEW w \in Worker, NEW i \in Invoice, CreateInvoice(w, i)
      PROVE  books' = books /\ \A j \in Invoice : invoice'[j] = "PAID" <=> invoice[j] = "PAID"
  BY <1>2 DEF CreateInvoice, Inv, Shapes
<1>3. ASSUME NEW i \in Invoice, CancelInvoice(i)
      PROVE  books' = books /\ \A j \in Invoice : invoice'[j] = "PAID" <=> invoice[j] = "PAID"
  BY <1>3 DEF CancelInvoice, Inv, Shapes
<1>4. ASSUME NEW w \in Worker, PollExpire(w)
      PROVE  books' = books /\ \A j \in Invoice : invoice'[j] = "PAID" <=> invoice[j] = "PAID"
  BY <1>4 DEF PollExpire, Inv, Shapes
<1>5. CASE ExpireStaleInvoices
  BY <1>5 DEF ExpireStaleInvoices, Stale
<1> QED BY <1>1, <1>2, <1>3, <1>4, <1>5

LEMMA EarningNext ==
  ASSUME Inv, MoneyTypes, Earning, [Next]_vars
  PROVE  Earning'
<1>0. IsFiniteSet(Paid) /\ \A i \in Invoice : fees[i] \in Int
  <2>1. Paid \subseteq Invoice
    BY DEF Paid
  <2> QED BY <2>1, FS_Subset, FeeIsMargin, SnapshotAssumption DEF SnapshotAssumption
<1>1. CASE books' = books /\ \A i \in Invoice : invoice'[i] = "PAID" <=> invoice[i] = "PAID"
  <2>1. Paid' = Paid
    BY <1>1 DEF Paid
  <2> QED BY <1>1, <2>1 DEF Earning, fees
<1>2. ASSUME NEW w \in Worker, FinalizeCredit(w) PROVE Earning'
  <2>1. PICK i : i = task[w].i
    OBVIOUS
  <2>2. i \in Invoice /\ invoice[i] = "CREATED" /\ invoice' = [invoice EXCEPT ![i] = "PAID"]
    BY <1>2, <2>1, FinalizingKnows DEF FinalizeCredit, Payable
  <2>3. books'.revenue = books.revenue + Total[i] - Net[i]
    BY <1>2, <2>1 DEF FinalizeCredit
  <2>4. Paid' = Paid \cup {i} /\ i \notin Paid
    BY <2>2 DEF Paid, Inv, Shapes
  <2>5. \A j \in Paid \cup {i} : fees[j] \in Int
    BY <1>0, <2>2 DEF Paid
  <2>6. SumFunctionOnSet(fees, Paid \cup {i}) = SumFunctionOnSet(fees, Paid) + fees[i]
    BY <1>0, <2>4, <2>5, SumAdd
  <2>7. books.revenue + Total[i] - Net[i] = books.revenue + fees[i]
    BY <2>2, FeeIsMargin, AmountAssumption DEF AmountAssumption, MoneyTypes
  <2>8. SumFunctionOnSet(fees, Paid)' = SumFunctionOnSet(fees, Paid \cup {i})
    BY <2>4 DEF fees
  <2> QED BY <2>3, <2>6, <2>7, <2>8 DEF Earning
<1> QED BY <1>1, <1>2, OthersEarnNothing

(* The arithmetic is exact for all amounts, fees and rates, and what the   *)
(* platform has earned is the fees of the invoices that were paid, however *)
(* their callbacks, sweeps and checkouts overlapped (divRound,             *)
(* calculateFees, calculateProviderCost, tomanToGram, finalizePayment).    *)
THEOREM AmountsAreExactHolds == Spec => []AmountsAreExact
<1> DEFINE All == Inv /\ Booked /\ MoneyTypes /\ Earning
<1>1. Init => All
  <2>1. Init => Earning
    <3>1. Init => Paid = {} /\ books.revenue = 0
      BY DEF Init, Paid
    <3> QED BY <3>1, SumOfNone DEF Earning
  <2> QED BY <2>1, InvInit, BooksInit
<1>2. All /\ [Next]_vars => All'
  BY InvNext, BooksNext, EarningNext
<1>3. All => AmountsAreExact
  BY OperatorsAreExact, EarningIs DEF AmountsAreExact
<1> HIDE DEF All
<1> QED BY <1>1, <1>2, <1>3, PTL DEF Spec
=============================================================================
