------------------------------ MODULE Requests ------------------------------
(***************************************************************************)
(* A merchant's request from the SDK to its effect: the attempts of        *)
(* packages/sdk/src/index.ts, the authentication of apps/api/src/auth.ts,  *)
(* the idempotency keys of packages/core/src/idempotency.ts, and what the  *)
(* routes POST /v1/invoices and POST /v1/refunds do behind them.           *)
(*                                                                         *)
(* A message is one attempt of a call; it has a nonce and a timestamp of   *)
(* its own, stays on the wire and may be delivered late, twice or never.   *)
(* Time is counted in ticks, of the length of a lease in the instances.    *)
(***************************************************************************)
EXTENDS Integers, FiniteSets, FiniteSetsExt

CONSTANTS
  Call,       \* calls of the SDK's createInvoice and requestRefund
  RefundCall, \* those of requestRefund, all for one payment
  Together,   \* the calls that are made in one behaviour (a bound of the instances)
  Key,        \* idempotency keys of one merchant
  KeyOf,      \* the key a call carries
  BodyOf,     \* what is in its body
  Attempts,   \* maxAttempts of the client that makes it
  Ahead,      \* by how much the clock of that client is ahead
  Amount,     \* what a refund call asks for
  Collected,  \* verified_amount of the payment
  Lease, KeyTtl, Window, NonceTtl,
  Horizon,    \* where the clock stops
  Faults,     \* how often a step may fail or the process stop
  CrashAt     \* steps before which the process may stop

(* Nothing in config/src/index.ts ties NONCE_TTL_SECONDS (900) to          *)
(* HMAC_WINDOW_SECONDS (300); replay protection needs this of them.        *)
ASSUME RequestsAssumption ==
  /\ RefundCall \subseteq Call /\ Together \subseteq SUBSET Call
  /\ KeyOf \in [Call -> Key] /\ Ahead \in [Call -> Int]
  /\ Attempts \in [Call -> Nat \ {0}] /\ Amount \in [RefundCall -> Nat \ {0}]
  /\ {Collected, Lease, KeyTtl, Window, NonceTtl, Horizon, Faults} \subseteq Nat
  /\ NonceTtl >= 2 * Window
  /\ IsFiniteSet(Call)

VARIABLES
  now,      \* the clock of the database and of the API
  made,     \* the calls that are made in this behaviour
  call,     \* how many attempts of a call were sent
  stamp,    \* the timestamp of every message that was sent
  nonce,    \* system.request_nonces, with expires_at
  row,      \* integration.idempotency_keys
  task,     \* the handler of a message
  invoices, \* core.invoices: the messages whose handlers created one
  refund,   \* core.refunds, likewise
  lock,     \* who holds the payment's row
  handled,  \* how often a message got past authentication
  lapsed,   \* handlers that lost their claim in a way the code provides for
  faults    \* how many faults there have been

vars == <<now, made, call, stamp, nonce, row, task, invoices, refund, lock, handled, lapsed, faults>>
server == <<now, made, nonce, row, invoices, refund, lock, handled, lapsed, faults>>
client == <<now, made, call, stamp>>

Message == {m \in Call \X (1 .. Max({Attempts[c] : c \in Call})) : m[2] <= Attempts[m[1]]}
NoOne == <<>>      \* no message
Null == -1

NoRow == [st |-> "NONE", body |-> "none", owner |-> NoOne, lease |-> Null, expires |-> Null,
          value |-> NoOne]
Idle == [at |-> "idle", answer |-> "none", value |-> NoOne]

Init ==
  /\ now = 0 /\ faults = 0
  /\ made \in Together /\ call = [c \in Call |-> 0]
  /\ stamp = [m \in {} |-> 0] /\ nonce = [m \in {} |-> 0]
  /\ row = [k \in Key |-> NoRow]
  /\ task = [m \in Message |-> Idle]
  /\ invoices = {} /\ refund = [m \in Message |-> "NONE"]
  /\ lock = NoOne
  /\ handled = [m \in Message |-> 0] /\ lapsed = {}

-----------------------------------------------------------------------------
(* The client: GramGateway.#raw and #send.                                 *)
With(f, x, v) == [y \in DOMAIN f \cup {x} |-> IF y = x THEN v ELSE f[y]]

Send(c) ==
  /\ call' = [call EXCEPT ![c] = @ + 1]
  /\ stamp' = With(stamp, <<c, call[c] + 1>>, now + Ahead[c])
  /\ UNCHANGED task /\ UNCHANGED server

Start(c) == c \in made /\ call[c] = 0 /\ Send(c)

(* No answer in time, or a 5xx: both calls carry a key, so both retry.  A  *)
(* 4xx is final, the 409 of a request that is in progress included.        *)
TryAgain(c) ==
  /\ call[c] \in 1 .. Attempts[c] - 1
  /\ task[<<c, call[c]>>].answer \in {"none", "error"}
  /\ Send(c)

-----------------------------------------------------------------------------
(* authenticateApiKey: the signed timestamp, then the nonce.               *)
InWindow(m) == now - stamp[m] \in (-Window) .. Window
NonceUntilWindow(m) == With(nonce, m, now + Window)              \* mutant: kept for one window
Spend(m) == With(nonce, m, now + NonceTtl)

At(m, step) == task' = [task EXCEPT ![m].at = step]
Answer(m, answer, value) ==
  task' = [task EXCEPT ![m] = [at |-> "ended", answer |-> answer, value |-> value]]

(* A second delivery of a message that is still handled has its nonce.     *)
Authenticate(m) ==
  /\ m \in DOMAIN stamp /\ task[m].at \in {"idle", "ended"}
  /\ InWindow(m) /\ m \notin DOMAIN nonce
  /\ nonce' = Spend(m)
  /\ handled' = [handled EXCEPT ![m] = @ + 1]
  /\ At(m, IF m[1] \in RefundCall THEN "check" ELSE "claim")
  /\ UNCHANGED <<row, invoices, refund, lock, lapsed, faults>> /\ UNCHANGED client

Refuse(m) ==
  /\ m \in DOMAIN stamp /\ task[m] = Idle /\ ~InWindow(m)
  /\ Answer(m, "conflict", NoOne)
  /\ UNCHANGED <<nonce, handled, row, invoices, refund, lock, lapsed, faults>> /\ UNCHANGED client

-----------------------------------------------------------------------------
(* runIdempotent, around the creation of an invoice.                       *)
KeyFor(m) == KeyOf[m[1]]
Keep == <<nonce, handled, refund, lock>>

Claim(m) ==
  LET k == KeyFor(m)
  IN /\ task[m].at = "claim"
     /\ \/ /\ row[k].st = "NONE"
           /\ row' = [row EXCEPT ![k] =
                [NoRow EXCEPT !.st = "IN_PROGRESS", !.body = BodyOf[m[1]], !.owner = m,
                              !.lease = now + Lease, !.expires = now + KeyTtl]]
           /\ At(m, "create")
        \/ row[k].st # "NONE" /\ At(m, "look") /\ UNCHANGED row
     /\ UNCHANGED <<invoices, lapsed, faults>> /\ UNCHANGED Keep /\ UNCHANGED client

Claimable(k) == \/ row[k].st = "FAILED"
                \/ row[k].lease # Null /\ row[k].lease <= now
SameBodyAny(m) == TRUE                                           \* mutant: the hash is not compared
SameBody(m) == row[KeyFor(m)].body = BodyOf[m[1]]

Look(m) ==
  LET k == KeyFor(m)
  IN /\ task[m].at = "look"
     /\ \/ /\ row[k].st = "NONE" \/ ~SameBody(m)
           /\ Answer(m, "conflict", NoOne)
        \/ row[k].st = "COMPLETED" /\ SameBody(m) /\ Answer(m, "ok", row[k].value)
        \/ /\ row[k].st \in {"IN_PROGRESS", "FAILED"} /\ SameBody(m)
           /\ IF Claimable(k) THEN At(m, "reclaim") ELSE Answer(m, "conflict", NoOne)
     /\ UNCHANGED <<row, invoices, lapsed, faults>> /\ UNCHANGED Keep /\ UNCHANGED client

(* The UPDATE asks again whether the claim is still there to be taken.     *)
ReclaimableStale(k) == row[k].st # "NONE"                        \* mutant: trusts the SELECT
Reclaimable(k) == row[k].st # "NONE" /\ Claimable(k)

Reclaim(m) ==
  LET k == KeyFor(m)
  IN /\ task[m].at = "reclaim"
     /\ \/ /\ Reclaimable(k)
           /\ row' = [row EXCEPT ![k].owner = m, ![k].lease = now + Lease, ![k].st = "IN_PROGRESS"]
           /\ lapsed' = IF Claimable(k) THEN lapsed \cup {row[k].owner} ELSE lapsed
           /\ At(m, "create")
        \/ ~Reclaimable(k) /\ Answer(m, "conflict", NoOne) /\ UNCHANGED <<row, lapsed>>
     /\ UNCHANGED <<invoices, faults>> /\ UNCHANGED Keep /\ UNCHANGED client

(* createInvoice commits the invoice, its intent and its event at once.    *)
(* The provider is asked for a checkout before "complete": its refusal is  *)
(* caught, and the invoice stands without a link.                          *)
Create(m) ==
  /\ task[m].at = "create"
  /\ invoices' = invoices \cup {m}
  /\ At(m, "complete")
  /\ UNCHANGED <<row, lapsed, faults>> /\ UNCHANGED Keep /\ UNCHANGED client

MineAlways(m) == row[KeyFor(m)].st # "NONE"                      \* mutant: no owner_token
Mine(m) == row[KeyFor(m)].owner = m

(* EXECUTED, whether or not the row still was this request's to complete.  *)
Complete(m) ==
  /\ task[m].at = "complete"
  /\ row' = IF Mine(m)
              THEN [row EXCEPT ![KeyFor(m)].st = "COMPLETED", ![KeyFor(m)].value = m,
                               ![KeyFor(m)].lease = Null]
              ELSE row
  /\ Answer(m, "ok", m)
  /\ UNCHANGED <<invoices, lapsed, faults>> /\ UNCHANGED Keep /\ UNCHANGED client

(* createInvoice, the resolver or the last UPDATE throws.                  *)
Throw(m) ==
  /\ task[m].at \in {"create", "complete"} /\ faults < Faults
  /\ faults' = faults + 1
  /\ At(m, "fail")
  /\ UNCHANGED <<row, invoices, lapsed>> /\ UNCHANGED Keep /\ UNCHANGED client

FailKey(m) ==
  /\ task[m].at = "fail"
  /\ row' = IF Mine(m)
              THEN [row EXCEPT ![KeyFor(m)].st = "FAILED", ![KeyFor(m)].lease = now] ELSE row
  /\ Answer(m, "error", NoOne)
  /\ UNCHANGED <<invoices, lapsed, faults>> /\ UNCHANGED Keep /\ UNCHANGED client

-----------------------------------------------------------------------------
(* requestRefund, one transaction; the route looks at no idempotency key.  *)
Outside == <<nonce, handled, row, invoices, lapsed>>
Committed == {m \in Message : refund[m] \notin {"NONE", "UNCOMMITTED", "FAILED", "REJECTED"}}
Total(ms) == MapThenSumSet(LAMBDA m : Amount[m[1]], ms)
Exceeds(m) == Total(Committed) + Amount[m[1]] > Collected

FreeAlways == TRUE                                               \* mutant: no FOR UPDATE
FreeToLock == lock = NoOne

CheckRefund(m) ==
  /\ task[m].at = "check" /\ FreeToLock
  /\ IF Exceeds(m) THEN Answer(m, "conflict", NoOne) /\ UNCHANGED lock
                   ELSE At(m, "insert") /\ lock' = m
  /\ UNCHANGED <<refund, faults>> /\ UNCHANGED Outside /\ UNCHANGED client

(* trg_refund_within_limit sums what is committed by now.                  *)
InsertRefund(m) ==
  /\ task[m].at = "insert"
  /\ \/ ~Exceeds(m) /\ refund' = [refund EXCEPT ![m] = "UNCOMMITTED"] /\ At(m, "commit") /\ UNCHANGED lock
     \/ Exceeds(m) /\ Answer(m, "error", NoOne) /\ lock' = NoOne /\ UNCHANGED refund
  /\ UNCHANGED faults /\ UNCHANGED Outside /\ UNCHANGED client

CommitRefund(m, status) ==
  /\ task[m].at = "commit"
  /\ refund' = [refund EXCEPT ![m] = status]
  /\ lock' = NoOne
  /\ Answer(m, "ok", m)
  /\ UNCHANGED faults /\ UNCHANGED Outside /\ UNCHANGED client

-----------------------------------------------------------------------------
(* The process stops: what was not committed is rolled back.               *)
Crash(m) ==
  /\ task[m].at \in CrashAt /\ faults < Faults
  /\ faults' = faults + 1
  /\ At(m, "ended")
  /\ refund' = IF refund[m] = "UNCOMMITTED" THEN [refund EXCEPT ![m] = "NONE"] ELSE refund
  /\ lock' = IF lock = m THEN NoOne ELSE lock
  /\ UNCHANGED Outside /\ UNCHANGED client

Purges(k) == row[k].st # "NONE" /\ row[k].expires < now

(* purgeExpired, run by every worker cycle and by the scheduler.           *)
PurgeExpired ==
  /\ row' = [k \in Key |-> IF Purges(k) THEN NoRow ELSE row[k]]
  /\ nonce' = [m \in {x \in DOMAIN nonce : nonce[x] >= now} |-> nonce[m]]
  /\ <<row, nonce>>' # <<row, nonce>>
  /\ lapsed' = lapsed \cup {row[k].owner : k \in {x \in Key : Purges(x)}}
  /\ UNCHANGED <<invoices, refund, lock, handled, faults, task>> /\ UNCHANGED client

Tick == now < Horizon /\ now' = now + 1
        /\ UNCHANGED <<made, call, stamp, nonce, row, task, invoices, refund, lock, handled, lapsed, faults>>

Handle(m) ==
  \/ Authenticate(m) \/ Refuse(m)
  \/ Claim(m) \/ Look(m) \/ Reclaim(m) \/ Create(m) \/ Complete(m) \/ FailKey(m)
  \/ CheckRefund(m) \/ InsertRefund(m)
  \/ \E status \in {"REQUESTED", "BLOCKED_POLICY_UNDEFINED"} : CommitRefund(m, status)

Next ==
  \/ \E c \in Call : Start(c) \/ TryAgain(c)
  \/ \E m \in Message : Handle(m) \/ Throw(m) \/ Crash(m)
  \/ PurgeExpired \/ Tick

Spec == Init /\ [][Next]_vars

-----------------------------------------------------------------------------
TypeOK ==
  /\ now \in 0 .. Horizon /\ faults \in 0 .. Faults
  /\ made \in Together /\ \A c \in Call : call[c] \in 0 .. (IF c \in made THEN Attempts[c] ELSE 0)
  /\ DOMAIN stamp \subseteq Message /\ DOMAIN nonce \subseteq DOMAIN stamp
  /\ row \in [Key -> [st : {"NONE", "IN_PROGRESS", "COMPLETED", "FAILED"},
                      body : {BodyOf[c] : c \in Call} \cup {"none"}, owner : Message \cup {NoOne},
                      lease : Int, expires : Int, value : Message \cup {NoOne}]]
  /\ \A k \in Key : (row[k].lease = Null) = (row[k].st \in {"NONE", "COMPLETED"})
  /\ \A k \in Key : (row[k].value # NoOne) => row[k].st = "COMPLETED"
  /\ task \in [Message -> [at : {"idle", "claim", "look", "reclaim", "create", "complete",
                                 "fail", "check", "insert", "commit", "ended"},
                           answer : {"none", "ok", "conflict", "error"},
                           value : Message \cup {NoOne}]]
  /\ lock \in Message \cup {NoOne} /\ {lapsed, invoices} \subseteq SUBSET Message

(* A message gets past authentication once, however often it is delivered  *)
(* and whatever the client's clock says: its nonce outlives its timestamp. *)
HandledOnce == \A m \in Message : handled[m] <= 1

(* Two requests with one key create two invoices only when the claim of    *)
(* all but one had lapsed, failed or been purged before it was taken over. *)
DuplicateIsLapsed ==
  \A m, o \in Message :
    m # o /\ KeyFor(m) = KeyFor(o) /\ m \in invoices /\ o \in invoices
      => m \in lapsed \/ o \in lapsed

(* Whoever is told that his invoice exists is told of one that does, made  *)
(* under his key from the body he sent.                                    *)
AnswerIsForBody ==
  \A m \in Message : task[m].answer = "ok" /\ m[1] \notin RefundCall =>
    LET v == task[m].value
    IN v \in invoices /\ KeyFor(v) = KeyFor(m) /\ BodyOf[v[1]] = BodyOf[m[1]]

(* Keys are kept: types, and an answer under a key is that of the request  *)
(* it was sent with (idempotency.ts).                                      *)
KeysAreKept == TypeOK /\ AnswerIsForBody

(* The refunds of a payment, those not committed yet included, stay within *)
(* what was collected.                                                     *)
RefundsWithinCollected ==
  Total({m \in Message : refund[m] \notin {"NONE", "FAILED", "REJECTED"}}) <= Collected

(* The answer recorded under a key is what its replays get until the key   *)
(* expires: a slow request that lost its claim cannot put its own there.   *)
AnswerStands ==
  [][\A k \in Key : row[k].st = "COMPLETED" /\ row[k].expires >= now => row'[k] = row[k]]_vars

(* "Refunds always carry an idempotency key: a duplicate would return      *)
(* money twice" (sdk/src/index.ts:156): a call makes one refund at most.   *)
OneRefundPerCall ==
  \A c \in RefundCall : Cardinality({m \in Committed : m[1] = c}) <= 1
=============================================================================
