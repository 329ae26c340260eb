------------------------------ MODULE Transfers ------------------------------
(***************************************************************************)
(* Sequence numbers and signing requests of one treasury wallet: the       *)
(* AwsKmsEd25519Signer of packages/ton/src/aws-kms-signer.ts, the          *)
(* TonSeqnoManager of seqno-manager.ts, and what signPayout,               *)
(* broadcastPayout, settlePayout and failPayout of use-cases/payout.ts do  *)
(* with them.                                                              *)
(*                                                                         *)
(* Payouts models the same pipeline with the KmsSigner, money, reservation *)
(* and wallet guards included, and without sequence numbers.  Here it is   *)
(* the other way round: the money is a version of the locked amount, and   *)
(* what matters is which message carries which number, and when.  One      *)
(* database transaction, or one call to KMS or to the network, is one      *)
(* action.                                                                 *)
(***************************************************************************)
EXTENDS Integers, FiniteSets, FiniteSetsExt

CONSTANTS
  Payout,         \* payouts of the treasury
  Worker,         \* cycles that can be running at once
  Idle,           \* the payout of a worker that has nothing to do
  Locks,          \* amounts a rate lock may give a payout
  InitialSeqno,   \* number of the wallet when it is first used
  CrashAt,        \* steps before which a worker may stop
  Lapsing,        \* payouts whose reservation may lapse, so that the rate is locked anew
  Expiring,       \* payouts whose message may become older than its valid_until
  External,       \* how many transfers the owner may make from the wallet by hand
  Maintained      \* the wallet row is synchronised and reconciled with the chain

ASSUME TransferAssumption ==
  /\ Idle \notin Payout /\ Lapsing \subseteq Payout
  /\ Locks \subseteq Nat \ {0} /\ Locks # {} /\ InitialSeqno \in Nat
  /\ Expiring \subseteq Payout /\ External \in Nat /\ Maintained \in BOOLEAN

VARIABLES
  status,    \* finance.payouts.status of a payout with a locked rate
  amount,    \* gram_amount_atomic
  sig,       \* what the stored signing_reference carries: number and amount
  wallet,    \* the row of finance.treasury_wallet_sequences
  alloc,     \* finance.payout_seqno_allocations of the payout
  request,   \* system.signing_requests of "payout:<id>"
  issued,    \* every signature KMS has ever returned
  expired,   \* the payouts whose message is older than its valid_until
  message,   \* what the network did with the payout's message
  onChain,   \* the wallet contract's own sequence number
  task       \* what a worker is in the middle of

pipelineVars == <<status, amount, sig>>
seqnoVars    == <<wallet, alloc>>
chainVars    == <<expired, message, onChain>>
vars == <<pipelineVars, seqnoVars, request, issued, chainVars, task>>

Nothing   == [seq |-> -1, amt |-> 0]
NoRow     == [row |-> FALSE, current |-> 0, next |-> 0, confirmed |-> -1]
NoRequest == [st |-> "NONE", amt |-> 0, token |-> Idle, lease |-> FALSE]
Free      == [at |-> "idle", p |-> Idle, amt |-> 0]

AllocStatus == {"NONE", "RESERVED", "BROADCASTED", "CONFIRMED", "EXPIRED", "FAILED"}
Committed   == {"RESERVED", "SIGNED", "BROADCASTED", "UNKNOWN"}

Larger(a, b) == IF a > b THEN a ELSE b

Init ==
  /\ status = [p \in Payout |-> "RESERVED"]
  /\ amount = [p \in Payout |-> Min(Locks)]
  /\ sig = [p \in Payout |-> Nothing]
  /\ wallet = NoRow
  /\ alloc = [p \in Payout |-> [seq |-> -1, st |-> "NONE"]]
  /\ request = [p \in Payout |-> NoRequest]
  /\ issued = {} /\ expired = {}
  /\ message = [p \in Payout |-> "NONE"]
  /\ onChain = InitialSeqno
  /\ task = [w \in Worker |-> Free]

Goto(w, at) == task' = [task EXCEPT ![w].at = at]
Done(w)     == task' = [task EXCEPT ![w] = Free]

-----------------------------------------------------------------------------
(* The sequence numbers.  The row of the wallet is made by the first       *)
(* allocation, and a payout keeps the number it was given for ever.        *)

OpenedLow == [row |-> TRUE, current |-> InitialSeqno, next |-> InitialSeqno,
              confirmed |-> InitialSeqno - 2]     \* mutant: one too low
Opened == IF wallet.row THEN wallet
          ELSE [row |-> TRUE, current |-> InitialSeqno, next |-> InitialSeqno,
                confirmed |-> InitialSeqno - 1]

NextFromChain == Opened.current          \* mutant: the number the chain shows, not the next free one
NextFree      == Opened.next

Allocate(p) ==
  IF alloc[p].st # "NONE" THEN UNCHANGED seqnoVars
  ELSE /\ alloc' = [alloc EXCEPT ![p] = [seq |-> NextFree, st |-> "RESERVED"]]
       /\ wallet' = [Opened EXCEPT !.next = NextFree + 1]

Predecessors(p) == {q \in Payout : alloc[q].st # "NONE" /\ alloc[q].seq < alloc[p].seq}

(* The gate of an ordered broadcast: the number is the one the wallet      *)
(* expects, everything before it is confirmed without a gap, and nothing   *)
(* else is in flight.                                                      *)
UngatedBroadcast(p) == alloc[p].st # "CONFIRMED"     \* mutant: the gate is not asked
CanBroadcast(p) ==
  LET S == alloc[p].seq
  IN /\ alloc[p].st \notin {"NONE", "CONFIRMED"}
     /\ wallet.row /\ wallet.current = S /\ wallet.confirmed = S - 1
     /\ Predecessors(p) # {} => \E q \in Predecessors(p) : alloc[q].seq = S - 1
     /\ \A q \in Predecessors(p) : alloc[q].st = "CONFIRMED"
     /\ \A q \in Payout \ {p} : alloc[q].seq # S => alloc[q].st # "BROADCASTED"

Mark(p, st) == alloc' = [alloc EXCEPT ![p].st = st]

MarkBroadcasted(p) == Mark(p, "BROADCASTED") /\ UNCHANGED wallet

(* The settled number is confirmed, and the next one is expected. *)
ConfirmedUpTo(S) == [wallet EXCEPT !.confirmed = Larger(@, S), !.current = Larger(@, S + 1)]

Confirm(p) == Mark(p, "CONFIRMED") /\ wallet' = ConfirmedUpTo(alloc[p].seq)
FailNumber(p) == Mark(p, "FAILED") /\ UNCHANGED wallet

(* The caller has just read n from the chain. *)
SyncOnChain(n) ==
  /\ Maintained /\ n = onChain
  /\ wallet' = IF ~wallet.row THEN [row |-> TRUE, current |-> n, next |-> n, confirmed |-> -1]
               ELSE [wallet EXCEPT !.current = Larger(@, n), !.next = Larger(@, n)]
  /\ UNCHANGED <<pipelineVars, alloc, request, issued, chainVars, task>>

(* Numbers below the chain's are settled by the evidence that is found for *)
(* them, and what was not broadcast at or above it is given up.            *)
WithEvidence(found, n) == {p \in found : message[p] = "LANDED"}

ReconcileSequenceGap(n, found) ==
  LET stuck == {p \in Payout : alloc[p].st \in {"RESERVED", "BROADCASTED"} /\ alloc[p].seq < n}
      proved == stuck \cap WithEvidence(found, n)
  IN /\ Maintained /\ wallet.row /\ n = onChain /\ found \subseteq stuck
     /\ alloc' = [p \in Payout |->
          IF p \in proved THEN [alloc[p] EXCEPT !.st = "CONFIRMED"]
          ELSE IF p \in found THEN [alloc[p] EXCEPT !.st = "FAILED"]
          ELSE IF alloc[p].st = "RESERVED" /\ alloc[p].seq >= n
               THEN [alloc[p] EXCEPT !.st = "EXPIRED"]
          ELSE alloc[p]]
     /\ wallet' = [wallet EXCEPT !.current = n, !.next = Larger(@, n),
                     !.confirmed = Max({@} \cup {alloc[p].seq : p \in proved})]
     /\ UNCHANGED <<pipelineVars, request, issued, chainVars, task>>

-----------------------------------------------------------------------------
(* Signing.  The amount is read in one transaction, the request claimed in *)
(* another, KMS asked with none held, the answer stored under the claim's  *)
(* token, and the reference recorded in a last one.                        *)

SignPrepare(w, p) ==
  /\ task[w] = Free /\ status[p] = "RESERVED"
  /\ task' = [task EXCEPT ![w] = [at |-> "claim", p |-> p, amt |-> amount[p]]]
  /\ UNCHANGED <<pipelineVars, seqnoVars, request, issued, chainVars>>

Claimed(w, amt) == [st |-> "CLAIMED", amt |-> amt, token |-> w, lease |-> TRUE]

ClaimFresh(w) ==
  LET t == task[w]
  IN /\ t.at = "claim" /\ request[t.p].st = "NONE"
     /\ Allocate(t.p)
     /\ request' = [request EXCEPT ![t.p] = Claimed(w, t.amt)]
     /\ Goto(w, "kms")
     /\ UNCHANGED <<pipelineVars, issued, chainVars>>

(* The intent a retry presents must be the stored one. *)
AnyIntent(t)  == TRUE                                   \* mutant: no comparison of intents
SameIntent(t) == request[t.p].amt = t.amt

ClaimLive(p) == request[p].st = "CLAIMED" /\ request[p].lease

ClaimAgain(w) ==
  LET t == task[w]
  IN /\ t.at = "claim" /\ request[t.p].st \in {"CLAIMED", "FAILED_RETRYABLE"}
     /\ SameIntent(t) /\ ~ClaimLive(t.p)
     /\ request' = [request EXCEPT ![t.p] = Claimed(w, t.amt)]
     /\ Goto(w, "kms")
     /\ UNCHANGED <<pipelineVars, seqnoVars, issued, chainVars>>

ClaimReplayed(w) ==
  LET t == task[w]
  IN /\ t.at = "claim" /\ request[t.p].st = "COMPLETED" /\ SameIntent(t)
     /\ Goto(w, "record")
     /\ UNCHANGED <<pipelineVars, seqnoVars, request, issued, chainVars>>

(* SIGN_REQUEST_PAYLOAD_MISMATCH and SIGN_REQUEST_IN_FLIGHT. *)
ClaimRefused(w) ==
  LET t == task[w]
  IN /\ t.at = "claim" /\ request[t.p].st # "NONE"
     /\ ~SameIntent(t) \/ ClaimLive(t.p)
     /\ Done(w)
     /\ UNCHANGED <<pipelineVars, seqnoVars, request, issued, chainVars>>

Signature(t) == [p |-> t.p, seq |-> alloc[t.p].seq, amt |-> t.amt]

KmsSigns(w) ==
  /\ task[w].at = "kms"
  /\ issued' = issued \cup {Signature(task[w])}
  /\ Goto(w, "complete")
  /\ UNCHANGED <<pipelineVars, seqnoVars, request, chainVars>>

(* A late worker may no longer write: the token and the status fence it. *)
Unfenced(w, r) == TRUE                                   \* mutant: the update names only the request
Fenced(w, r) == r.token = w /\ r.st = "CLAIMED"

(* Token and lease of a request that is not CLAIMED are never read again.  *)
Store(w, st) ==
  LET p == task[w].p
  IN request' = IF Fenced(w, request[p])
                THEN [request EXCEPT ![p] = [st |-> st, amt |-> @.amt, token |-> Idle, lease |-> FALSE]]
                ELSE request

KmsFails(w) ==
  /\ task[w].at = "kms"
  /\ Store(w, "FAILED_RETRYABLE")
  /\ Done(w)
  /\ UNCHANGED <<pipelineVars, seqnoVars, issued, chainVars>>

(* The worker goes on with its signature even if the update hit no row. *)
Complete(w) ==
  /\ task[w].at = "complete"
  /\ Store(w, "COMPLETED")
  /\ Goto(w, "record")
  /\ UNCHANGED <<pipelineVars, seqnoVars, issued, chainVars>>

SignRecord(w) ==
  LET t == task[w]
  IN /\ t.at = "record"
     /\ \/ /\ status[t.p] = "RESERVED"
           /\ status' = [status EXCEPT ![t.p] = "SIGNED"]
           /\ sig' = [sig EXCEPT ![t.p] = [seq |-> alloc[t.p].seq, amt |-> t.amt]]
        \/ status[t.p] # "RESERVED" /\ UNCHANGED <<status, sig>>
     /\ Done(w)
     /\ UNCHANGED <<amount, seqnoVars, request, issued, chainVars>>

-----------------------------------------------------------------------------
(* Broadcasting.  The gate is asked in the first transaction, the message  *)
(* posted with none held, and the outcome recorded in a second one.        *)

BroadcastGate(w, p) ==
  /\ task[w] = Free /\ status[p] = "SIGNED" /\ CanBroadcast(p)
  /\ task' = [task EXCEPT ![w] = [at |-> "send", p |-> p, amt |-> 0]]
  /\ UNCHANGED <<pipelineVars, seqnoVars, request, issued, chainVars>>

(* The lookup by idempotency key finds a message that is on its way; or it *)
(* fails, or asks an indexer that lags, which reads the same as a message  *)
(* that was never sent.                                                    *)
SendFound(w) ==
  /\ task[w].at = "send" /\ message[task[w].p] \in {"PENDING", "LANDED"}
  /\ Goto(w, "accepted")
  /\ UNCHANGED <<pipelineVars, seqnoVars, request, issued, chainVars>>

(* A message that is posted again is the same signed message with the same *)
(* number, which the network takes once.                                   *)
SendPost(w, outcome) ==
  LET p == task[w].p
  IN /\ task[w].at = "send" /\ outcome \in {"accepted", "ambiguous"}
     /\ message' = IF message[p] \in {"NONE", "DROPPED"}
                   THEN [message EXCEPT ![p] = "PENDING"] ELSE message
     /\ Goto(w, outcome)
     /\ UNCHANGED <<pipelineVars, seqnoVars, request, issued, expired, onChain>>

(* It did not reach the network, or the network refused it with a 400, be  *)
(* it because it already has the message.                                  *)
SendFails(w, outcome) ==
  /\ task[w].at = "send"
  /\ outcome \in {"ambiguous", "rejected"}
  /\ Goto(w, outcome)
  /\ UNCHANGED <<pipelineVars, seqnoVars, request, issued, chainVars>>

(* transitionState refuses what is no longer in one of the from-states. *)
Moves(w, from, to) ==
  LET p == task[w].p
  IN /\ status' = IF status[p] \in from THEN [status EXCEPT ![p] = to] ELSE status
     /\ Done(w)
     /\ UNCHANGED <<amount, sig, request, issued, chainVars>>

BroadcastRecord(w) ==
  /\ task[w].at = "accepted"
  /\ Moves(w, {"SIGNED"}, "BROADCASTED")
  /\ IF status[task[w].p] = "SIGNED" THEN MarkBroadcasted(task[w].p) ELSE UNCHANGED seqnoVars

MarkUnknown(w) ==
  /\ task[w].at = "ambiguous"
  /\ Moves(w, Committed \ {"UNKNOWN"}, "UNKNOWN")
  /\ UNCHANGED seqnoVars

FailRejected(w) ==
  /\ task[w].at = "rejected"
  /\ Moves(w, Committed \ {"UNKNOWN"}, "FAILED")
  /\ IF status[task[w].p] \in Committed \ {"UNKNOWN"} THEN FailNumber(task[w].p)
     ELSE UNCHANGED seqnoVars

(* advancePayout and reconcilePayout, whose own steps Payouts takes apart: *)
(* a transfer that landed is settled.  One that is not found fails, which  *)
(* it may be wrongly after a lookup that failed.                           *)
Settle(p) ==
  /\ status[p] \in {"BROADCASTED", "UNKNOWN"} /\ message[p] = "LANDED"
  /\ status' = [status EXCEPT ![p] = "SETTLED"]
  /\ Confirm(p)
  /\ UNCHANGED <<amount, sig, request, issued, chainVars, task>>

FailUnseen(p) ==
  /\ status[p] = "UNKNOWN"
  /\ status' = [status EXCEPT ![p] = "FAILED"]
  /\ FailNumber(p)
  /\ UNCHANGED <<amount, sig, request, issued, chainVars, task>>

(* The reservation of a payout that is not signed lapses, the sweep sends  *)
(* it back, liquidity has run out meanwhile, and its rate is locked anew: a *)
(* higher amount each time, which bounds how often.                        *)
LockAnew(p, amt) ==
  /\ p \in Lapsing /\ status[p] = "RESERVED" /\ amt > amount[p]
  /\ amount' = [amount EXCEPT ![p] = amt]
  /\ UNCHANGED <<status, sig, seqnoVars, request, issued, chainVars, task>>

-----------------------------------------------------------------------------
(* The clock, the network, and workers that stop. *)

LeaseExpires(p) ==
  /\ ClaimLive(p)
  /\ request' = [request EXCEPT ![p].lease = FALSE]
  /\ UNCHANGED <<pipelineVars, seqnoVars, issued, chainVars, task>>

(* valid_until is fixed by the first claim and never renewed; nothing reads *)
(* it once the message has landed.                                         *)
ValidityPasses(p) ==
  /\ p \in Expiring \ expired /\ request[p].st # "NONE" /\ message[p] # "LANDED"
  /\ expired' = expired \cup {p}
  /\ UNCHANGED <<pipelineVars, seqnoVars, request, issued, message, onChain, task>>

(* The wallet contract takes the message with its own number, in time. *)
MessageLands(p) ==
  /\ message[p] = "PENDING" /\ sig[p].seq = onChain /\ p \notin expired
  /\ message' = [message EXCEPT ![p] = "LANDED"]
  /\ onChain' = onChain + 1
  /\ UNCHANGED <<pipelineVars, seqnoVars, request, issued, expired, task>>

MessageDropped(p) ==
  /\ message[p] = "PENDING" /\ (p \in expired \/ sig[p].seq # onChain)
  /\ message' = [message EXCEPT ![p] = "DROPPED"]
  /\ UNCHANGED <<pipelineVars, seqnoVars, request, issued, expired, onChain, task>>

(* The owner pays from the wallet by hand, with the number that was next.  *)
Landed == {p \in Payout : message[p] = "LANDED"}
ExternalTransfer ==
  /\ onChain < InitialSeqno + Cardinality(Landed) + External
  /\ onChain' = onChain + 1
  /\ UNCHANGED <<pipelineVars, seqnoVars, request, issued, expired, message, task>>

Crash(w) ==
  /\ task[w].at \in CrashAt
  /\ Done(w)
  /\ UNCHANGED <<pipelineVars, seqnoVars, request, issued, chainVars>>

-----------------------------------------------------------------------------
SignStep(w) ==
  \/ ClaimFresh(w) \/ ClaimAgain(w) \/ ClaimReplayed(w) \/ ClaimRefused(w)
  \/ KmsSigns(w) \/ KmsFails(w) \/ Complete(w) \/ SignRecord(w)

SendStep(w) ==
  \/ SendFound(w)
  \/ \E outcome \in {"accepted", "ambiguous"} : SendPost(w, outcome)
  \/ \E outcome \in {"ambiguous", "rejected"} : SendFails(w, outcome)
  \/ BroadcastRecord(w) \/ MarkUnknown(w) \/ FailRejected(w)

Next ==
  \/ \E w \in Worker, p \in Payout : SignPrepare(w, p) \/ BroadcastGate(w, p)
  \/ \E w \in Worker : SignStep(w) \/ SendStep(w) \/ Crash(w)
  \/ \E p \in Payout : Settle(p) \/ FailUnseen(p) \/ LeaseExpires(p)
  \/ \E p \in Payout : ValidityPasses(p) \/ MessageLands(p) \/ MessageDropped(p)
  \/ \E p \in Payout, amt \in Locks : LockAnew(p, amt)
  \/ ExternalTransfer
  \/ SyncOnChain(onChain)
  \/ \E found \in SUBSET Payout : ReconcileSequenceGap(onChain, found)

Spec == Init /\ [][Next]_vars

-----------------------------------------------------------------------------
(***************************************************************************)
(* Types.                                                                  *)
(***************************************************************************)
TypeOK ==
  /\ status \in [Payout -> Committed \cup {"SETTLED", "FAILED"}]
  /\ amount \in [Payout -> Locks]
  /\ sig \in [Payout -> [seq : Nat \cup {-1}, amt : Locks \cup {0}]]
  /\ wallet \in [row : BOOLEAN, current : Nat, next : Nat, confirmed : Nat \cup {-1}]
  /\ alloc \in [Payout -> [seq : Nat \cup {-1}, st : AllocStatus]]
  /\ request \in [Payout -> [st : {"NONE", "CLAIMED", "COMPLETED", "FAILED_RETRYABLE"},
                             amt : Locks \cup {0}, token : Worker \cup {Idle}, lease : BOOLEAN]]
  /\ issued \subseteq [p : Payout, seq : Nat, amt : Locks] /\ expired \subseteq Payout
  /\ message \in [Payout -> {"NONE", "PENDING", "LANDED", "DROPPED"}] /\ onChain \in Nat
  /\ task \in [Worker -> [at : {"idle", "claim", "kms", "complete", "record", "send",
                                "accepted", "ambiguous", "rejected"},
                          p : Payout \cup {Idle}, amt : Locks \cup {0}]]

(***************************************************************************)
(* Safety.                                                                 *)
(***************************************************************************)

(* No two payouts are ever signed for the same sequence number: one of     *)
(* them would be refused by the wallet after it had been promised          *)
(* (TonSeqnoManager.allocate).                                             *)
NumbersDistinct ==
  \A a, b \in issued : a.seq = b.seq => a.p = b.p

(* However often a payout is signed, by however many workers whose leases  *)
(* ran out and at whatever rate it was locked meanwhile, every signature   *)
(* covers the same number and the same amount, so that only one of them    *)
(* can ever move money (the immutable intent of AwsKmsEd25519Signer.sign). *)
OneIntent ==
  \A a, b \in issued : a.p = b.p => a = b

(* A message leaves only in turn: everything numbered before it has landed *)
(* when it is posted, so the wallet never refuses it for its number (the   *)
(* ordered broadcast gate).                                                *)
InTurn ==
  \A p \in Payout : message[p] # "NONE" =>
    \A q \in Predecessors(p) : message[q] = "LANDED"

(* The wallet row never runs ahead of the chain: what it calls confirmed   *)
(* has landed, and it expects no number the contract does not expect.      *)
RowBehindChain ==
  /\ wallet.row => wallet.current <= onChain /\ wallet.confirmed < onChain
  /\ \A p \in Payout : alloc[p].st = "CONFIRMED" => message[p] = "LANDED"

(* Sequence numbers are kept: types, no number given to two live transfers,*)
(* and a row that never runs ahead of the contract (seqno-manager.ts).     *)
NumbersAreKept == TypeOK /\ NumbersDistinct /\ RowBehindChain

(* A finished signing request is final: no worker whose lease ran out      *)
(* takes it back, and its signature stays the one that was handed out.     *)
CompletedIsFinal ==
  [][\A p \in Payout : request[p].st = "COMPLETED" => request'[p] = request[p]]_vars

(***************************************************************************)
(* Leases, tokens, numbers and the gate keep the promise of                *)
(* TransferPromise.  A figure is what a signature covers: with another     *)
(* number, or another amount, it would be another transfer.                *)
(***************************************************************************)
SignaturesFor(p) == {s \in issued : s.p = p}
CarriedOf(p) ==
  IF message[p] = "NONE" THEN {} ELSE {[p |-> p, seq |-> sig[p].seq, amt |-> sig[p].amt]}
FateOf(p) ==
  CASE message[p] = "PENDING" -> "SENT"
    [] message[p] = "DROPPED" -> "LOST"
    [] OTHER                  -> message[p]

Promise == INSTANCE TransferPromise WITH
  covered <- [p \in Payout |-> SignaturesFor(p)],
  carried <- [p \in Payout |-> CarriedOf(p)],
  fate    <- [p \in Payout |-> FateOf(p)],
  paid    <- {p \in Payout : status[p] = "SETTLED"}

(* Whatever leases run out, whoever signs late and whatever is locked anew *)
(* meanwhile, whatever leaves carries the one figure the payout was ever   *)
(* signed for, so that a message posted again after a failed lookup is the *)
(* same message; and only a payout whose message landed counts as paid     *)
(* (AwsKmsEd25519Signer.sign, broadcastPayout, settlePayout).              *)
KeepsTransferPromise == Promise!Spec
=============================================================================
