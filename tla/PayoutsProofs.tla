--------------------------- MODULE PayoutsProofs ---------------------------
(***************************************************************************)
(* Theorems about Payouts, for any merchants, payouts, workers, amounts    *)
(* and rates, and whatever the environment does.                           *)
(***************************************************************************)
EXTENDS Treasury, Sums, TLAPS

(***************************************************************************)
(* The inductive invariant.  TypeOK is not inductive alone: SETTLING stays *)
(* a natural number only because it is what the one payout under way owes, *)
(* and what a worker settles on is evidence only because it remembers.     *)
(***************************************************************************)
Inv ==
  /\ TypeOK
  /\ OneInFlight
  /\ SettlingIsOwed
  /\ SettledOnEvidence
  /\ ActiveOnlyInFlight
  /\ WorkersRemember

(* The groups of variables are only names for tuples. *)
USE DEF payoutVars, treasuryVars, ledgerVars, partyVars, worldVars

-----------------------------------------------------------------------------
(* Helpers. *)

(* Every payout belongs to a merchant. *)
LEMMA OwnerIsMerchant ==
  ASSUME NEW p \in Payout
  PROVE  Owner[p] \in Merchant
BY OwnerAssumption DEF OwnerAssumption

(* A worker that is not idle works on a payout. *)
LEMMA TaskOfWorker ==
  ASSUME TypeOK, WorkersRemember, NEW w \in Worker, task[w].at # "idle"
  PROVE  task[w] \in Task /\ task[w].p \in Payout
BY DEF TypeOK, WorkersRemember, Remembers

(* What an idle worker holds has the type of what a worker holds. *)
LEMMA IdleIsTask == Idle \in Task
BY DEF Idle, Task, Stage, Status, Answer

(* Steps that neither start nor end a payout leave what is owed alone. *)
LEMMA OwedUnchanged ==
  ASSUME OneInFlight, SettlingIsOwed,
         amount' = amount, settling' = settling,
         \A q \in Payout : IsLive(q)' <=> IsLive(q)
  PROVE  OneInFlight' /\ SettlingIsOwed'
<1>1. OneInFlight'
  BY DEF OneInFlight
<1>2. SettlingIsOwed'
  BY DEF SettlingIsOwed
<1> QED BY <1>1, <1>2

(* Ending the payout under way empties the SETTLING bucket exactly. *)
LEMMA OwedEnds ==
  ASSUME TypeOK, OneInFlight, SettlingIsOwed,
         NEW p \in Payout, IsLive(p), NEW s \in {"SETTLED", "FAILED"},
         status' = [status EXCEPT ![p] = s], amount' = amount,
         settling' = [settling EXCEPT ![Owner[p]] = @ - amount[p]]
  PROVE  /\ settling' \in [Merchant -> Nat]
         /\ OneInFlight'
         /\ SettlingIsOwed'
<1>1. Owner[p] \in Merchant /\ settling[Owner[p]] = amount[p]
  BY OwnerIsMerchant DEF SettlingIsOwed
<1>2. settling' = [settling EXCEPT ![Owner[p]] = 0]
  <2>1. settling[Owner[p]] - amount[p] = 0
    BY <1>1 DEF TypeOK
  <2> QED BY <2>1
<1>3. \A q \in Payout : IsLive(q)' <=> IsLive(q) /\ q # p
  BY DEF TypeOK, IsLive, Live, Status
<1>4. OneInFlight'
  BY <1>3 DEF OneInFlight
<1>5. SettlingIsOwed'
  <2> SUFFICES ASSUME NEW m \in Merchant
               PROVE  /\ \A q \in Payout : Owner[q] = m /\ IsLive(q)' => settling'[m] = amount[q]
                      /\ (\A q \in Payout : Owner[q] = m => ~IsLive(q)') => settling'[m] = 0
    BY DEF SettlingIsOwed
  <2>1. CASE m = Owner[p]
    BY <1>1, <1>2, <1>3, <2>1 DEF TypeOK, OneInFlight
  <2>2. CASE m # Owner[p]
    BY <1>2, <1>3, <2>2 DEF TypeOK, SettlingIsOwed
  <2> QED BY <2>1, <2>2
<1>6. settling' \in [Merchant -> Nat]
  BY <1>1, <1>2 DEF TypeOK
<1> QED BY <1>4, <1>5, <1>6

(* The memory of the workers survives a step that keeps landed transfers   *)
(* and decisions, and gives the worker it moves something true to hold.    *)
LEMMA MemoryKept ==
  ASSUME WorkersRemember, NEW w \in Worker,
         \A q \in Payout : chain[q].st = "LANDED" => chain'[q] = chain[q],
         \A q \in Payout : Decided(q) => Decided(q)',
         \A v \in Worker \ {w} : task'[v] = task[v],
         Remembers(task[w])'
  PROVE  WorkersRemember'
<1> SUFFICES ASSUME NEW v \in Worker, v # w
             PROVE  Remembers(task[v])'
  BY DEF WorkersRemember
<1> QED
  BY DEF WorkersRemember, Remembers

(* What is left of the invariant when the books and the chain stand still. *)
LEMMA BooksUnchanged ==
  ASSUME Inv, TypeOK', WorkersRemember',
         UNCHANGED <<status, amount, gram, settling, reserv, chain>>
  PROVE  Inv'
<1>1. \A q \in Payout : IsLive(q)' <=> IsLive(q)
  BY DEF IsLive
<1>2. OneInFlight' /\ SettlingIsOwed'
  BY <1>1, OwedUnchanged DEF Inv
<1>3. SettledOnEvidence' /\ ActiveOnlyInFlight'
  BY DEF Inv, SettledOnEvidence, ActiveOnlyInFlight, IsActive
<1> QED BY <1>2, <1>3 DEF Inv

-----------------------------------------------------------------------------
(* Steps of the workers that touch nothing but what a worker holds, and    *)
(* the age of the row.                                                     *)

(* signPayout's validating transaction preserves the invariant. *)
LEMMA SignValidateStep ==
  ASSUME Inv, NEW w \in Worker, NEW p \in Payout, SignValidate(w, p)
  PROVE  Inv'
<1>1. TypeOK'
  BY DEF Inv, TypeOK, SignValidate, Begin, Idle, Task, Stage, Answer, Status
<1>2. WorkersRemember'
  BY MemoryKept DEF Inv, TypeOK, SignValidate, Begin, Idle, Remembers, Decided
<1> QED BY <1>1, <1>2, BooksUnchanged DEF SignValidate

(* broadcastPayout's validating transaction preserves it. *)
LEMMA BroadcastValidateStep ==
  ASSUME Inv, NEW w \in Worker, NEW p \in Payout, BroadcastValidate(w, p)
  PROVE  Inv'
<1>1. TypeOK'
  BY DEF Inv, TypeOK, BroadcastValidate, Begin, Idle, Task, Stage, Answer, Status
<1>2. WorkersRemember'
  BY MemoryKept DEF Inv, TypeOK, BroadcastValidate, Begin, Idle, Remembers, Decided
<1> QED BY <1>1, <1>2, BooksUnchanged DEF BroadcastValidate

(* A worker that asks the chain remembers what the chain then says. *)
LEMMA ObserveStep ==
  ASSUME Inv, NEW w \in Worker, NEW p \in Payout, NEW use \in {"advance", "reconcile"},
         NEW statuses, Observe(w, p, use, statuses)
  PROVE  Inv'
<1>1. TypeOK'
  BY DEF Inv, TypeOK, Observe, Begin, Task, Stage, Answer, Transfer
<1>2. WorkersRemember'
  BY MemoryKept DEF Inv, TypeOK, Observe, Begin, CanAnswer, Remembers, Decided
<1> QED BY <1>1, <1>2, BooksUnchanged DEF Observe

(* The signer's answer touches neither the books nor the chain. *)
LEMMA SignerSignStep ==
  ASSUME Inv, NEW w \in Worker, SignerSign(w)
  PROVE  Inv'
<1>0. task[w] \in Task /\ task[w].p \in Payout
  BY TaskOfWorker DEF Inv, SignerSign
<1>1. TypeOK'
  BY <1>0 DEF Inv, TypeOK, SignerSign, Goto, Task, Stage
<1>2. WorkersRemember'
  BY <1>0, MemoryKept DEF Inv, TypeOK, SignerSign, Goto, Task, Remembers, Decided
<1> QED BY <1>1, <1>2, BooksUnchanged DEF SignerSign

(* Looking the idempotency key up touches neither of them. *)
LEMMA SendLookupStep ==
  ASSUME Inv, NEW w \in Worker, SendLookup(w)
  PROVE  Inv'
<1>0. task[w] \in Task /\ task[w].p \in Payout
  BY TaskOfWorker DEF Inv, SendLookup
<1>1. TypeOK'
  BY <1>0, SMTT(30) DEF Inv, TypeOK, SendLookup, Goto, Task, Stage
<1>2. WorkersRemember'
  BY <1>0, MemoryKept, SMTT(30) DEF Inv, TypeOK, SendLookup, Goto, Task, Remembers, Decided
<1> QED BY <1>1, <1>2, BooksUnchanged DEF SendLookup

(* A worker that lets go, because nothing is to be done or because it      *)
(* dies, forgets what it held.                                             *)
LEMMA LetGoStep ==
  ASSUME Inv, NEW w \in Worker, StillUnknown(w) \/ Crash(w)
  PROVE  Inv'
<1>0. Done(w) /\ UNCHANGED <<payoutVars, treasuryVars, ledgerVars, partyVars, worldVars>>
  BY DEF StillUnknown, Crash
<1>1. TypeOK'
  BY <1>0, IdleIsTask DEF Inv, TypeOK, Done
<1>2. WorkersRemember'
  BY <1>0, MemoryKept DEF Inv, TypeOK, Done, Idle, Remembers, Decided
<1> QED BY <1>0, <1>1, <1>2, BooksUnchanged

(* A worker that looks at the clock late forgets nothing.                  *)
LEMMA ReconcileAgesStep ==
  ASSUME Inv, NEW w \in Worker, ReconcileAges(w)
  PROVE  Inv'
<1>0. task[w] \in Task /\ task[w].p \in Payout
  BY TaskOfWorker DEF Inv, ReconcileAges
<1>1. TypeOK'
  <2>1. [task[w] EXCEPT !.old = TRUE] \in Task
    BY <1>0 DEF Task
  <2> QED BY <2>1 DEF Inv, TypeOK, ReconcileAges, Goto
<1>2. WorkersRemember'
  BY <1>0, MemoryKept DEF Inv, TypeOK, ReconcileAges, Goto, Task, Remembers, Decided
<1> QED BY <1>1, <1>2, BooksUnchanged DEF ReconcileAges

-----------------------------------------------------------------------------
(* Steps that move a payout along, or change its reservation. *)

(* queuePayoutForMerchant moves the net amount to an empty SETTLING bucket *)
(* of a merchant with nothing under way.                                   *)
LEMMA QueueGrossStep ==
  ASSUME Inv, NEW p \in Payout, NEW gross \in Nat, NEW charge \in Nat,
         QueueGross(p, gross, charge)
  PROVE  Inv'
<1>0. Owner[p] \in Merchant /\ status[p] = "NONE"
  BY OwnerIsMerchant DEF QueueGross
<1>1. TypeOK'
  <2>1. /\ (available \in [Merchant -> Nat])'
        /\ (settling \in [Merchant -> Nat])'
    BY <1>0 DEF Inv, TypeOK, QueueGross
  <2>2. /\ (status \in [Payout -> Status])'
        /\ (aged \in [Payout -> BOOLEAN])'
        /\ (amount \in [Payout -> Nat])'
        /\ (fee \in [Payout -> Nat])'
        /\ (dest \in [Payout -> Address \cup {NoAddress}])'
        /\ revenue' \in Int
    BY <1>0 DEF Inv, TypeOK, QueueGross, MoveTo, Status
  <2> QED BY <2>1, <2>2 DEF Inv, TypeOK, QueueGross
<1>2. \A q \in Payout : Owner[q] = Owner[p] => ~IsLive(q)
  BY DEF Inv, TypeOK, QueueGross, IndexedInFlight, KnownInFlight, IsLive, Live, Status
<1>3. \A q \in Payout : IsLive(q)' <=> IsLive(q) \/ q = p
  BY DEF Inv, TypeOK, QueueGross, MoveTo, IsLive, Live, Status
<1>4. OneInFlight'
  BY <1>2, <1>3 DEF Inv, OneInFlight
<1>5. SettlingIsOwed'
  <2>1. settling[Owner[p]] = 0
    BY <1>0, <1>2 DEF Inv, SettlingIsOwed
  <2>2. settling' = [settling EXCEPT ![Owner[p]] = gross - charge]
        /\ amount' = [amount EXCEPT ![p] = gross - charge]
    <3>1. settling[Owner[p]] + (gross - charge) = gross - charge
      BY <2>1
    <3> QED BY <3>1 DEF QueueGross
  <2> SUFFICES ASSUME NEW m \in Merchant
               PROVE  /\ \A q \in Payout : Owner[q] = m /\ IsLive(q)' => settling'[m] = amount'[q]
                      /\ (\A q \in Payout : Owner[q] = m => ~IsLive(q)') => settling'[m] = 0
    BY DEF SettlingIsOwed
  <2>3. CASE m = Owner[p]
    BY <1>0, <1>2, <1>3, <2>2, <2>3 DEF Inv, TypeOK
  <2>4. CASE m # Owner[p]
    BY <1>3, <2>2, <2>4 DEF Inv, TypeOK, SettlingIsOwed
  <2> QED BY <2>3, <2>4
<1>6. SettledOnEvidence' /\ ActiveOnlyInFlight'
  BY <1>0 DEF Inv, TypeOK, QueueGross, MoveTo, SettledOnEvidence, ActiveOnlyInFlight,
              IsActive, PayoutInFlight
<1>7. WorkersRemember'
  BY <1>0 DEF Inv, TypeOK, QueueGross, MoveTo, WorkersRemember, Remembers, Decided
<1> QED BY <1>1, <1>4, <1>5, <1>6, <1>7 DEF Inv

(* A payout that only changes its stage keeps what is owed. *)
LEMMA StageMoves ==
  ASSUME Inv, NEW p \in Payout, IsLive(p), NEW s \in Live,
         status' = [status EXCEPT ![p] = s], UNCHANGED <<amount, settling>>
  PROVE  OneInFlight' /\ SettlingIsOwed'
<1>1. \A q \in Payout : IsLive(q)' <=> IsLive(q)
  BY DEF Inv, TypeOK, IsLive, Live
<1> QED BY <1>1, OwedUnchanged DEF Inv

(* lockPayoutRate freezes a figure of a payout that holds no reservation. *)
LEMMA LockPayoutRateStep ==
  ASSUME Inv, NEW p \in Payout, NEW rate \in Rates, LockPayoutRate(p, rate)
  PROVE  Inv'
<1>1. TypeOK'
  BY AmountAssumption
     DEF AmountAssumption, Inv, TypeOK, LockPayoutRate, Lockable, MoveTo, Status
<1>2. OneInFlight' /\ SettlingIsOwed'
  BY StageMoves DEF LockPayoutRate, Lockable, MoveTo, IsLive, Live, Status
<1>3. SettledOnEvidence' /\ ActiveOnlyInFlight'
  BY DEF Inv, TypeOK, LockPayoutRate, Lockable, MoveTo, SettledOnEvidence, ActiveOnlyInFlight,
         IsActive, PayoutInFlight
<1>4. WorkersRemember'
  BY DEF Inv, TypeOK, LockPayoutRate, Lockable, MoveTo, WorkersRemember, Remembers, Decided
<1> QED BY <1>1, <1>2, <1>3, <1>4 DEF Inv

(* reservePayoutLiquidity makes a reservation only for a payout it moves   *)
(* in flight, and a waiting payout gets none.                              *)
LEMMA ReservePayoutLiquidityStep ==
  ASSUME Inv, NEW p \in Payout, ReservePayoutLiquidity(p)
  PROVE  Inv'
<1>1. PICK s \in {"WAITING_LIQUIDITY", "RESERVED"} :
        /\ status[p] = "RATE_LOCKED"
        /\ MoveTo(p, s)
        /\ \/ reserv' = reserv
           \/ /\ s = "RESERVED"
              /\ reserv' = [reserv EXCEPT ![p] = [st |-> "ACTIVE", amt |-> gram[p], lapsed |-> FALSE]]
        /\ UNCHANGED <<amount, fee, gram, dest, hash, exception, confirmed, funded,
                       ledgerVars, partyVars, worldVars, task>>
  BY DEF ReservePayoutLiquidity
<1>2. TypeOK'
  <2>1. [st |-> "ACTIVE", amt |-> gram[p], lapsed |-> FALSE] \in Reservation
    BY DEF Inv, TypeOK, Reservation
  <2> QED BY <1>1, <2>1, ZenonT(40) DEF Inv, TypeOK, MoveTo, Status
<1>3. OneInFlight' /\ SettlingIsOwed'
  BY <1>1, StageMoves DEF MoveTo, IsLive, Live, Status
<1>4. SettledOnEvidence'
  BY <1>1 DEF Inv, TypeOK, MoveTo, SettledOnEvidence
<1>5. ActiveOnlyInFlight'
  BY <1>1 DEF Inv, TypeOK, MoveTo, ActiveOnlyInFlight, IsActive, PayoutInFlight
<1>6. WorkersRemember'
  BY <1>1 DEF Inv, TypeOK, MoveTo, WorkersRemember, Remembers, Decided
<1> QED BY <1>2, <1>3, <1>4, <1>5, <1>6 DEF Inv

(* expireStaleReservations takes a payout back only together with its      *)
(* reservation.                                                            *)
LEMMA ExpireStaleReservationsStep ==
  ASSUME Inv, ExpireStaleReservations
  PROVE  Inv'
<1> DEFINE back == {p \in Payout : IsActive(p) /\ reserv[p].lapsed /\ status[p] = "RESERVED"}
<1>1. /\ status' = [p \in Payout |-> IF p \in back THEN "RATE_LOCKED" ELSE status[p]]
      /\ aged' = [p \in Payout |-> IF p \in back THEN FALSE ELSE aged[p]]
      /\ reserv' = [p \in Payout |-> IF IsActive(p) /\ reserv[p].lapsed
                                      THEN [reserv[p] EXCEPT !.st = "EXPIRED"] ELSE reserv[p]]
      /\ UNCHANGED <<amount, fee, gram, dest, hash, exception, confirmed, funded,
                     ledgerVars, partyVars, worldVars, task>>
  BY DEF ExpireStaleReservations, Stale
<1>2. TypeOK'
  <2>1. (status \in [Payout -> Status])' /\ (aged \in [Payout -> BOOLEAN])'
    BY <1>1 DEF Inv, TypeOK, Status
  <2>2. (reserv \in [Payout -> Reservation])'
    BY <1>1, ZenonT(40) DEF Inv, TypeOK, Reservation
  <2> QED BY <1>1, <2>1, <2>2 DEF Inv, TypeOK
<1>3. OneInFlight' /\ SettlingIsOwed'
  <2>1. \A q \in Payout : IsLive(q)' <=> IsLive(q)
    BY <1>1 DEF IsLive, Live, Status
  <2> QED BY <1>1, <2>1, OwedUnchanged DEF Inv
<1>4. SettledOnEvidence'
  BY <1>1 DEF Inv, SettledOnEvidence
<1>5. ActiveOnlyInFlight'
  BY <1>1 DEF Inv, TypeOK, Reservation, ActiveOnlyInFlight, IsActive
<1>6. WorkersRemember'
  BY <1>1 DEF Inv, WorkersRemember, Remembers, Decided
<1> QED BY <1>2, <1>3, <1>4, <1>5, <1>6 DEF Inv

-----------------------------------------------------------------------------
(* Steps with which a worker records an outcome short of a decision. *)

(* A worker that moves a payout between live stages, or leaves it, and     *)
(* then lets go.                                                           *)
LEMMA RecordStage ==
  ASSUME Inv, NEW w \in Worker, NEW p \in Payout, NEW s \in Live,
         \/ IsLive(p) /\ MoveTo(p, s) /\ (IsActive(p) => s \in PayoutInFlight)
         \/ UNCHANGED <<status, aged>>,
         Done(w), exception' = exception, hash' \in [Payout -> BOOLEAN],
         UNCHANGED <<amount, fee, gram, dest, treasuryVars, ledgerVars, partyVars, worldVars>>
  PROVE  Inv'
<1>1. TypeOK'
  <2>1. Idle \in Task
    BY IdleIsTask
  <2>2. (status \in [Payout -> Status])' /\ (aged \in [Payout -> BOOLEAN])'
    BY ZenonT(40) DEF Inv, TypeOK, MoveTo, Live
  <2> QED BY <2>1, <2>2 DEF Inv, TypeOK, Done
<1>2. OneInFlight' /\ SettlingIsOwed'
  <2>1. CASE UNCHANGED <<status, aged>>
    BY <2>1, OwedUnchanged DEF Inv, IsLive
  <2>2. CASE IsLive(p) /\ MoveTo(p, s)
    BY <2>2, StageMoves DEF MoveTo
  <2> QED BY <2>1, <2>2
<1>3. SettledOnEvidence'
  BY DEF Inv, TypeOK, MoveTo, Live, SettledOnEvidence
<1>4. ActiveOnlyInFlight'
  BY DEF Inv, TypeOK, MoveTo, ActiveOnlyInFlight, IsActive
<1>5. WorkersRemember'
  BY MemoryKept DEF Inv, TypeOK, MoveTo, Done, Idle, Remembers, Decided, IsLive, Live
<1> QED BY <1>1, <1>2, <1>3, <1>4, <1>5 DEF Inv

(* signPayout's recording transaction only moves a payout that is still    *)
(* RESERVED.                                                               *)
LEMMA SignRecordStep ==
  ASSUME Inv, NEW w \in Worker, SignRecord(w)
  PROVE  Inv'
<1>1. task[w].p \in Payout
  BY TaskOfWorker DEF Inv, SignRecord
<1>2. "SIGNED" \in Live /\ "SIGNED" \in PayoutInFlight
  BY DEF Live, Status, PayoutInFlight
<1> QED BY <1>1, <1>2, RecordStage DEF SignRecord, IsLive, Live, Status, Inv, TypeOK

(* broadcastPayout's recording transaction only moves one that is still    *)
(* SIGNED.                                                                 *)
LEMMA BroadcastRecordStep ==
  ASSUME Inv, NEW w \in Worker, BroadcastRecord(w)
  PROVE  Inv'
<1>1. task[w].p \in Payout
  BY TaskOfWorker DEF Inv, BroadcastRecord
<1>2. "BROADCASTED" \in Live /\ "BROADCASTED" \in PayoutInFlight
  BY DEF Live, Status, PayoutInFlight
<1> QED BY <1>1, <1>2, RecordStage DEF BroadcastRecord, IsLive, Live, Status, Inv, TypeOK

(* markConfirming only moves one that is still BROADCASTED. *)
LEMMA MarkConfirmingStep ==
  ASSUME Inv, NEW w \in Worker, MarkConfirming(w)
  PROVE  Inv'
<1>1. task[w].p \in Payout
  BY TaskOfWorker DEF Inv, MarkConfirming
<1>2. "CONFIRMING" \in Live /\ "CONFIRMING" \in PayoutInFlight
  BY DEF Live, Status, PayoutInFlight
<1> QED BY <1>1, <1>2, RecordStage DEF MarkConfirming, IsLive, Live, Status, Inv, TypeOK

(* An ambiguous send opens an exception together with the status.          *)
LEMMA MarkUnknownStep ==
  ASSUME Inv, NEW w \in Worker, MarkUnknown(w)
  PROVE  Inv'
<1>0. task[w] \in Task /\ task[w].p \in Payout
  BY TaskOfWorker DEF Inv, MarkUnknown
<1> DEFINE p == task[w].p
<1>1. CASE status[p] \in {"RESERVED", "SIGNED", "BROADCASTED", "CONFIRMING"}
  <2>1. MoveTo(p, "UNKNOWN") /\ exception' = [exception EXCEPT ![p] = TRUE] /\ Done(w)
        /\ UNCHANGED <<amount, fee, gram, dest, hash, treasuryVars, ledgerVars,
                       partyVars, worldVars>>
    BY <1>1 DEF MarkUnknown
  <2>2. TypeOK'
    BY <1>0, <2>1, IdleIsTask DEF Inv, TypeOK, MoveTo, Done, Status
  <2>3. OneInFlight' /\ SettlingIsOwed'
    BY <1>0, <1>1, <2>1, StageMoves DEF MoveTo, IsLive, Live, Status
  <2>4. SettledOnEvidence'
    BY <1>0, <2>1 DEF Inv, TypeOK, MoveTo, SettledOnEvidence
  <2>5. ActiveOnlyInFlight'
    BY <1>0, <2>1 DEF Inv, TypeOK, MoveTo, ActiveOnlyInFlight, IsActive, PayoutInFlight
  <2>6. WorkersRemember'
    BY <1>0, <1>1, <2>1, MemoryKept DEF Inv, TypeOK, MoveTo, Done, Idle, Remembers, Decided
  <2> QED BY <2>2, <2>3, <2>4, <2>5, <2>6 DEF Inv
<1>2. CASE status[p] \notin {"RESERVED", "SIGNED", "BROADCASTED", "CONFIRMING"}
  <2>1. UNCHANGED <<status, aged, exception>> /\ Done(w)
        /\ UNCHANGED <<amount, fee, gram, dest, hash, treasuryVars, ledgerVars,
                       partyVars, worldVars>>
    BY <1>2 DEF MarkUnknown
  <2>2. "SIGNED" \in Live
    BY DEF Live, Status
  <2> QED BY <1>0, <2>1, <2>2, RecordStage DEF Inv, TypeOK
<1> QED BY <1>1, <1>2

(* The first of the two transactions that return the money of an           *)
(* ambiguous payout only moves it back into the pipeline.                  *)
LEMMA ReconcileResetStep ==
  ASSUME Inv, NEW w \in Worker, ReconcileReset(w)
  PROVE  Inv'
<1>0. task[w] \in Task /\ task[w].p \in Payout
  BY TaskOfWorker DEF Inv, ReconcileReset
<1>1. TypeOK'
  BY <1>0 DEF Inv, TypeOK, ReconcileReset, MoveTo, Goto, Task, Stage, Status
<1>2. OneInFlight' /\ SettlingIsOwed'
  <2>1. CASE UNCHANGED status
    BY <2>1, OwedUnchanged DEF Inv, ReconcileReset, IsLive
  <2>2. CASE status[task[w].p] = "UNKNOWN" /\ MoveTo(task[w].p, "RESERVED")
    BY <1>0, <2>2, StageMoves DEF ReconcileReset, MoveTo, IsLive, Live, Status
  <2> QED BY <2>1, <2>2 DEF ReconcileReset
<1>3. SettledOnEvidence' /\ ActiveOnlyInFlight'
  BY <1>0 DEF Inv, TypeOK, ReconcileReset, MoveTo, SettledOnEvidence, ActiveOnlyInFlight,
              IsActive, PayoutInFlight
<1>4. WorkersRemember'
  BY <1>0, MemoryKept DEF Inv, TypeOK, Task, ReconcileReset, MoveTo, Goto, Remembers, Decided
<1> QED BY <1>1, <1>2, <1>3, <1>4 DEF Inv

(* Resolving the exceptions of a payout leaves everything else alone.      *)
LEMMA ResolveExceptionsStep ==
  ASSUME Inv, NEW w \in Worker, ResolveExceptions(w)
  PROVE  Inv'
<1>1. TypeOK'
  BY IdleIsTask DEF Inv, TypeOK, ResolveExceptions, Done
<1>2. OneInFlight' /\ SettlingIsOwed'
  BY OwedUnchanged DEF Inv, ResolveExceptions, IsLive
<1>3. SettledOnEvidence' /\ ActiveOnlyInFlight'
  BY DEF Inv, ResolveExceptions, SettledOnEvidence, ActiveOnlyInFlight, IsActive
<1>4. WorkersRemember'
  BY MemoryKept DEF Inv, TypeOK, ResolveExceptions, Done, Idle, Remembers, Decided
<1> QED BY <1>1, <1>2, <1>3, <1>4 DEF Inv

-----------------------------------------------------------------------------
(* The ends of a payout. *)

(* Where a worker may be after the payout p it works on is decided. *)
AfterDecision(w, p) ==
  \/ Done(w)
  \/ task[w].p = p /\ Goto(w, [task[w] EXCEPT !.at = "resolve"])

(* failPayout empties the SETTLING bucket, releases the reservation and    *)
(* leaves no exception of an UNKNOWN payout behind.                        *)
LEMMA FailPayoutStep ==
  ASSUME Inv, NEW w \in Worker, NEW p \in Payout, Failable(p), FailPayout(p),
         task[w] \in Task, AfterDecision(w, p),
         UNCHANGED <<amount, fee, gram, dest, hash, exception, confirmed, funded,
                     clearing, partyVars, worldVars>>
  PROVE  Inv'
<1>0. Owner[p] \in Merchant /\ IsLive(p)
  BY OwnerIsMerchant DEF Inv, TypeOK, Failable, IsLive, Live, Status
<1>1. /\ (settling \in [Merchant -> Nat])'
      /\ OneInFlight'
      /\ SettlingIsOwed'
  BY <1>0, OwedEnds DEF Inv, FailPayout, Refund, EndReservation, MoveTo
<1>2. TypeOK'
  <2>1. (available \in [Merchant -> Nat])' /\ revenue' \in Int
    BY <1>0 DEF Inv, TypeOK, FailPayout, Refund, EndReservation
  <2>2. (reserv \in [Payout -> Reservation])'
    BY ZenonT(40) DEF Inv, TypeOK, FailPayout, Refund, EndReservation, IsActive, Reservation
  <2>3. (task \in [Worker -> Task])'
    <3>1. [task[w] EXCEPT !.at = "resolve"] \in Task
      BY DEF Task, Stage
    <3> QED BY <3>1, IdleIsTask DEF Inv, TypeOK, AfterDecision, Done, Goto
  <2>4. (status \in [Payout -> Status])' /\ (aged \in [Payout -> BOOLEAN])'
    BY DEF Inv, TypeOK, FailPayout, Refund, EndReservation, MoveTo, Status
  <2> QED BY <1>1, <2>1, <2>2, <2>3, <2>4 DEF Inv, TypeOK
<1>3. SettledOnEvidence'
  BY DEF Inv, TypeOK, FailPayout, Refund, EndReservation, MoveTo, SettledOnEvidence
<1>4. ActiveOnlyInFlight'
  BY DEF Inv, TypeOK, FailPayout, Refund, EndReservation, MoveTo, ActiveOnlyInFlight, IsActive, Reservation
<1>5. WorkersRemember'
  <2>1. \A q \in Payout : Decided(q) => Decided(q)'
    BY <1>0 DEF Inv, TypeOK, FailPayout, Refund, EndReservation, MoveTo, Decided
  <2>2. Decided(p)'
    BY DEF Inv, TypeOK, FailPayout, Refund, EndReservation, MoveTo, Decided
  <2>3. Remembers(task[w])' /\ \A v \in Worker \ {w} : task'[v] = task[v]
    <3>1. CASE Done(w)
      BY <3>1 DEF Inv, TypeOK, Done, Idle, Remembers
    <3>2. CASE task[w].p = p /\ Goto(w, [task[w] EXCEPT !.at = "resolve"])
      <4>1. task'[w].at = "resolve" /\ task'[w].p = p
        BY <3>2 DEF Inv, TypeOK, Goto, Task
      <4> QED BY <2>2, <3>2, <4>1 DEF Inv, TypeOK, Goto, Remembers, Decided
    <3> QED BY <3>1, <3>2 DEF AfterDecision
  <2> QED BY <2>1, <2>3, MemoryKept DEF Inv
<1> QED BY <1>1, <1>2, <1>3, <1>4, <1>5 DEF Inv

(* settlePayout, on evidence of a transfer that landed, does the same with *)
(* the reservation consumed.                                               *)
LEMMA SettlePayoutStep ==
  ASSUME Inv, NEW w \in Worker, NEW p \in Payout,
         Settleable(p, task[w].amt), SettlePayout(p),
         chain[p].st = "LANDED", chain[p].amt = task[w].amt,
         task[w] \in Task, AfterDecision(w, p),
         UNCHANGED <<amount, fee, gram, dest, exception, funded, available, revenue,
                     partyVars, worldVars>>
  PROVE  Inv'
<1>0. IsLive(p)
  BY DEF Inv, TypeOK, Settleable, IsLive, Live, Status
<1>1. /\ (settling \in [Merchant -> Nat])'
      /\ OneInFlight'
      /\ SettlingIsOwed'
  BY <1>0, OwedEnds DEF Inv, SettlePayout, EndReservation, MoveTo
<1>2. TypeOK'
  <2>1. clearing' \in Nat /\ confirmed' \in Nat
    BY DEF Inv, TypeOK, SettlePayout, EndReservation, Settleable, Transfer
  <2>2. (reserv \in [Payout -> Reservation])'
    BY ZenonT(40) DEF Inv, TypeOK, SettlePayout, EndReservation, IsActive, Reservation
  <2>3. (task \in [Worker -> Task])'
    <3>1. [task[w] EXCEPT !.at = "resolve"] \in Task
      BY DEF Task, Stage
    <3> QED BY <3>1, IdleIsTask DEF Inv, TypeOK, AfterDecision, Done, Goto
  <2>4. /\ (status \in [Payout -> Status])'
        /\ (aged \in [Payout -> BOOLEAN])' /\ (hash \in [Payout -> BOOLEAN])'
    BY DEF Inv, TypeOK, SettlePayout, EndReservation, MoveTo, Status
  <2> QED BY <1>1, <2>1, <2>2, <2>3, <2>4 DEF Inv, TypeOK
<1>3. SettledOnEvidence'
  BY DEF Inv, TypeOK, Settleable, SettlePayout, EndReservation, MoveTo, SettledOnEvidence
<1>4. ActiveOnlyInFlight'
  BY DEF Inv, TypeOK, SettlePayout, EndReservation, MoveTo, ActiveOnlyInFlight, IsActive, Reservation
<1>5. WorkersRemember'
  <2>1. (\A q \in Payout : Decided(q) => Decided(q)') /\ Decided(p)'
    BY DEF Inv, TypeOK, SettlePayout, EndReservation, MoveTo, Decided
  <2>2. Remembers(task[w])' /\ \A v \in Worker \ {w} : task'[v] = task[v]
    <3>1. CASE Done(w)
      BY <3>1 DEF Inv, TypeOK, Done, Idle, Remembers
    <3>2. CASE task[w].p = p /\ Goto(w, [task[w] EXCEPT !.at = "resolve"])
      <4>1. task'[w].at = "resolve" /\ task'[w].p = p
        BY <3>2 DEF Inv, TypeOK, Goto, Task
      <4> QED BY <2>1, <3>2, <4>1 DEF Inv, TypeOK, Goto, Remembers, Decided
    <3> QED BY <3>1, <3>2 DEF AfterDecision
  <2> QED BY <2>1, <2>2, MemoryKept DEF Inv
<1> QED BY <1>1, <1>2, <1>3, <1>4, <1>5 DEF Inv

(* A worker that finds the payout past settling or failing: nothing moves, *)
(* and it goes on to resolve only what is decided.                         *)
LEMMA NothingDecided ==
  ASSUME Inv, NEW w \in Worker, NEW p \in Payout, task[w] \in Task, AfterDecision(w, p),
         Done(w) \/ Decided(p),
         UNCHANGED <<payoutVars, treasuryVars, ledgerVars, partyVars, worldVars>>
  PROVE  Inv'
<1>1. TypeOK'
  <2>1. [task[w] EXCEPT !.at = "resolve"] \in Task
    BY DEF Task, Stage
  <2> QED BY <2>1, IdleIsTask DEF Inv, TypeOK, AfterDecision, Done, Goto
<1>2. Remembers(task[w])' /\ \A v \in Worker \ {w} : task'[v] = task[v]
  <2>1. CASE Done(w)
    BY <2>1 DEF Inv, TypeOK, Done, Idle, Remembers
  <2>2. CASE Decided(p) /\ task[w].p = p /\ Goto(w, [task[w] EXCEPT !.at = "resolve"])
    <3>1. task'[w].at = "resolve" /\ task'[w].p = p
      BY <2>2 DEF Inv, TypeOK, Goto, Task
    <3> QED BY <2>2, <3>1 DEF Inv, TypeOK, Goto, Remembers, Decided
  <2> QED BY <2>1, <2>2 DEF AfterDecision
<1>3. WorkersRemember'
  BY <1>2, MemoryKept DEF Inv, Decided
<1> QED BY <1>1, <1>3, BooksUnchanged

(* A rejected send fails the payout or leaves it alone. *)
LEMMA FailRejectedStep ==
  ASSUME Inv, NEW w \in Worker, FailRejected(w)
  PROVE  Inv'
<1>0. task[w] \in Task /\ task[w].p \in Payout
  BY TaskOfWorker DEF Inv, FailRejected
<1>1. CASE Failable(task[w].p)
  BY <1>0, <1>1, FailPayoutStep DEF FailRejected, AfterDecision
<1>2. CASE ~Failable(task[w].p)
  BY <1>0, <1>2, NothingDecided DEF FailRejected, AfterDecision
<1> QED BY <1>1, <1>2

(* The second transaction of a definitive NOT_FOUND fails it, finds it     *)
(* failed, or throws.                                                      *)
LEMMA ReconcileFailStep ==
  ASSUME Inv, NEW w \in Worker, ReconcileFail(w)
  PROVE  Inv'
<1>0. task[w] \in Task /\ task[w].p \in Payout
  BY TaskOfWorker DEF Inv, ReconcileFail, FailedBefore
<1>1. CASE Failable(task[w].p) /\ FailPayout(task[w].p)
  BY <1>0, <1>1, FailPayoutStep DEF ReconcileFail, FailedBefore, AfterDecision, Failable
<1>2. CASE UNCHANGED <<status, aged, reserv, available, settling, revenue>>
           /\ (Done(w) \/ Decided(task[w].p)) /\ AfterDecision(w, task[w].p)
  BY <1>0, <1>2, NothingDecided DEF ReconcileFail, FailedBefore
<1> QED BY <1>1, <1>2 DEF ReconcileFail, FailedBefore, Decided, AfterDecision

(* The worker's CONFIRMED stage settles on the evidence it remembers. *)
LEMMA AdvanceSettleStep ==
  ASSUME Inv, NEW w \in Worker, AdvanceSettle(w)
  PROVE  Inv'
<1>0. /\ task[w] \in Task /\ task[w].p \in Payout
      /\ chain[task[w].p].st = "LANDED" /\ chain[task[w].p].amt = task[w].amt
  BY TaskOfWorker DEF Inv, AdvanceSettle, WorkersRemember, Remembers
<1>1. CASE Settleable(task[w].p, task[w].amt)
  BY <1>0, <1>1, SettlePayoutStep DEF AdvanceSettle, AfterDecision
<1>2. CASE ~Settleable(task[w].p, task[w].amt)
  BY <1>0, <1>2, NothingDecided DEF AdvanceSettle, SkipSettle, AfterDecision
<1> QED BY <1>1, <1>2

(* Reconciliation settles on the evidence it remembers, or finds the       *)
(* payout settled, or throws.                                              *)
LEMMA ReconcileSettleStep ==
  ASSUME Inv, NEW w \in Worker, ReconcileSettle(w)
  PROVE  Inv'
<1>0. /\ task[w] \in Task /\ task[w].p \in Payout
      /\ chain[task[w].p].st = "LANDED" /\ chain[task[w].p].amt = task[w].amt
  BY TaskOfWorker DEF Inv, ReconcileSettle, SettledBefore, WorkersRemember, Remembers
<1>1. CASE Settleable(task[w].p, task[w].amt) /\ SettlePayout(task[w].p)
           /\ Goto(w, [task[w] EXCEPT !.at = "resolve"])
  BY <1>0, <1>1, SettlePayoutStep DEF ReconcileSettle, SettledBefore, AfterDecision
<1>2. CASE SkipSettle /\ (Done(w) \/ Decided(task[w].p)) /\ AfterDecision(w, task[w].p)
  BY <1>0, <1>2, NothingDecided DEF ReconcileSettle, SettledBefore, SkipSettle
<1> QED BY <1>1, <1>2 DEF ReconcileSettle, SettledBefore, Decided, AfterDecision

-----------------------------------------------------------------------------
(* The network, the clock, the owner and the operator. *)

(* A transfer only ever leaves NONE or PENDING, which nobody has settled.  *)
LEMMA ChainMoves ==
  ASSUME Inv, TypeOK',
         \A q \in Payout : chain[q].st = "LANDED" => chain'[q] = chain[q],
         UNCHANGED <<payoutVars, treasuryVars, ledgerVars, partyVars>>
  PROVE  /\ OneInFlight' /\ SettlingIsOwed' /\ SettledOnEvidence'
         /\ ActiveOnlyInFlight'
<1>1. OneInFlight' /\ SettlingIsOwed'
  BY OwedUnchanged DEF Inv, IsLive
<1>2. SettledOnEvidence' /\ ActiveOnlyInFlight'
  BY DEF Inv, SettledOnEvidence, ActiveOnlyInFlight, IsActive
<1> QED BY <1>1, <1>2

(* The POST puts a transfer on its way at most once per payout. *)
LEMMA SendPostStep ==
  ASSUME Inv, NEW w \in Worker, SendPost(w)
  PROVE  Inv'
<1>0. task[w] \in Task /\ task[w].p \in Payout
  BY TaskOfWorker DEF Inv, SendPost
<1> DEFINE sent == [st |-> "PENDING", amt |-> task[w].amt, cost |-> 0]
<1>1. PICK at \in {"accepted", "ambiguous", "rejected"} :
        /\ Goto(w, [task[w] EXCEPT !.at = at])
        /\ \/ chain' = chain
           \/ chain[task[w].p].st = "NONE" /\ chain' = [chain EXCEPT ![task[w].p] = sent]
        /\ UNCHANGED <<payoutVars, treasuryVars, ledgerVars, partyVars, signed>>
  BY DEF SendPost
<1>2. TypeOK'
  <2>1. sent \in Transfer /\ [task[w] EXCEPT !.at = at] \in Task
    BY <1>0 DEF Task, Stage, Transfer
  <2> HIDE DEF sent
  <2> QED BY <1>1, <2>1 DEF Inv, TypeOK, Goto
<1>3. \A q \in Payout : chain[q].st = "LANDED" => chain'[q] = chain[q]
  BY <1>1 DEF Inv, TypeOK
<1>4. WorkersRemember'
  BY <1>0, <1>1, <1>3, MemoryKept DEF Inv, TypeOK, Goto, Task, Remembers, Decided
<1> QED BY <1>1, <1>2, <1>3, <1>4, ChainMoves DEF Inv

(* The network includes a transfer or loses it. *)
LEMMA TransferStep ==
  ASSUME Inv, NEW p \in Payout,
         \/ \E cost \in NetworkFees : TransferLands(p, cost)
         \/ \E end \in {"DROPPED", "FAILED"} : TransferLost(p, end)
  PROVE  Inv'
<1>1. TypeOK'
  <2>1. (chain \in [Payout -> Transfer])'
    <3>1. CASE \E cost \in NetworkFees : TransferLands(p, cost)
      <4>1. PICK cost \in NetworkFees :
              chain' = [chain EXCEPT ![p] = [@ EXCEPT !.st = "LANDED", !.cost = cost]]
        BY <3>1 DEF TransferLands
      <4>2. [chain[p] EXCEPT !.st = "LANDED", !.cost = cost] \in Transfer
        <5>1. cost \in Nat /\ chain[p] \in Transfer
          BY AmountAssumption DEF AmountAssumption, Inv, TypeOK
        <5> QED BY <5>1 DEF Transfer
      <4> QED BY <4>1, <4>2 DEF Inv, TypeOK
    <3>2. CASE \E end \in {"DROPPED", "FAILED"} : TransferLost(p, end)
      <4>1. PICK end \in {"DROPPED", "FAILED"} : chain' = [chain EXCEPT ![p] = [@ EXCEPT !.st = end]]
        BY <3>2 DEF TransferLost
      <4>2. chain \in [Payout -> Transfer] /\ chain[p] \in Transfer
        BY DEF Inv, TypeOK
      <4>3. [chain[p] EXCEPT !.st = end] \in Transfer
        BY <4>2 DEF Transfer
      <4> QED BY <4>1, <4>2, <4>3
    <3> QED BY <3>1, <3>2
  <2> QED BY <2>1 DEF Inv, TypeOK, TransferLands, TransferLost
<1>2. \A q \in Payout : chain[q].st = "LANDED" => chain'[q] = chain[q]
  BY DEF Inv, TypeOK, TransferLands, TransferLost
<1>3. UNCHANGED <<payoutVars, treasuryVars, ledgerVars, partyVars, task>>
  BY DEF TransferLands, TransferLost
<1>4. WorkersRemember'
  BY <1>2, <1>3 DEF Inv, WorkersRemember, Remembers, Decided
<1> QED BY <1>1, <1>2, <1>3, <1>4, ChainMoves DEF Inv

(* A reservation outlives its time. *)
LEMMA ReservationLapsesStep ==
  ASSUME Inv, NEW p \in Payout, ReservationLapses(p)
  PROVE  Inv'
<1>1. TypeOK'
  BY ZenonT(40) DEF Inv, TypeOK, ReservationLapses, Reservation
<1>2. OneInFlight' /\ SettlingIsOwed'
  BY OwedUnchanged DEF Inv, ReservationLapses, IsLive
<1>3. SettledOnEvidence'
  BY DEF Inv, ReservationLapses, SettledOnEvidence
<1>4. ActiveOnlyInFlight'
  BY DEF Inv, TypeOK, ReservationLapses, ActiveOnlyInFlight, IsActive, Reservation
<1>5. WorkersRemember'
  BY DEF Inv, ReservationLapses, WorkersRemember, Remembers, Decided
<1> QED BY <1>1, <1>2, <1>3, <1>4, <1>5 DEF Inv

(* The observation window, funding, and what operators do. *)
LEMMA OutsideStep ==
  ASSUME Inv,
         \/ \E p \in Payout : WindowPasses(p)
         \/ \E amt \in Fundings : RecordFunding(amt)
         \/ \E m \in Merchant, address \in Address \cup {NoAddress} : ReplaceWallet(m, address)
         \/ \E m \in Merchant : ChangeEligibility(m)
         \/ \E p \in Payout : AdminResolves(p)
         \/ ToggleFreeze
  PROVE  Inv'
<1>1. TypeOK'
  <2>1. CASE \E p \in Payout : WindowPasses(p)
    BY <2>1 DEF Inv, TypeOK, WindowPasses
  <2>2. CASE \E amt \in Fundings : RecordFunding(amt)
    BY <2>2, AmountAssumption DEF AmountAssumption, Inv, TypeOK, RecordFunding
  <2>3. CASE \E m \in Merchant, address \in Address \cup {NoAddress} : ReplaceWallet(m, address)
    BY <2>3 DEF Inv, TypeOK, ReplaceWallet
  <2>4. CASE \E m \in Merchant : ChangeEligibility(m)
    BY <2>4 DEF Inv, TypeOK, ChangeEligibility
  <2>5. CASE \E p \in Payout : AdminResolves(p)
    BY <2>5 DEF Inv, TypeOK, AdminResolves
  <2>6. CASE ToggleFreeze
    BY <2>6 DEF Inv, TypeOK, ToggleFreeze
  <2> QED BY <2>1, <2>2, <2>3, <2>4, <2>5, <2>6
<1>2. UNCHANGED <<status, amount, gram, settling, reserv, chain, task>>
  BY DEF WindowPasses, RecordFunding, ReplaceWallet, ChangeEligibility, AdminResolves, ToggleFreeze
<1>3. WorkersRemember'
  BY <1>2 DEF Inv, WorkersRemember, Remembers, Decided
<1> QED BY <1>1, <1>2, <1>3, BooksUnchanged

-----------------------------------------------------------------------------
(* The initial states. *)
LEMMA InvInit == Init => Inv
<1> SUFFICES ASSUME Init PROVE Inv
  OBVIOUS
<1>1. TypeOK
  <2>1. NoReservation \in Reservation /\ NoTransfer \in Transfer
    BY DEF NoReservation, Reservation, NoTransfer, Transfer
  <2>2. /\ task \in [Worker -> Task] /\ reserv \in [Payout -> Reservation]
        /\ chain \in [Payout -> Transfer]
    BY <2>1, IdleIsTask DEF Init
  <2>3. /\ status \in [Payout -> Status]
        /\ amount \in [Payout -> Nat] /\ fee \in [Payout -> Nat] /\ gram \in [Payout -> Nat]
        /\ dest \in [Payout -> Address \cup {NoAddress}]
        /\ hash \in [Payout -> BOOLEAN] /\ aged \in [Payout -> BOOLEAN]
        /\ exception \in [Payout -> BOOLEAN] /\ signed \in [Payout -> Nat]
    BY DEF Init, Status
  <2>4. /\ confirmed \in Nat /\ funded \subseteq Fundings
        /\ available \in [Merchant -> Nat] /\ settling \in [Merchant -> Nat]
        /\ revenue \in Int /\ clearing \in Nat
    BY AmountAssumption DEF AmountAssumption, Init
  <2>5. wallet \in [Merchant -> Address \cup {NoAddress}]
    <3>1. wallet \in [Merchant -> Address]
      BY DEF Init
    <3> QED BY <3>1
  <2>6. eligible \in [Merchant -> BOOLEAN] /\ frozen \in BOOLEAN
    BY DEF Init
  <2> QED BY <2>2, <2>3, <2>4, <2>5, <2>6 DEF TypeOK
<1>2. OneInFlight /\ SettlingIsOwed
  BY OwnerAssumption DEF OwnerAssumption, Init, OneInFlight, SettlingIsOwed, IsLive, Live
<1>3. SettledOnEvidence /\ ActiveOnlyInFlight
  BY DEF Init, SettledOnEvidence, ActiveOnlyInFlight, IsActive, NoReservation
<1>4. WorkersRemember
  BY DEF Init, WorkersRemember, Remembers, Idle
<1> QED BY <1>1, <1>2, <1>3, <1>4 DEF Inv

(* Both ways of queueing are QueueGross with natural numbers. *)
LEMMA QueueStep ==
  ASSUME Inv, NEW p \in Payout,
         QueueAutomatic(p) \/ \E requested \in Requests : QueueInstant(p, requested)
  PROVE  \E gross, charge \in Nat : QueueGross(p, gross, charge)
<1>1. \A n \in Nat : Capped(n) \in Nat /\ InstantFee(Capped(n)) \in Nat
  BY AmountAssumption DEF AmountAssumption, Capped, InstantFee
<1>2. available[Owner[p]] \in Nat
  BY OwnerIsMerchant DEF Inv, TypeOK
<1>3. CASE QueueAutomatic(p)
  BY <1>1, <1>2, <1>3 DEF QueueAutomatic
<1>4. CASE \E requested \in Requests : QueueInstant(p, requested)
  BY <1>1, <1>4, AmountAssumption DEF AmountAssumption, QueueInstant
<1> QED BY <1>3, <1>4

(* The invariant is inductive: one step per action of the pipeline, of its *)
(* workers and of the world around them.                                   *)
LEMMA InvNext == Inv /\ [Next]_vars => Inv'
<1> SUFFICES ASSUME Inv, [Next]_vars PROVE Inv'
  OBVIOUS
<1>1. CASE PipelineStep
  <2> SUFFICES ASSUME NEW p \in Payout,
                      \/ QueueAutomatic(p)
                      \/ \E requested \in Requests : QueueInstant(p, requested)
                      \/ \E rate \in Rates : LockPayoutRate(p, rate)
                      \/ ReservePayoutLiquidity(p)
               PROVE  Inv'
    BY <1>1 DEF PipelineStep
  <2> QED
    BY QueueStep, QueueGrossStep, LockPayoutRateStep, ReservePayoutLiquidityStep
<1>2. CASE BeginTask
  BY <1>2, SignValidateStep, BroadcastValidateStep, ObserveStep
     DEF BeginTask, AdvanceObserve, ReconcileObserve
<1>3. CASE \E w \in Worker : TaskStep(w)
  BY <1>3, SignerSignStep, SignRecordStep, SendLookupStep, SendPostStep, BroadcastRecordStep,
     MarkUnknownStep, FailRejectedStep, MarkConfirmingStep, AdvanceSettleStep,
     ReconcileSettleStep, ReconcileResetStep, ReconcileFailStep, ResolveExceptionsStep,
     LetGoStep
     DEF TaskStep
<1>4. CASE ExpireStaleReservations
  BY <1>4, ExpireStaleReservationsStep
<1>5. CASE \E amt \in Fundings : RecordFunding(amt)
  BY <1>5, OutsideStep
<1>6. CASE EnvironmentStep
  BY <1>6, ReservationLapsesStep, TransferStep, OutsideStep, LetGoStep, ReconcileAgesStep
     DEF EnvironmentStep
<1>7. CASE UNCHANGED vars
  <2>1. TypeOK'
    BY <1>7 DEF Inv, TypeOK, vars
  <2>2. WorkersRemember'
    BY <1>7 DEF Inv, WorkersRemember, Remembers, Decided, vars
  <2> QED BY <1>7, <2>1, <2>2, BooksUnchanged DEF vars
<1> QED BY <1>1, <1>2, <1>3, <1>4, <1>5, <1>6, <1>7 DEF Next

(* The invariant holds in every reachable state. *)
THEOREM InvHolds == Spec => []Inv
<1> QED BY InvInit, InvNext, PTL DEF Spec

(* Every balance stays a natural number: the CHECK constraints of the      *)
(* ledger and of the treasury never abort a transaction of the pipeline.   *)
THEOREM TypeCorrect == Spec => []TypeOK
<1>1. Inv => TypeOK
  BY DEF Inv
<1> QED BY <1>1, InvHolds, PTL

(* A merchant never has two payouts under way (queuePayoutForMerchant and  *)
(* ux_payouts_merchant_in_flight).                                         *)
THEOREM OneInFlightHolds == Spec => []OneInFlight
<1>1. Inv => OneInFlight
  BY DEF Inv
<1> QED BY <1>1, InvHolds, PTL

(* SETTLING holds exactly what the payout under way owes, through every    *)
(* interleaving of settlePayout, failPayout and reconcilePayout.           *)
THEOREM SettlingIsOwedHolds == Spec => []SettlingIsOwed
<1>1. Inv => SettlingIsOwed
  BY DEF Inv
<1> QED BY <1>1, InvHolds, PTL

(* settlePayout never closes a debt without a landed transfer of the       *)
(* locked amount, however old the answer it acts on.                       *)
THEOREM SettledOnEvidenceHolds == Spec => []SettledOnEvidence
<1>1. Inv => SettledOnEvidence
  BY DEF Inv
<1> QED BY <1>1, InvHolds, PTL

(* Liquidity is never held for a payout that ended or went back.           *)
THEOREM ActiveOnlyInFlightHolds == Spec => []ActiveOnlyInFlight
<1>1. Inv => ActiveOnlyInFlight
  BY DEF Inv
<1> QED BY <1>1, InvHolds, PTL

(* What a worker learnt before its last transaction is still true when it  *)
(* settles, or resolves the exceptions of a payout.                        *)
THEOREM WorkersRememberHolds == Spec => []WorkersRemember
<1>1. Inv => WorkersRemember
  BY DEF Inv
<1> QED BY <1>1, InvHolds, PTL
-----------------------------------------------------------------------------
(***************************************************************************)
(* The pipeline keeps the promise of MerchantPromise, and decides a payout *)
(* once.                                                                   *)
(***************************************************************************)
(***************************************************************************)
(* Only a payout that was queued has a worker or a transfer.  Without it a *)
(* transfer could land for a payout nobody took money for.                 *)
(***************************************************************************)
Known ==
  /\ \A w \in Worker : task[w].at # "idle" => status[task[w].p] # "NONE"
  /\ \A p \in Payout : chain[p].st # "NONE" => status[p] # "NONE"

-----------------------------------------------------------------------------
(* A worker's step on a payout it knows keeps every known payout known.    *)
LEMMA KnownByTask ==
  ASSUME Inv, Known, NEW w \in Worker, task[w].at # "idle",
         \A q \in Payout : status[q] # "NONE" => status'[q] # "NONE",
         \A q \in Payout : chain'[q].st = chain[q].st \/ q = task[w].p,
         \A v \in Worker \ {w} : task'[v] = task[v],
         task'[w].at = "idle" \/ task'[w].p = task[w].p
  PROVE  Known'
<1>1. \A v \in Worker : task[v].at # "idle" => task[v].p \in Payout
  BY DEF Inv, WorkersRemember, Remembers
<1> QED BY <1>1 DEF Known

(* A worker's own steps keep to the payout it was given. *)
LEMMA KnownTaskStep ==
  ASSUME Inv, Known, NEW w \in Worker, TaskStep(w)
  PROVE  Known'
<1>1. task[w].at # "idle" /\ task[w] \in Task
  BY DEF TaskStep, SignerSign, SignRecord, SendLookup, SendPost, BroadcastRecord, MarkUnknown,
         FailRejected, MarkConfirming, AdvanceSettle, ReconcileSettle, SettledBefore, ReconcileReset,
         ReconcileFail, FailedBefore, ResolveExceptions, StillUnknown, Inv, TypeOK
<1>2. \/ status' = status
      \/ \E s \in Status \ {"NONE"} : status' = [status EXCEPT ![task[w].p] = s]
  BY DEF TaskStep, SignerSign, SignRecord, SendLookup, SendPost, BroadcastRecord, MarkUnknown,
         FailRejected, FailPayout, Refund, EndReservation, MarkConfirming, AdvanceSettle, SettlePayout, SkipSettle,
         ReconcileSettle, SettledBefore, ReconcileReset, ReconcileFail, FailedBefore, ResolveExceptions, StillUnknown,
         MoveTo, Status
<1>3. \A q \in Payout : status[q] # "NONE" => status'[q] # "NONE"
  BY <1>2 DEF Inv, TypeOK
<1>4. \/ chain' = chain
      \/ \E t : chain' = [chain EXCEPT ![task[w].p] = t]
  BY DEF TaskStep, SignerSign, SignRecord, SendLookup, SendPost, BroadcastRecord, MarkUnknown,
         FailRejected, MarkConfirming, AdvanceSettle, ReconcileSettle, SettledBefore, ReconcileReset,
         ReconcileFail, FailedBefore, ResolveExceptions, StillUnknown
<1>5. Done(w) \/ \E at : Goto(w, [task[w] EXCEPT !.at = at])
  BY DEF TaskStep, SignerSign, SignRecord, SendLookup, SendPost, BroadcastRecord, MarkUnknown,
         FailRejected, MarkConfirming, AdvanceSettle, ReconcileSettle, SettledBefore, ReconcileReset,
         ReconcileFail, FailedBefore, ResolveExceptions, StillUnknown
<1>6. /\ \A v \in Worker \ {w} : task'[v] = task[v]
      /\ task'[w].at = "idle" \/ task'[w].p = task[w].p
  BY <1>1, <1>5 DEF Inv, TypeOK, Done, Goto, Idle, Task
<1>7. \A q \in Payout : chain'[q].st = chain[q].st \/ q = task[w].p
  BY <1>4 DEF Inv, TypeOK
<1> QED BY <1>1, <1>3, <1>6, <1>7, KnownByTask

(* Only known payouts have workers and transfers, after every step too.    *)
LEMMA KnownNext == Inv /\ Known /\ [Next]_vars => Known'
<1> SUFFICES ASSUME Inv, Known, [Next]_vars PROVE Known'
  OBVIOUS
<1>0. \A v \in Worker : task[v].at # "idle" => task[v].p \in Payout
  BY DEF Inv, WorkersRemember, Remembers
<1>1. CASE PipelineStep
  <2>1. PICK p \in Payout, s \in {"QUEUED", "RATE_LOCKED", "WAITING_LIQUIDITY", "RESERVED"} :
          MoveTo(p, s) /\ UNCHANGED <<chain, task>>
    <3>1. PICK p \in Payout :
            \/ QueueAutomatic(p) \/ \E requested \in Requests : QueueInstant(p, requested)
            \/ \E rate \in Rates : LockPayoutRate(p, rate)
            \/ ReservePayoutLiquidity(p)
      BY <1>1 DEF PipelineStep
    <3>2. CASE QueueAutomatic(p) \/ \E requested \in Requests : QueueInstant(p, requested)
      BY <3>2 DEF QueueAutomatic, QueueInstant, QueueGross
    <3>3. CASE \E rate \in Rates : LockPayoutRate(p, rate)
      BY <3>3 DEF LockPayoutRate, Lockable
    <3>4. CASE ReservePayoutLiquidity(p)
      BY <3>4 DEF ReservePayoutLiquidity
    <3> QED BY <3>1, <3>2, <3>3, <3>4
  <2> QED BY <1>0, <2>1 DEF Known, Inv, TypeOK, MoveTo
<1>2. CASE BeginTask
  <2>1. PICK w \in Worker, p \in Payout :
          /\ status[p] # "NONE" /\ UNCHANGED <<status, chain>>
          /\ \E t : t.p = p /\ Begin(w, t)
    <3>1. PICK w \in Worker, p \in Payout :
            \/ SignValidate(w, p) \/ BroadcastValidate(w, p)
            \/ \E use, statuses : "NONE" \notin statuses /\ Observe(w, p, use, statuses)
      BY <1>2 DEF BeginTask, AdvanceObserve, ReconcileObserve
    <3>2. CASE SignValidate(w, p)
      BY <3>2 DEF SignValidate, Idle
    <3>3. CASE BroadcastValidate(w, p)
      BY <3>3 DEF BroadcastValidate, Sendable, Idle
    <3>4. CASE \E use, statuses : "NONE" \notin statuses /\ Observe(w, p, use, statuses)
      BY <3>4 DEF Observe
    <3> QED BY <3>1, <3>2, <3>3, <3>4
  <2> QED BY <2>1 DEF Known, Begin, Inv, TypeOK
<1>3. CASE \E w \in Worker : TaskStep(w)
  BY <1>3, KnownTaskStep
<1>4. CASE ExpireStaleReservations
  <2>1. \A q \in Payout : status[q] # "NONE" => status'[q] # "NONE"
    BY <1>4 DEF ExpireStaleReservations, Stale
  <2>2. UNCHANGED <<chain, task>>
    BY <1>4 DEF ExpireStaleReservations, Stale
  <2> QED BY <1>0, <2>1, <2>2 DEF Known
<1>5. CASE \E amt \in Fundings : RecordFunding(amt)
  BY <1>5 DEF Known, RecordFunding
<1>6. CASE EnvironmentStep
  <2>1. CASE \E w \in Worker : Crash(w)
    BY <2>1 DEF Known, Crash, Done, Idle, Inv, TypeOK
  <2>2. CASE \E p \in Payout : ReservationLapses(p) \/ WindowPasses(p)
    BY <2>2 DEF Known, ReservationLapses, WindowPasses
  <2>3. CASE \/ \E p \in Payout, end \in {"DROPPED", "FAILED"} : TransferLost(p, end)
             \/ \E p \in Payout, cost \in NetworkFees : TransferLands(p, cost)
    <3>1. PICK p \in Payout : \E t : chain[p].st = "PENDING" /\ chain' = [chain EXCEPT ![p] = t]
      BY <2>3 DEF TransferLost, TransferLands
    <3>2. UNCHANGED <<status, task>>
      BY <2>3 DEF TransferLost, TransferLands
    <3> QED BY <3>1, <3>2 DEF Known, Inv, TypeOK
  <2>4. CASE \/ \E m \in Merchant, address \in Address \cup {NoAddress} : ReplaceWallet(m, address)
             \/ \E m \in Merchant : ChangeEligibility(m)
    BY <2>4 DEF Known, ReplaceWallet, ChangeEligibility
  <2>5. CASE (\E p \in Payout : AdminResolves(p)) \/ ToggleFreeze
    BY <2>5 DEF Known, AdminResolves, ToggleFreeze
  <2>6. CASE \E w \in Worker : ReconcileAges(w)
    <3>1. PICK w \in Worker : ReconcileAges(w)
      BY <2>6
    <3>2. task'[w].p = task[w].p
      BY <3>1 DEF ReconcileAges, Goto, Inv, TypeOK, Task
    <3> QED BY <3>1, <3>2, KnownByTask DEF ReconcileAges, Goto, Inv, TypeOK
  <2> QED BY <1>6, <2>1, <2>2, <2>3, <2>4, <2>5, <2>6 DEF EnvironmentStep
<1>7. CASE UNCHANGED vars
  BY <1>7 DEF Known, vars
<1> QED BY <1>1, <1>2, <1>3, <1>4, <1>5, <1>6, <1>7 DEF Next

-----------------------------------------------------------------------------
(* A step that starts, ends and lands nothing is a stutter of the promise. *)
LEMMA DebtUnchanged ==
  ASSUME \A q \in Payout : PromiseOf(q)' = PromiseOf(q),
         \A q \in Payout : chain'[q].st = "LANDED" <=> chain[q].st = "LANDED",
         UNCHANGED <<amount, fee, available>>
  PROVE  UNCHANGED Promise!vars
BY DEF Promise!vars

(* Moving between live statuses leaves the debt a debt. *)
LEMMA StageIsDebt ==
  ASSUME TypeOK, NEW p \in Payout, IsLive(p), NEW s \in Live, status' = [status EXCEPT ![p] = s]
  PROVE  \A q \in Payout : PromiseOf(q)' = PromiseOf(q)
BY DEF TypeOK, IsLive, Live, Status, PromiseOf

(* queuePayoutForMerchant takes the gross amount: net and fee together.    *)
LEMMA QueueTakes ==
  ASSUME Inv, NEW p \in Payout, NEW gross \in Nat, NEW charge \in Nat,
         QueueGross(p, gross, charge)
  PROVE  Promise!Take(p)
<1>0. Owner[p] \in Merchant /\ available[Owner[p]] \in Nat
  BY OwnerIsMerchant DEF Inv, TypeOK
<1>1. PromiseOf(p) = "none"
  BY DEF QueueGross, PromiseOf
<1>2. \A q \in Payout : Owner[q] = Owner[p] => PromiseOf(q) # "owed"
  BY DEF Inv, TypeOK, QueueGross, IndexedInFlight, KnownInFlight, Status, PromiseOf
<1>3. gross \in 1 .. available[Owner[p]]
  BY <1>0 DEF QueueGross
<1>4. [q \in Payout |-> amount[q] + fee[q]]'
        = [[q \in Payout |-> amount[q] + fee[q]] EXCEPT ![p] = gross]
  <2>1. (gross - charge) + charge = gross
    OBVIOUS
  <2> QED BY <2>1 DEF Inv, TypeOK, QueueGross
<1>5. [q \in Payout |-> PromiseOf(q)]' = [[q \in Payout |-> PromiseOf(q)] EXCEPT ![p] = "owed"]
  BY DEF Inv, TypeOK, QueueGross, MoveTo, PromiseOf
<1>6. available' = [available EXCEPT ![Owner[p]] = @ - gross] /\ UNCHANGED chain
  BY DEF QueueGross
<1> QED BY <1>1, <1>2, <1>3, <1>4, <1>5, <1>6 DEF Promise!Take

(* failPayout returns it whole. *)
LEMMA FailReturns ==
  ASSUME Inv, NEW p \in Payout, Failable(p), FailPayout(p), UNCHANGED <<amount, fee, chain>>
  PROVE  Promise!Return(p)
<1>0. Owner[p] \in Merchant
  BY OwnerIsMerchant
<1>1. PromiseOf(p) = "owed"
  BY DEF Inv, TypeOK, Failable, Status, PromiseOf
<1>2. [q \in Payout |-> PromiseOf(q)]'
        = [[q \in Payout |-> PromiseOf(q)] EXCEPT ![p] = "returned"]
  BY DEF Inv, TypeOK, FailPayout, Refund, EndReservation, MoveTo, PromiseOf
<1>3. available' = [available EXCEPT ![Owner[p]] = @ + (amount[p] + fee[p])]
  <2>1. available[Owner[p]] + amount[p] + fee[p] = available[Owner[p]] + (amount[p] + fee[p])
    BY <1>0 DEF Inv, TypeOK
  <2> QED BY <2>1 DEF FailPayout, Refund, EndReservation
<1> QED BY <1>1, <1>2, <1>3 DEF Promise!Return

(* settlePayout pays what has landed. *)
LEMMA SettlePays ==
  ASSUME Inv, NEW p \in Payout, NEW evidence, Settleable(p, evidence), SettlePayout(p),
         chain[p].st = "LANDED", UNCHANGED <<amount, fee, chain, available>>
  PROVE  Promise!Pay(p)
<1>1. PromiseOf(p) = "owed"
  BY DEF Settleable, PromiseOf
<1>2. [q \in Payout |-> PromiseOf(q)]' = [[q \in Payout |-> PromiseOf(q)] EXCEPT ![p] = "paid"]
  BY DEF Inv, TypeOK, SettlePayout, EndReservation, MoveTo, PromiseOf
<1> QED BY <1>1, <1>2 DEF Promise!Pay

(* Only a payout somebody queued can land. *)
LEMMA LandingLands ==
  ASSUME Inv, Known, NEW p \in Payout, NEW cost \in NetworkFees, TransferLands(p, cost)
  PROVE  Promise!Land(p)
<1>1. PromiseOf(p) # "none"
  BY DEF Known, TransferLands, PromiseOf, Inv, TypeOK, Status
<1>2. {q \in Payout : chain[q].st = "LANDED"}' = {q \in Payout : chain[q].st = "LANDED"} \cup {p}
  BY DEF Inv, TypeOK, Transfer, TransferLands
<1>3. UNCHANGED <<amount, fee, available>> /\ \A q \in Payout : PromiseOf(q)' = PromiseOf(q)
  BY DEF TransferLands, PromiseOf
<1> QED BY <1>1, <1>2, <1>3 DEF Promise!Land

(* A worker's step is the end of its payout, or nothing to the promise.    *)
LEMMA TaskStepKeepsPromise ==
  ASSUME Inv, NEW w \in Worker, TaskStep(w)
  PROVE  [Promise!Next]_Promise!vars
<1> DEFINE p == task[w].p
<1>0. task[w].at # "idle" /\ p \in Payout
  <2>1. task[w].at # "idle"
    BY DEF TaskStep, SignerSign, SignRecord, SendLookup, SendPost, BroadcastRecord, MarkUnknown,
           FailRejected, MarkConfirming, AdvanceSettle, ReconcileSettle, SettledBefore, ReconcileReset,
           ReconcileFail, FailedBefore, ResolveExceptions, StillUnknown
  <2> QED BY <2>1, TaskOfWorker DEF Inv
<1> HIDE DEF p
<1>1. CASE FailRejected(w) \/ ReconcileFail(w)
  <2>1. CASE Failable(p) /\ FailPayout(p)
    <3>1. UNCHANGED <<amount, fee, chain>>
      BY <1>1 DEF FailRejected, ReconcileFail, FailedBefore
    <3> QED BY <1>0, <2>1, <3>1, FailReturns DEF Promise!Next
  <2>2. CASE UNCHANGED <<status, available>>
    <3>1. UNCHANGED <<amount, fee, chain>>
      BY <1>1 DEF FailRejected, ReconcileFail, FailedBefore
    <3> QED BY <2>2, <3>1, DebtUnchanged DEF PromiseOf
  <2> QED BY <1>1, <2>1, <2>2 DEF FailRejected, ReconcileFail, FailedBefore, p
<1>2. CASE AdvanceSettle(w) \/ ReconcileSettle(w)
  <2>1. UNCHANGED <<amount, fee, chain, available>>
    BY <1>2 DEF AdvanceSettle, ReconcileSettle, SettledBefore
  <2>2. CASE \E evidence : Settleable(p, evidence) /\ SettlePayout(p)
    <3>1. chain[p].st = "LANDED"
      BY <1>2 DEF AdvanceSettle, ReconcileSettle, SettledBefore, Inv, WorkersRemember, Remembers, p
    <3> QED BY <1>0, <2>1, <2>2, <3>1, SettlePays DEF Promise!Next
  <2>3. CASE UNCHANGED status
    BY <2>1, <2>3, DebtUnchanged DEF PromiseOf
  <2> QED BY <1>2, <2>2, <2>3 DEF AdvanceSettle, ReconcileSettle, SettledBefore, SkipSettle, p
<1>3. CASE SendPost(w)
  <2>1. UNCHANGED <<status, amount, fee, available>>
    BY <1>3 DEF SendPost
  <2>2. \A q \in Payout : chain'[q].st = "LANDED" <=> chain[q].st = "LANDED"
    BY <1>0, <1>3 DEF SendPost, Inv, TypeOK, p
  <2> QED BY <2>1, <2>2, DebtUnchanged DEF PromiseOf
<1>4. CASE SignRecord(w) \/ BroadcastRecord(w) \/ MarkUnknown(w) \/ MarkConfirming(w)
           \/ ReconcileReset(w)
  <2>1. UNCHANGED <<amount, fee, chain, available>>
    BY <1>4 DEF SignRecord, BroadcastRecord, MarkUnknown, MarkConfirming, ReconcileReset
  <2>2. CASE IsLive(p) /\ \E s \in Live : status' = [status EXCEPT ![p] = s]
    BY <1>0, <2>1, <2>2, StageIsDebt, DebtUnchanged DEF Inv
  <2>3. CASE UNCHANGED status
    BY <2>1, <2>3, DebtUnchanged DEF PromiseOf
  <2> QED
    BY <1>4, <2>2, <2>3 DEF SignRecord, BroadcastRecord, MarkUnknown, MarkConfirming,
                            ReconcileReset, MoveTo, IsLive, Live, Status, p
<1>5. CASE SignerSign(w) \/ SendLookup(w) \/ ResolveExceptions(w) \/ StillUnknown(w)
  <2>1. UNCHANGED <<status, amount, fee, chain, available>>
    BY <1>5 DEF SignerSign, SendLookup, ResolveExceptions, StillUnknown
  <2> QED BY <2>1, DebtUnchanged DEF PromiseOf
<1> QED BY <1>1, <1>2, <1>3, <1>4, <1>5 DEF TaskStep

(* Every step maps to a step of the promise or to a stutter. *)
LEMMA NextKeepsPromise ==
  ASSUME Inv, Known, [Next]_vars
  PROVE  [Promise!Next]_Promise!vars
<1>1. CASE PipelineStep
  <2>1. PICK p \in Payout :
          \/ QueueAutomatic(p) \/ \E requested \in Requests : QueueInstant(p, requested)
          \/ \E rate \in Rates : LockPayoutRate(p, rate)
          \/ ReservePayoutLiquidity(p)
    BY <1>1 DEF PipelineStep
  <2>2. CASE QueueAutomatic(p) \/ \E requested \in Requests : QueueInstant(p, requested)
    BY <2>2, QueueStep, QueueTakes DEF Promise!Next
  <2>3. CASE ReservePayoutLiquidity(p) \/ \E rate \in Rates : LockPayoutRate(p, rate)
    <3>1. UNCHANGED <<amount, fee, chain, available>>
      BY <2>3 DEF ReservePayoutLiquidity, LockPayoutRate, Lockable
    <3>2. IsLive(p) /\ \E s \in Live : status' = [status EXCEPT ![p] = s]
      BY <2>3 DEF ReservePayoutLiquidity, LockPayoutRate, Lockable, MoveTo, IsLive, Live, Status
    <3> QED BY <3>1, <3>2, StageIsDebt, DebtUnchanged DEF Inv
  <2> QED BY <2>1, <2>2, <2>3
<1>2. CASE BeginTask
  <2>1. UNCHANGED <<status, amount, fee, chain, available>>
    BY <1>2 DEF BeginTask, SignValidate, BroadcastValidate, Sendable, AdvanceObserve, ReconcileObserve,
                Observe
  <2> QED BY <2>1, DebtUnchanged DEF PromiseOf
<1>3. CASE \E w \in Worker : TaskStep(w)
  BY <1>3, TaskStepKeepsPromise
<1>4. CASE ExpireStaleReservations
  <2>1. \A q \in Payout : PromiseOf(q)' = PromiseOf(q)
    BY <1>4 DEF ExpireStaleReservations, Stale, PromiseOf
  <2>2. UNCHANGED <<amount, fee, chain, available>>
    BY <1>4 DEF ExpireStaleReservations, Stale
  <2> QED BY <2>1, <2>2, DebtUnchanged
<1>5. CASE \E amt \in Fundings : RecordFunding(amt)
  BY <1>5, DebtUnchanged DEF RecordFunding, PromiseOf
<1>6. CASE EnvironmentStep
  <2>1. CASE \E p \in Payout, cost \in NetworkFees : TransferLands(p, cost)
    BY <2>1, LandingLands DEF Promise!Next
  <2>2. CASE \E p \in Payout, end \in {"DROPPED", "FAILED"} : TransferLost(p, end)
    <3>1. \A q \in Payout : chain'[q].st = "LANDED" <=> chain[q].st = "LANDED"
      BY <2>2 DEF TransferLost, Inv, TypeOK, Transfer
    <3>2. UNCHANGED <<status, amount, fee, available>>
      BY <2>2 DEF TransferLost
    <3> QED BY <3>1, <3>2, DebtUnchanged DEF PromiseOf
  <2>3. CASE \/ \E p \in Payout : ReservationLapses(p) \/ WindowPasses(p)
             \/ \E m \in Merchant, address \in Address \cup {NoAddress} : ReplaceWallet(m, address)
             \/ \E m \in Merchant : ChangeEligibility(m)
             \/ \E p \in Payout : AdminResolves(p)
             \/ ToggleFreeze
             \/ \E w \in Worker : ReconcileAges(w) \/ Crash(w)
    <3>1. UNCHANGED <<status, amount, fee, chain, available>>
      BY <2>3 DEF ReservationLapses, WindowPasses, ReplaceWallet, ChangeEligibility, AdminResolves, ToggleFreeze,
         ReconcileAges, Crash
    <3> QED BY <3>1, DebtUnchanged DEF PromiseOf
  <2> QED BY <1>6, <2>1, <2>2, <2>3 DEF EnvironmentStep
<1>7. CASE UNCHANGED vars
  BY <1>7, DebtUnchanged DEF vars, PromiseOf
<1> QED BY <1>1, <1>2, <1>3, <1>4, <1>5, <1>6, <1>7 DEF Next

(* Nothing is queued, taken or landed at the start. *)
LEMMA InitKeepsPromise == Init => Known /\ Promise!Init
BY DEF Init, Known, Idle, NoTransfer, PromiseOf, Promise!Init

(* The pipeline implements the promise: whatever crashes, overlaps, lapses *)
(* or is answered late, a payout is taken once, paid only when the money   *)
(* has landed, or returned whole, and neither is ever undone.              *)
THEOREM PromiseHolds == Spec => KeepsPromise
<1>1. Init => Inv
  BY InvInit
<1>2. Inv /\ [Next]_vars => Inv'
  BY InvNext
<1>3. Init => Known /\ Promise!Init
  BY InitKeepsPromise
<1>4. Inv /\ Known /\ [Next]_vars => Known'
  BY KnownNext
<1>5. Inv /\ Known /\ [Next]_vars => [Promise!Next]_Promise!vars
  BY NextKeepsPromise
<1> QED BY <1>1, <1>2, <1>3, <1>4, <1>5, PTL DEF Spec, KeepsPromise, Promise!Spec

-----------------------------------------------------------------------------
(* No step touches a payout that is settled or failed. *)
LEMMA DecidedKept ==
  ASSUME Inv, [Next]_vars, NEW q \in Payout, Decided(q)
  PROVE  status'[q] = status[q] /\ amount'[q] = amount[q] /\ gram'[q] = gram[q]
<1>0. ~IsLive(q) /\ status[q] # "NONE"
  BY DEF Decided, IsLive, Live
<1>1. CASE PipelineStep
  <2>1. PICK p \in Payout :
          \/ QueueAutomatic(p) \/ \E requested \in Requests : QueueInstant(p, requested)
          \/ \E rate \in Rates : LockPayoutRate(p, rate)
          \/ ReservePayoutLiquidity(p)
    BY <1>1 DEF PipelineStep
  <2>2. CASE QueueAutomatic(p) \/ \E requested \in Requests : QueueInstant(p, requested)
    <3>1. PICK gross \in Nat, charge \in Nat : QueueGross(p, gross, charge)
      BY <2>2, QueueStep
    <3> QED BY <1>0, <3>1 DEF QueueGross, MoveTo, Inv, TypeOK
  <2>3. CASE \E rate \in Rates : LockPayoutRate(p, rate)
    BY <1>0, <2>3 DEF LockPayoutRate, Lockable, MoveTo, IsLive, Live, Status, Inv, TypeOK
  <2>4. CASE ReservePayoutLiquidity(p)
    BY <1>0, <2>4 DEF ReservePayoutLiquidity, MoveTo, IsLive, Live, Status, Inv, TypeOK
  <2> QED BY <2>1, <2>2, <2>3, <2>4
<1>2. CASE BeginTask
  BY <1>2 DEF BeginTask, SignValidate, BroadcastValidate, Sendable, AdvanceObserve, ReconcileObserve, Observe
<1>3. CASE \E w \in Worker : TaskStep(w)
  <2>1. PICK w \in Worker : TaskStep(w)
    BY <1>3
  <2>2. UNCHANGED <<amount, gram>>
    BY <2>1 DEF TaskStep, SignerSign, SignRecord, SendLookup, SendPost, BroadcastRecord,
         MarkUnknown, FailRejected, MarkConfirming, AdvanceSettle, ReconcileSettle, SettledBefore,
         ReconcileReset, ReconcileFail, FailedBefore, ResolveExceptions, StillUnknown
  <2>3. \/ status' = status
        \/ \E p \in Payout, s \in Status : IsLive(p) /\ status' = [status EXCEPT ![p] = s]
    <3>1. CASE FailRejected(w) \/ ReconcileFail(w)
      <4>1. task[w].p \in Payout
        BY <3>1 DEF FailRejected, ReconcileFail, FailedBefore, Inv, WorkersRemember, Remembers
      <4> QED BY <3>1, <4>1 DEF FailRejected, ReconcileFail, FailedBefore, Failable, FailPayout, Refund, EndReservation, MoveTo,
                                IsLive, Live, Status, Inv, TypeOK
    <3>2. CASE AdvanceSettle(w) \/ ReconcileSettle(w)
      <4>1. task[w].p \in Payout
        BY <3>2 DEF AdvanceSettle, ReconcileSettle, SettledBefore, Inv, WorkersRemember, Remembers
      <4> QED BY <3>2, <4>1 DEF AdvanceSettle, ReconcileSettle, SettledBefore, Settleable, SettlePayout, EndReservation,
                                SkipSettle, MoveTo, IsLive, Live, Status
    <3>3. CASE SignRecord(w) \/ BroadcastRecord(w) \/ MarkUnknown(w) \/ MarkConfirming(w)
               \/ ReconcileReset(w)
      <4>1. task[w].p \in Payout
        BY <3>3 DEF SignRecord, BroadcastRecord, MarkUnknown, MarkConfirming, ReconcileReset,
                    Inv, WorkersRemember, Remembers
      <4> QED BY <3>3, <4>1 DEF SignRecord, BroadcastRecord, MarkUnknown, MarkConfirming,
                                ReconcileReset, MoveTo, IsLive, Live, Status
    <3>4. CASE SignerSign(w) \/ SendLookup(w) \/ SendPost(w) \/ ResolveExceptions(w)
               \/ StillUnknown(w)
      BY <3>4 DEF SignerSign, SendLookup, SendPost, ResolveExceptions, StillUnknown
    <3> QED BY <2>1, <3>1, <3>2, <3>3, <3>4 DEF TaskStep
  <2> QED BY <1>0, <2>2, <2>3 DEF Inv, TypeOK
<1>4. CASE ExpireStaleReservations
  BY <1>0, <1>4 DEF ExpireStaleReservations, Stale, IsLive, Live, Status
<1>5. CASE \E amt \in Fundings : RecordFunding(amt)
  BY <1>5 DEF RecordFunding
<1>6. CASE EnvironmentStep
  BY <1>6 DEF EnvironmentStep, ReservationLapses, WindowPasses, TransferLost, TransferLands,
              ReplaceWallet, ChangeEligibility, AdminResolves, ToggleFreeze,
         ReconcileAges, Crash
<1>7. CASE UNCHANGED vars
  BY <1>7 DEF vars
<1> QED BY <1>1, <1>2, <1>3, <1>4, <1>5, <1>6, <1>7 DEF Next

(* However late a worker comes back, a settled or failed payout keeps its  *)
(* status and its figures.                                                 *)
THEOREM DecidedOnceHolds == Spec => DecidedOnce
<1>1. Inv /\ [Next]_vars =>
        [\A p \in Payout : Decided(p) =>
           /\ status'[p] = status[p]
           /\ amount'[p] = amount[p] /\ gram'[p] = gram[p]]_vars
  BY DecidedKept
<1> QED BY <1>1, InvHolds, PTL DEF Spec, DecidedOnce

-----------------------------------------------------------------------------
(* Only a send whose end is unknown makes a payout UNKNOWN.                *)
LEMMA OnlyMarkedUnknown ==
  ASSUME Inv, [Next]_vars, NEW q \in Payout, status'[q] = "UNKNOWN",
         \A w \in Worker : ~MarkUnknown(w)
  PROVE  status[q] = "UNKNOWN"
<1>1. CASE PipelineStep
  <2>1. PICK p \in Payout, s \in {"QUEUED", "RATE_LOCKED", "WAITING_LIQUIDITY", "RESERVED"} :
          MoveTo(p, s)
    <3>1. PICK p \in Payout :
            \/ QueueAutomatic(p) \/ \E requested \in Requests : QueueInstant(p, requested)
            \/ \E rate \in Rates : LockPayoutRate(p, rate)
            \/ ReservePayoutLiquidity(p)
      BY <1>1 DEF PipelineStep
    <3> QED BY <3>1 DEF QueueAutomatic, QueueInstant, QueueGross, LockPayoutRate,
                        ReservePayoutLiquidity
  <2> QED BY <2>1 DEF MoveTo, Inv, TypeOK
<1>2. CASE \E w \in Worker : TaskStep(w)
  <2>1. PICK w \in Worker : TaskStep(w)
    BY <1>2
  <2>2. \/ status' = status
        \/ \E s \in Status \ {"UNKNOWN"} : status' = [status EXCEPT ![task[w].p] = s]
    BY <2>1 DEF TaskStep, SignerSign, SignRecord, SendLookup, SendPost, BroadcastRecord,
         FailRejected, FailPayout, MarkConfirming, AdvanceSettle, SettlePayout, SkipSettle,
         ReconcileSettle, ReconcileReset, ReconcileFail, ResolveExceptions, StillUnknown,
         MoveTo, Status
  <2> QED BY <2>2 DEF Inv, TypeOK
<1>3. CASE ExpireStaleReservations
  BY <1>3 DEF ExpireStaleReservations
<1>4. CASE BeginTask \/ (\E amt \in Fundings : RecordFunding(amt)) \/ EnvironmentStep \/ UNCHANGED vars
  BY <1>4 DEF BeginTask, SignValidate, BroadcastValidate, AdvanceObserve, ReconcileObserve, Observe,
         RecordFunding, EnvironmentStep, ReservationLapses, WindowPasses, TransferLost, TransferLands,
         ReplaceWallet, ChangeEligibility, AdminResolves, ToggleFreeze,
         ReconcileAges, Crash, vars
<1> QED BY <1>1, <1>2, <1>3, <1>4 DEF Next

(* Only three steps touch an exception.                                    *)
LEMMA OnlyResolved ==
  ASSUME [Next]_vars, exception' # exception
  PROVE  \/ \E w \in Worker : MarkUnknown(w) \/ ResolveExceptions(w)
         \/ \E p \in Payout : AdminResolves(p)
<1>1. CASE PipelineStep \/ BeginTask \/ ExpireStaleReservations
           \/ (\E amt \in Fundings : RecordFunding(amt)) \/ UNCHANGED vars
  BY <1>1 DEF PipelineStep, QueueAutomatic, QueueInstant, QueueGross, LockPayoutRate,
         ReservePayoutLiquidity, BeginTask, SignValidate, BroadcastValidate, AdvanceObserve,
         ReconcileObserve, Observe, ExpireStaleReservations, RecordFunding, vars
<1>2. CASE EnvironmentStep
  BY <1>2 DEF EnvironmentStep, ReservationLapses, WindowPasses, TransferLost, TransferLands,
         ReplaceWallet, ChangeEligibility, ToggleFreeze, ReconcileAges, Crash
<1>3. CASE \E w \in Worker : TaskStep(w)
  BY <1>3 DEF TaskStep, SignerSign, SignRecord, SendLookup, SendPost, BroadcastRecord,
         FailRejected, MarkConfirming, AdvanceSettle, ReconcileSettle, ReconcileReset,
         ReconcileFail, StillUnknown
<1> QED BY <1>1, <1>2, <1>3 DEF Next

(* A payout that is UNKNOWN without an exception was so before, unless an  *)
(* admin has just taken the exception off.                                 *)
LEMMA VisibleNext ==
  ASSUME Inv, [Next]_vars, NEW q \in Payout, status'[q] = "UNKNOWN", ~exception'[q]
  PROVE  (status[q] = "UNKNOWN" /\ ~exception[q]) \/ AdminResolves(q)
<1>1. CASE \E w \in Worker : MarkUnknown(w)
  <2>1. PICK w \in Worker : MarkUnknown(w)
    BY <1>1
  <2> QED BY <2>1 DEF MarkUnknown, MoveTo, Inv, TypeOK
<1>2. CASE \E w \in Worker : ResolveExceptions(w)
  <2>1. PICK w \in Worker : ResolveExceptions(w)
    BY <1>2
  <2>2. status' = status /\ exception' = [exception EXCEPT ![task[w].p] = FALSE]
    BY <2>1 DEF ResolveExceptions
  <2>3. Decided(task[w].p)
    BY <2>1 DEF ResolveExceptions, Inv, WorkersRemember, Remembers
  <2>4. q # task[w].p
    BY <2>2, <2>3 DEF Decided
  <2> QED BY <2>2, <2>4 DEF Inv, TypeOK
<1>3. CASE \E p \in Payout : AdminResolves(p)
  BY <1>3 DEF AdminResolves, Inv, TypeOK
<1>4. CASE exception' = exception /\ \A w \in Worker : ~MarkUnknown(w)
  BY <1>4, OnlyMarkedUnknown
<1> QED BY <1>1, <1>2, <1>3, <1>4, OnlyResolved

(* Whatever cycles overlap and however late they come back, no payout is   *)
(* left UNKNOWN without an exception but by the admin who resolves it      *)
(* (markUnknown, reconcilePayout, resolveException).                       *)
THEOREM UnknownIsVisibleHolds == Spec => UnknownIsVisible
<1>1. Inv /\ [Next]_vars =>
        [\A p \in Payout : status'[p] = "UNKNOWN" /\ ~exception'[p] =>
           \/ status[p] = "UNKNOWN" /\ ~exception[p]
           \/ AdminResolves(p)]_vars
  BY VisibleNext
<1> QED BY <1>1, InvHolds, PTL DEF Spec, UnknownIsVisible

-----------------------------------------------------------------------------
(***************************************************************************)
(* The money of the merchants.  Three steps move Toman: queueing, failing  *)
(* and settling, each between the buckets of one merchant, the revenue and *)
(* the clearing account.                                                   *)
(***************************************************************************)
held == [m \in Merchant |-> available[m] + settling[m]]

Conserved == SumFunctionOnSet(held, Merchant) + revenue + clearing
               = Cardinality(Merchant) * InitialAvailable

HeldAdds(g) ==
  g = [s \in SUBSET Merchant |->
        IF s = {} THEN 0 ELSE (available[Pick(s)] + settling[Pick(s)]) + g[s \ {Pick(s)}]]

LEMMA ConservedIs == Conserved <=> TomanConserved
<1>1. TomanConserved <=>
        (CHOOSE g : HeldAdds(g))[Merchant] + revenue + clearing
          = Cardinality(Merchant) * InitialAvailable
  BY DEF TomanConserved, MapThenSumSet, MapThenFoldSet, Pick, HeldAdds
<1>2. ASSUME NEW g PROVE HeldAdds(g) <=> Adds(held, Merchant, g)
  <2>1. \A s \in SUBSET Merchant :
          s # {} => available[Pick(s)] + settling[Pick(s)] = held[Pick(s)]
    BY PickIsIn DEF held
  <2> QED BY <2>1 DEF Adds, HeldAdds
<1>3. (CHOOSE g : HeldAdds(g)) = CHOOSE g : Adds(held, Merchant, g)
  BY <1>2
<1> QED BY <1>1, <1>3, SumIsChosen DEF Conserved

(* What one merchant's buckets lose, revenue or clearing gains.            *)
LEMMA TomanMoves ==
  ASSUME Inv, Inv', Conserved, NEW m \in Merchant,
         \A n \in Merchant \ {m} : available'[n] = available[n] /\ settling'[n] = settling[n],
         available'[m] + settling'[m] + revenue' + clearing'
           = available[m] + settling[m] + revenue + clearing
  PROVE  Conserved'
<1>1. \A n \in Merchant : held[n] \in Int /\ held'[n] \in Int
  BY DEF held, Inv, TypeOK
<1>2. \A n \in Merchant \ {m} : held'[n] = held[n]
  BY DEF held
<1>3. SumFunctionOnSet(held', Merchant) = SumFunctionOnSet(held, Merchant) + (held'[m] - held[m])
  BY <1>1, <1>2, SumChange, FiniteAssumption DEF FiniteAssumption
<1>4. /\ held[m] = available[m] + settling[m] /\ held'[m] = available'[m] + settling'[m]
      /\ SumFunctionOnSet(held, Merchant) \in Int
      /\ revenue \in Int /\ revenue' \in Int /\ clearing \in Int /\ clearing' \in Int
      /\ available[m] \in Int /\ settling[m] \in Int /\ available'[m] \in Int /\ settling'[m] \in Int
  BY <1>1, SumIsInt, FiniteAssumption DEF FiniteAssumption, held, Inv, TypeOK
<1>5. SumFunctionOnSet(held', Merchant) + revenue' + clearing'
        = SumFunctionOnSet(held, Merchant) + revenue + clearing
  BY <1>3, <1>4
<1> QED BY <1>5 DEF Conserved

LEMMA ConservedNext ==
  ASSUME Inv, Conserved, [Next]_vars
  PROVE  Conserved'
<1>0. Inv'
  BY InvNext
<1>1. ASSUME NEW p \in Payout, NEW gross \in Nat, NEW charge \in Nat, QueueGross(p, gross, charge)
      PROVE  Conserved'
  <2>1. PICK m : m = Owner[p] /\ m \in Merchant
    BY OwnerIsMerchant
  <2>2. /\ available' = [available EXCEPT ![m] = @ - gross]
        /\ settling' = [settling EXCEPT ![m] = @ + (gross - charge)]
        /\ revenue' = revenue + charge /\ clearing' = clearing
    BY <1>1, <2>1 DEF QueueGross
  <2>3. \A n \in Merchant \ {m} : available'[n] = available[n] /\ settling'[n] = settling[n]
    BY <2>2 DEF Inv, TypeOK
  <2>4. available'[m] = available[m] - gross /\ settling'[m] = settling[m] + (gross - charge)
        /\ available[m] \in Nat /\ settling[m] \in Nat /\ revenue \in Int /\ clearing \in Nat
    BY <2>1, <2>2 DEF Inv, TypeOK
  <2> QED BY <1>0, <2>1, <2>2, <2>3, <2>4, TomanMoves
<1>2. ASSUME NEW p \in Payout, FailPayout(p), clearing' = clearing
      PROVE  Conserved'
  <2>1. PICK m : m = Owner[p] /\ m \in Merchant
    BY OwnerIsMerchant
  <2>2. /\ available' = [available EXCEPT ![m] = @ + (amount[p] + fee[p])]
        /\ settling' = [settling EXCEPT ![m] = @ - amount[p]]
        /\ revenue' = revenue - fee[p]
    BY <1>2, <2>1 DEF FailPayout, Refund
  <2>3. \A n \in Merchant \ {m} : available'[n] = available[n] /\ settling'[n] = settling[n]
    BY <2>2 DEF Inv, TypeOK
  <2>4. /\ available'[m] = available[m] + (amount[p] + fee[p]) /\ settling'[m] = settling[m] - amount[p]
        /\ available[m] \in Nat /\ settling[m] \in Nat /\ revenue \in Int /\ clearing \in Nat
        /\ amount[p] \in Nat /\ fee[p] \in Nat
    BY <2>1, <2>2 DEF Inv, TypeOK
  <2> QED BY <1>0, <1>2, <2>1, <2>2, <2>3, <2>4, TomanMoves
<1>3. ASSUME NEW p \in Payout, SettlePayout(p), UNCHANGED <<available, revenue>>
      PROVE  Conserved'
  <2>1. PICK m : m = Owner[p] /\ m \in Merchant
    BY OwnerIsMerchant
  <2>2. settling' = [settling EXCEPT ![m] = @ - amount[p]] /\ clearing' = clearing + amount[p]
    BY <1>3, <2>1 DEF SettlePayout
  <2>3. \A n \in Merchant \ {m} : available'[n] = available[n] /\ settling'[n] = settling[n]
    BY <1>3, <2>2 DEF Inv, TypeOK
  <2>4. /\ available'[m] = available[m] /\ settling'[m] = settling[m] - amount[p]
        /\ available[m] \in Nat /\ settling[m] \in Nat /\ revenue \in Int /\ clearing \in Nat
        /\ amount[p] \in Nat
    BY <1>3, <2>1, <2>2 DEF Inv, TypeOK
  <2> QED BY <1>0, <1>3, <2>1, <2>2, <2>3, <2>4, TomanMoves
<1>4. CASE UNCHANGED <<available, settling, revenue, clearing>>
  BY <1>4 DEF Conserved, held
<1>5. CASE PipelineStep
  <2>1. PICK p \in Payout :
          \/ QueueAutomatic(p) \/ \E requested \in Requests : QueueInstant(p, requested)
          \/ UNCHANGED <<available, settling, revenue, clearing>>
    BY <1>5 DEF PipelineStep, LockPayoutRate, ReservePayoutLiquidity
  <2> QED BY <1>1, <1>4, <2>1, QueueStep
<1>6. ASSUME NEW w \in Worker, TaskStep(w)
      PROVE  Conserved'
  <2>1. task[w].p \in Payout
    <3>1. task[w].at # "idle"
      BY <1>6 DEF TaskStep, SignerSign, SignRecord, SendLookup, SendPost, BroadcastRecord, MarkUnknown,
           FailRejected, MarkConfirming, AdvanceSettle, ReconcileSettle, SettledBefore, ReconcileReset,
           ReconcileFail, FailedBefore, ResolveExceptions, StillUnknown
    <3> QED BY <3>1, TaskOfWorker DEF Inv
  <2>2. \/ FailPayout(task[w].p) /\ clearing' = clearing
        \/ SettlePayout(task[w].p) /\ UNCHANGED <<available, revenue>>
        \/ UNCHANGED <<available, settling, revenue, clearing>>
    BY <1>6, ZenonT(40)
       DEF TaskStep, SignerSign, SignRecord, SendLookup, SendPost, BroadcastRecord, MarkUnknown,
           FailRejected, MarkConfirming, AdvanceSettle, ReconcileSettle, ReconcileReset,
           ReconcileFail, ResolveExceptions, StillUnknown, SkipSettle
  <2> QED BY <1>2, <1>3, <1>4, <2>1, <2>2
<1>7. CASE BeginTask \/ ExpireStaleReservations \/ (\E amt \in Fundings : RecordFunding(amt))
           \/ EnvironmentStep \/ UNCHANGED vars
  <2>1. UNCHANGED <<available, settling, revenue, clearing>>
    BY <1>7 DEF BeginTask, SignValidate, BroadcastValidate, AdvanceObserve, ReconcileObserve, Observe,
       ExpireStaleReservations, RecordFunding, EnvironmentStep, ReservationLapses, WindowPasses,
       TransferLost, TransferLands, ReplaceWallet, ChangeEligibility, AdminResolves, ToggleFreeze,
         ReconcileAges, Crash, vars
  <2> QED BY <1>4, <2>1
<1> QED BY <1>5, <1>6, <1>7 DEF Next

LEMMA ConservedInit == Init => Conserved
<1> SUFFICES ASSUME Init PROVE Conserved
  OBVIOUS
<1>1. \A m \in Merchant : held[m] = InitialAvailable
  BY AmountAssumption DEF AmountAssumption, Init, held
<1>2. SumFunctionOnSet(held, Merchant) = Cardinality(Merchant) * InitialAvailable
  BY <1>1, SumOfConstant, AmountAssumption, FiniteAssumption DEF AmountAssumption, FiniteAssumption
<1>3. SumFunctionOnSet(held, Merchant) \in Int
  BY <1>1, SumIsInt, AmountAssumption, FiniteAssumption DEF AmountAssumption, FiniteAssumption
<1>4. revenue = 0 /\ clearing = 0
  BY DEF Init
<1> QED BY <1>2, <1>3, <1>4 DEF Conserved

(* The GRAM of the treasury: what was funded is there or was settled.      *)
Accounted == IsFiniteSet(funded) /\ GramConserved

LEMMA SpentIsNat ==
  ASSUME Inv
  PROVE  (\A p \in Payout : Spent[p] \in Nat) /\ SumFunctionOnSet(Spent, Payout) \in Nat
<1>1. \A p \in Payout : Spent[p] \in Nat
  BY DEF Spent, Inv, TypeOK, Transfer
<1> QED BY <1>1, SumIsNat, FiniteAssumption DEF FiniteAssumption

(* Steps that settle nothing and fund nothing.                             *)
LEMMA AccountedStill ==
  ASSUME Inv, Accounted, UNCHANGED <<gram, confirmed, funded>>,
         \A p \in Payout : (status'[p] = "SETTLED") = (status[p] = "SETTLED"),
         \A p \in Payout : chain[p].st = "LANDED" => chain'[p] = chain[p]
  PROVE  Accounted'
<1>1. \A p \in Payout : status[p] = "SETTLED" => chain'[p] = chain[p]
  BY DEF Inv, SettledOnEvidence
<1>2. Spent' = Spent
  BY <1>1 DEF Spent
<1> QED BY <1>2 DEF Accounted, GramConserved

LEMMA AccountedSettles ==
  ASSUME Inv, Accounted, NEW p \in Payout, status[p] # "SETTLED", SettlePayout(p),
         UNCHANGED <<gram, chain, funded>>
  PROVE  Accounted'
<1>1. PICK out \in Nat : out = gram[p] + chain[p].cost
  BY DEF Inv, TypeOK, Transfer
<1>2. /\ confirmed' = confirmed - out /\ confirmed \in Nat
      /\ status'[p] = "SETTLED" /\ \A q \in Payout \ {p} : status'[q] = status[q]
  BY <1>1 DEF SettlePayout, MoveTo, Inv, TypeOK
<1>3. /\ Spent[p] = 0 /\ Spent'[p] = out /\ \A q \in Payout \ {p} : Spent'[q] = Spent[q]
  BY <1>1, <1>2 DEF Spent
<1>4. \A q \in Payout : Spent[q] \in Int /\ Spent'[q] \in Int
  BY <1>3, SpentIsNat
<1>5. SumFunctionOnSet(Spent', Payout) = SumFunctionOnSet(Spent, Payout) + (Spent'[p] - Spent[p])
  BY <1>3, <1>4, SumChange, FiniteAssumption DEF FiniteAssumption
<1>6. confirmed' + SumFunctionOnSet(Spent', Payout) = confirmed + SumFunctionOnSet(Spent, Payout)
  <2>1. SumFunctionOnSet(Spent, Payout) \in Int
    BY SpentIsNat
  <2> QED BY <1>2, <1>3, <1>5, <2>1
<1> QED BY <1>6 DEF Accounted, GramConserved

LEMMA FundedAdds ==
  ASSUME NEW S, IsFiniteSet(S), S \subseteq Nat, NEW amt \in Nat \ S
  PROVE  Funded(S \cup {amt}) = Funded(S) + amt
<1> DEFINE f == [x \in S \cup {amt} |-> x]
           g == [x \in S |-> x]
<1>1. \A x \in S \cup {amt} : f[x] \in Int
  OBVIOUS
<1>2. \A x \in S : f[x] = g[x]
  OBVIOUS
<1>3. f[amt] = amt
  OBVIOUS
<1>4. Funded(S \cup {amt}) = SumFunctionOnSet(f, S \cup {amt}) /\ Funded(S) = SumFunctionOnSet(g, S)
  BY DEF Funded
<1> HIDE DEF f, g
<1>5. SumFunctionOnSet(f, S \cup {amt}) = SumFunctionOnSet(f, S) + f[amt]
  BY <1>1, SumAdd
<1>6. SumFunctionOnSet(f, S) = SumFunctionOnSet(g, S)
  BY <1>2, SumSame
<1> QED BY <1>3, <1>4, <1>5, <1>6

LEMMA AccountedFunding ==
  ASSUME Inv, Accounted, NEW amt \in Fundings, RecordFunding(amt)
  PROVE  Accounted'
<1>1. /\ funded' = funded \cup {amt} /\ amt \notin funded /\ confirmed' = confirmed + amt
      /\ UNCHANGED <<status, gram, chain>>
  BY DEF RecordFunding
<1>2. amt \in Nat /\ funded \subseteq Nat /\ IsFiniteSet(funded) /\ confirmed \in Nat
  BY AmountAssumption DEF AmountAssumption, Accounted, Inv, TypeOK
<1>3. Funded(funded') = Funded(funded) + amt /\ IsFiniteSet(funded')
  BY <1>1, <1>2, FundedAdds, FS_AddElement
<1>4. Funded(funded) \in Int
  <2> DEFINE g == [x \in funded |-> x]
  <2>1. \A x \in funded : g[x] \in Int
    BY <1>2
  <2>2. Funded(funded) = SumFunctionOnSet(g, funded)
    BY DEF Funded
  <2> HIDE DEF g
  <2> QED BY <1>2, <2>1, <2>2, SumIsInt
<1>5. Spent' = Spent /\ SumFunctionOnSet(Spent, Payout) \in Int
  BY <1>1, SpentIsNat DEF Spent
<1>6. confirmed' + SumFunctionOnSet(Spent', Payout) = InitialTreasury + Funded(funded')
  <2>1. confirmed + SumFunctionOnSet(Spent, Payout) = InitialTreasury + Funded(funded)
    BY DEF Accounted, GramConserved
  <2> QED BY <1>1, <1>2, <1>3, <1>4, <1>5, <2>1, AmountAssumption DEF AmountAssumption
<1> QED BY <1>3, <1>6 DEF Accounted, GramConserved

LEMMA AccountedPipeline ==
  ASSUME Inv, Accounted, PipelineStep
  PROVE  Accounted'
<1>1. UNCHANGED <<confirmed, funded, chain>>
  BY DEF PipelineStep, QueueAutomatic, QueueInstant, LockPayoutRate, ReservePayoutLiquidity, QueueGross
<1>2. PICK p \in Payout :
        \/ QueueAutomatic(p) \/ \E requested \in Requests : QueueInstant(p, requested)
        \/ \E rate \in Rates : LockPayoutRate(p, rate)
        \/ ReservePayoutLiquidity(p)
  BY DEF PipelineStep
<1>3. /\ status[p] # "SETTLED" /\ status'[p] # "SETTLED" /\ \A q \in Payout \ {p} : status'[q] = status[q]
      /\ \A q \in Payout \ {p} : gram'[q] = gram[q]
  <2>1. CASE QueueAutomatic(p) \/ \E requested \in Requests : QueueInstant(p, requested)
    <3>1. PICK gross \in Nat, charge \in Nat : QueueGross(p, gross, charge)
      BY <2>1, QueueStep
    <3> QED BY <3>1 DEF QueueGross, MoveTo, Inv, TypeOK
  <2>2. CASE \E rate \in Rates : LockPayoutRate(p, rate)
    <3>1. /\ status[p] # "SETTLED" /\ status' = [status EXCEPT ![p] = "RATE_LOCKED"]
          /\ \E grams : gram' = [gram EXCEPT ![p] = grams]
      <4>1. PICK rate \in Rates : LockPayoutRate(p, rate)
        BY <2>2
      <4>2. PICK grams : grams = amount[p] \div rate
        OBVIOUS
      <4>3. gram' = [gram EXCEPT ![p] = grams] /\ status' = [status EXCEPT ![p] = "RATE_LOCKED"]
        BY <4>1, <4>2 DEF LockPayoutRate, MoveTo
      <4>4. status[p] # "SETTLED"
        BY <4>1 DEF LockPayoutRate, Lockable
      <4> QED BY <4>3, <4>4
    <3> QED BY <3>1 DEF Inv, TypeOK
  <2>3. CASE ReservePayoutLiquidity(p)
    BY <2>3 DEF ReservePayoutLiquidity, MoveTo, Inv, TypeOK
  <2> QED BY <1>2, <2>1, <2>2, <2>3
<1>4. Spent' = Spent
  BY <1>1, <1>3 DEF Spent
<1> QED BY <1>1, <1>4 DEF Accounted, GramConserved

LEMMA AccountedTask ==
  ASSUME Inv, Accounted, NEW w \in Worker, TaskStep(w)
  PROVE  Accounted'
<1>0. task[w].at # "idle"
  BY DEF TaskStep, SignerSign, SignRecord, SendLookup, SendPost, BroadcastRecord, MarkUnknown,
         FailRejected, MarkConfirming, AdvanceSettle, ReconcileSettle, SettledBefore, ReconcileReset,
         ReconcileFail, FailedBefore, ResolveExceptions, StillUnknown
<1>1. PICK p \in Payout : p = task[w].p /\ task[w] \in Task
  BY <1>0, TaskOfWorker DEF Inv
<1>2. UNCHANGED <<gram, funded>>
  BY DEF TaskStep, SignerSign, SendPost, SignRecord, SendLookup, BroadcastRecord, MarkUnknown,
         FailRejected, MarkConfirming, AdvanceSettle, ReconcileSettle, ReconcileReset,
         ReconcileFail, ResolveExceptions, StillUnknown
<1>3. \/ UNCHANGED <<status, confirmed, chain>>
      \/ SendPost(w)
      \/ \E s \in PayoutInFlight :
            status[p] \in PayoutInFlight /\ MoveTo(p, s) /\ UNCHANGED <<confirmed, chain>>
      \/ Failable(p) /\ FailPayout(p) /\ UNCHANGED <<confirmed, chain>>
      \/ Settleable(p, task[w].amt) /\ SettlePayout(p) /\ UNCHANGED chain
  BY <1>1, ZenonT(60)
     DEF TaskStep, SignRecord, SignerSign, SendLookup, BroadcastRecord, MarkUnknown,
         FailRejected, MarkConfirming, AdvanceSettle, SkipSettle,
         ReconcileSettle, ReconcileReset, ReconcileFail, ResolveExceptions, StillUnknown,
         PayoutInFlight
<1>4. CASE UNCHANGED <<status, confirmed, chain>>
  BY <1>2, <1>4, AccountedStill
<1>5. CASE SendPost(w)
  <2>1. UNCHANGED <<status, confirmed>> /\ \A q \in Payout : chain[q].st = "LANDED" => chain'[q] = chain[q]
    BY <1>1, <1>5 DEF SendPost, Inv, TypeOK
  <2> QED BY <1>2, <2>1, AccountedStill
<1>6. CASE \E s \in PayoutInFlight :
             status[p] \in PayoutInFlight /\ MoveTo(p, s) /\ UNCHANGED <<confirmed, chain>>
  <2>1. /\ status[p] \in PayoutInFlight /\ status'[p] \in PayoutInFlight
        /\ \A q \in Payout \ {p} : status'[q] = status[q]
    BY <1>6 DEF MoveTo, Inv, TypeOK
  <2>2. \A q \in Payout : (status'[q] = "SETTLED") = (status[q] = "SETTLED")
    BY <2>1 DEF PayoutInFlight
  <2>3. UNCHANGED <<confirmed, chain>>
    BY <1>6
  <2> QED BY <1>2, <2>2, <2>3, AccountedStill
<1>7. CASE Failable(p) /\ FailPayout(p) /\ UNCHANGED <<confirmed, chain>>
  <2>1. /\ status'[p] = "FAILED" /\ \A q \in Payout \ {p} : status'[q] = status[q]
        /\ status[p] # "SETTLED"
    BY <1>7 DEF Failable, FailPayout, MoveTo, Inv, TypeOK
  <2>2. \A q \in Payout : (status'[q] = "SETTLED") = (status[q] = "SETTLED")
    BY <2>1
  <2> QED BY <1>2, <1>7, <2>2, AccountedStill
<1>8. CASE Settleable(p, task[w].amt) /\ SettlePayout(p) /\ UNCHANGED chain
  BY <1>2, <1>8, AccountedSettles DEF Settleable
<1> QED BY <1>3, <1>4, <1>5, <1>6, <1>7, <1>8

LEMMA AccountedNext ==
  ASSUME Inv, Accounted, [Next]_vars
  PROVE  Accounted'
<1>1. CASE ExpireStaleReservations
  <2>1. UNCHANGED <<gram, confirmed, funded, chain>>
    BY <1>1 DEF ExpireStaleReservations
  <2>2. \A p \in Payout : (status'[p] = "SETTLED") = (status[p] = "SETTLED")
    BY <1>1 DEF ExpireStaleReservations, Stale, Inv, TypeOK
  <2> QED BY <2>1, <2>2, AccountedStill
<1>2. CASE BeginTask \/ EnvironmentStep \/ UNCHANGED vars
  <2>1. UNCHANGED <<status, gram, confirmed, funded>>
    BY <1>2 DEF BeginTask, SignValidate, BroadcastValidate, AdvanceObserve, ReconcileObserve, Observe,
           EnvironmentStep, ReservationLapses, WindowPasses, TransferLost, TransferLands,
           ReplaceWallet, ChangeEligibility, AdminResolves, ToggleFreeze,
         ReconcileAges, Crash, vars
  <2>2. \A q \in Payout : chain[q].st = "LANDED" => chain'[q] = chain[q]
    BY <1>2 DEF BeginTask, SignValidate, BroadcastValidate, AdvanceObserve, ReconcileObserve, Observe,
           EnvironmentStep, ReservationLapses, WindowPasses, TransferLost, TransferLands,
           ReplaceWallet, ChangeEligibility, AdminResolves, ToggleFreeze,
         ReconcileAges, Crash, vars, Inv, TypeOK
  <2> QED BY <2>1, <2>2, AccountedStill
<1> QED BY <1>1, <1>2, AccountedPipeline, AccountedTask, AccountedFunding DEF Next

LEMMA AccountedInit == Init => Accounted
<1> SUFFICES ASSUME Init PROVE Accounted
  OBVIOUS
<1>1. SumFunctionOnSet(Spent, Payout) = 0
  <2>1. \A p \in Payout : Spent[p] = 0
    BY DEF Init, Spent
  <2> QED BY <2>1, SumOfZeros, FiniteAssumption DEF FiniteAssumption
<1>2. Funded(funded) = 0 /\ IsFiniteSet(funded)
  <2>1. funded = {}
    BY DEF Init
  <2> QED BY <2>1, SumOfNone, FS_EmptySet DEF Funded
<1> QED BY <1>1, <1>2, AmountAssumption DEF AmountAssumption, Accounted, GramConserved, Init

(* The books of the payouts hold together: no balance is ever negative,    *)
(* and no Toman or GRAM appears or disappears whatever cycles overlap,     *)
(* fail or settle (queuePayoutForMerchant, failPayout, settlePayout,       *)
(* recordManualTreasuryFunding).                                           *)
THEOREM BooksBalanceHolds == Spec => []BooksBalance
<1>1. Init => Inv /\ Conserved /\ Accounted
  BY InvInit, ConservedInit, AccountedInit
<1>2. Inv /\ Conserved /\ Accounted /\ [Next]_vars => Inv' /\ Conserved' /\ Accounted'
  BY InvNext, ConservedNext, AccountedNext
<1>3. Inv /\ Conserved /\ Accounted => BooksBalance
  BY ConservedIs DEF Inv, BooksBalance, Accounted
<1> QED BY <1>1, <1>2, <1>3, PTL DEF Spec

-----------------------------------------------------------------------------
(***************************************************************************)
(* What is sent is what was agreed, and what is in flight is reserved, as  *)
(* long as no reservation outlives its time.  A lapsed reservation is what *)
(* sends a signed payout back to be locked at another rate.                *)
(***************************************************************************)
Early == {"NONE", "QUEUED", "RATE_LOCKED", "WAITING_LIQUIDITY"}

(* Nothing is signed or sent before the figure is past changing, and the   *)
(* figure signed, the figure sent and the figure reserved are that figure. *)
Agreed(p) ==
  /\ ~reserv[p].lapsed
  /\ status[p] \in PayoutInFlight => IsActive(p) /\ reserv[p].amt = gram[p]
  /\ status[p] \in Early => signed[p] = 0 /\ chain[p].st = "NONE"
  /\ signed[p] \in {0, gram[p]}
  /\ status[p] = "SIGNED" => signed[p] = gram[p]
  /\ chain[p].st # "NONE" => chain[p].amt = gram[p] /\ signed[p] = gram[p]

(* A worker on its way to the signer or to the network carries the figure  *)
(* of its payout, which is past changing, and past the signer the signed   *)
(* one.                                                                    *)
Carries(t) ==
  /\ t.at \in {"sign", "record", "lookup", "post"} => status[t.p] \notin Early /\ t.amt = gram[t.p]
  /\ t.at \in {"record", "lookup", "post"} => signed[t.p] = gram[t.p]

Agreement ==
  /\ \A p \in Payout : Agreed(p)
  /\ \A w \in Worker : Carries(task[w])

(* A step that moves at most one payout, late ones to late stages, and     *)
(* neither signs nor sends, keeps the agreement.                           *)
LEMMA AgreementKept ==
  ASSUME Inv, Inv', Agreement, NEW p \in Payout,
         \A q \in Payout \ {p} : status'[q] = status[q] /\ reserv'[q] = reserv[q],
         UNCHANGED <<gram, signed, chain>>,
         status'[p] \in Early => status[p] \in Early,
         ~reserv'[p].lapsed,
         status'[p] \in PayoutInFlight => IsActive(p)' /\ reserv'[p].amt = gram[p],
         status'[p] = "SIGNED" => signed[p] = gram[p],
         \A w \in Worker : Carries(task'[w])
  PROVE  Agreement'
<1>1. ASSUME NEW q \in Payout PROVE Agreed(q)'
  BY DEF Agreement, Agreed, IsActive
<1>2. ASSUME NEW w \in Worker PROVE Carries(task[w])'
  <2>1. task'[w].at # "idle" => task'[w].p \in Payout
    BY DEF Inv, WorkersRemember, Remembers
  <2> QED BY <2>1 DEF Agreement, Carries, Early
<1> QED BY <1>1, <1>2 DEF Agreement

(* The pipeline: a payout is locked before it is reserved, and reserved    *)
(* for the figure it is locked at.                                         *)
LEMMA AgreementPipeline ==
  ASSUME Inv, Inv', Agreement, PipelineStep
  PROVE  Agreement'
<1>1. PICK p \in Payout :
        \/ QueueAutomatic(p) \/ \E requested \in Requests : QueueInstant(p, requested)
        \/ \E rate \in Rates : LockPayoutRate(p, rate)
        \/ ReservePayoutLiquidity(p)
  BY DEF PipelineStep
<1>2. \A w \in Worker : Carries(task[w])
  BY DEF Agreement
<1>3. \A w \in Worker : task[w].at # "idle" => task[w].p \in Payout
  BY DEF Inv, WorkersRemember, Remembers
<1>4. CASE QueueAutomatic(p) \/ \E requested \in Requests : QueueInstant(p, requested)
  <2>1. PICK gross \in Nat, charge \in Nat : QueueGross(p, gross, charge)
    BY <1>4, QueueStep
  <2>2. status[p] = "NONE" /\ MoveTo(p, "QUEUED")
        /\ UNCHANGED <<gram, reserv, signed, chain, task>>
    BY <2>1 DEF QueueGross
  <2>3. status'[p] = "QUEUED" /\ \A q \in Payout \ {p} : status'[q] = status[q]
    BY <2>2 DEF MoveTo, Inv, TypeOK
  <2>4. ~reserv[p].lapsed
    BY DEF Agreement, Agreed
  <2> QED BY <1>2, <2>2, <2>3, <2>4, AgreementKept DEF Early, PayoutInFlight
<1>5. CASE \E rate \in Rates : LockPayoutRate(p, rate)
  <2>1. PICK grams : /\ status[p] \in Early /\ MoveTo(p, "RATE_LOCKED")
                     /\ gram' = [gram EXCEPT ![p] = grams]
                     /\ UNCHANGED <<reserv, signed, chain, task>>
    BY <1>5 DEF LockPayoutRate, Lockable, Early
  <2>2. /\ status'[p] = "RATE_LOCKED"
        /\ \A q \in Payout \ {p} : status'[q] = status[q] /\ gram'[q] = gram[q]
    BY <2>1 DEF MoveTo, Inv, TypeOK
  <2>3. ASSUME NEW q \in Payout PROVE Agreed(q)'
    BY <2>1, <2>2 DEF Agreement, Agreed, IsActive, Early, PayoutInFlight
  <2>4. ASSUME NEW w \in Worker PROVE Carries(task[w])'
    BY <1>2, <1>3, <2>1, <2>2 DEF Carries, Early
  <2> QED BY <2>3, <2>4 DEF Agreement
<1>6. CASE ReservePayoutLiquidity(p)
  <2>1. PICK s \in {"WAITING_LIQUIDITY", "RESERVED"} :
          /\ status[p] = "RATE_LOCKED" /\ MoveTo(p, s)
          /\ \/ s = "WAITING_LIQUIDITY" /\ reserv' = reserv
             \/ /\ s = "RESERVED"
                /\ reserv' = [reserv EXCEPT ![p] = [st |-> "ACTIVE", amt |-> gram[p], lapsed |-> FALSE]]
          /\ UNCHANGED <<gram, signed, chain, task>>
    BY <1>6 DEF ReservePayoutLiquidity
  <2>2. status'[p] = s /\ \A q \in Payout \ {p} : status'[q] = status[q] /\ reserv'[q] = reserv[q]
    BY <2>1 DEF MoveTo, Inv, TypeOK
  <2>3. ~reserv'[p].lapsed /\ (s = "RESERVED" => IsActive(p)' /\ reserv'[p].amt = gram[p])
    BY <2>1 DEF Agreement, Agreed, Inv, TypeOK, IsActive
  <2> QED BY <1>2, <2>1, <2>2, <2>3, AgreementKept DEF Early, PayoutInFlight
<1> QED BY <1>1, <1>4, <1>5, <1>6

(* A worker that starts takes the figure the payout has, and it starts     *)
(* signing or sending only what is past changing.                          *)
LEMMA AgreementBegin ==
  ASSUME Inv, Inv', Agreement, BeginTask
  PROVE  Agreement'
<1>1. PICK w \in Worker, p \in Payout :
        \/ SignValidate(w, p) \/ BroadcastValidate(w, p)
        \/ \E use \in {"advance", "reconcile"} : \E statuses : Observe(w, p, use, statuses)
  BY DEF BeginTask, AdvanceObserve, ReconcileObserve
<1>2. UNCHANGED <<status, gram, reserv, signed, chain>> /\ \E t : task' = [task EXCEPT ![w] = t]
  BY <1>1 DEF SignValidate, BroadcastValidate, Observe, Begin
<1>3. Carries(task'[w])
  <2>1. CASE SignValidate(w, p)
    BY <2>1 DEF SignValidate, Begin, Idle, Carries, Early, Inv, TypeOK
  <2>2. CASE BroadcastValidate(w, p)
    BY <2>2 DEF BroadcastValidate, Sendable, Begin, Idle, Carries, Early, Agreement, Agreed, Inv, TypeOK
  <2>3. CASE \E use \in {"advance", "reconcile"} : \E statuses : Observe(w, p, use, statuses)
    BY <2>3 DEF Observe, Begin, Carries, Inv, TypeOK
  <2> QED BY <1>1, <2>1, <2>2, <2>3
<1>4. \A v \in Worker \ {w} : Carries(task'[v])
  BY <1>2 DEF Agreement, Inv, TypeOK
<1>5. /\ ~reserv[p].lapsed /\ (status[p] = "SIGNED" => signed[p] = gram[p])
      /\ status[p] \in PayoutInFlight => IsActive(p) /\ reserv[p].amt = gram[p]
  BY DEF Agreement, Agreed
<1> QED BY <1>2, <1>3, <1>4, <1>5, AgreementKept DEF IsActive

(* The signer signs, and the network takes, the figure of the payout.      *)
LEMMA AgreementSigner ==
  ASSUME Inv, Inv', Agreement, NEW w \in Worker, SignerSign(w)
  PROVE  Agreement'
<1>1. PICK p \in Payout : p = task[w].p /\ task[w] \in Task
  BY TaskOfWorker DEF Inv, SignerSign
<1>2. /\ status[p] \notin Early /\ task[w].amt = gram[p] /\ task[w].at = "sign"
      /\ signed[p] \in {0, gram[p]}
  BY <1>1 DEF Agreement, Carries, Agreed, SignerSign
<1>3. signed' = [signed EXCEPT ![p] = gram[p]] /\ UNCHANGED <<status, gram, reserv, chain>>
  BY <1>1, <1>2 DEF SignerSign, Inv, TypeOK
<1>4. task'[w].p = p /\ task'[w].amt = gram[p] /\ task'[w].at = "record"
      /\ \A v \in Worker \ {w} : task'[v] = task[v]
  BY <1>1, <1>2 DEF SignerSign, Goto, Task, Inv, TypeOK
<1>5. signed'[p] = gram[p] /\ \A q \in Payout \ {p} : signed'[q] = signed[q]
  BY <1>3 DEF Inv, TypeOK
<1>6. ASSUME NEW q \in Payout PROVE Agreed(q)'
  BY <1>2, <1>3, <1>5 DEF Agreement, Agreed, IsActive
<1>7. ASSUME NEW v \in Worker PROVE Carries(task[v])'
  <2>1. task[v].at # "idle" => task[v].p \in Payout
    BY DEF Inv, WorkersRemember, Remembers
  <2> QED BY <1>2, <1>3, <1>4, <1>5, <2>1 DEF Agreement, Carries
<1> QED BY <1>6, <1>7 DEF Agreement

LEMMA AgreementPost ==
  ASSUME Inv, Inv', Agreement, NEW w \in Worker, SendPost(w)
  PROVE  Agreement'
<1>1. PICK p \in Payout : p = task[w].p /\ task[w] \in Task
  BY TaskOfWorker DEF Inv, SendPost
<1>2. /\ status[p] \notin Early /\ task[w].amt = gram[p] /\ signed[p] = gram[p]
      /\ task[w].at = "post"
  BY <1>1 DEF Agreement, Carries, SendPost
<1>3. /\ \/ chain' = chain
         \/ chain' = [chain EXCEPT ![p] = [st |-> "PENDING", amt |-> gram[p], cost |-> 0]]
      /\ UNCHANGED <<status, gram, reserv, signed>>
  BY <1>1, <1>2 DEF SendPost
<1>4. task'[w].at \in {"accepted", "ambiguous", "rejected"}
      /\ \A v \in Worker \ {w} : task'[v] = task[v]
  BY <1>1 DEF SendPost, Goto, Task, Inv, TypeOK
<1>5. \A q \in Payout : chain'[q] = chain[q] \/ (q = p /\ chain'[q].amt = gram[p])
  BY <1>3 DEF Inv, TypeOK
<1>6. ASSUME NEW q \in Payout PROVE Agreed(q)'
  BY <1>2, <1>3, <1>5 DEF Agreement, Agreed, IsActive
<1>7. ASSUME NEW v \in Worker PROVE Carries(task[v])'
  BY <1>3, <1>4 DEF Agreement, Carries
<1> QED BY <1>6, <1>7 DEF Agreement

(* No other step of a worker signs, sends, or takes a payout back.         *)
LEMMA AgreementTask ==
  ASSUME Inv, Inv', Agreement, NEW w \in Worker, TaskStep(w), ~SignerSign(w), ~SendPost(w)
  PROVE  Agreement'
<1>0. task[w].at # "idle"
  BY DEF TaskStep, SignerSign, SignRecord, SendLookup, SendPost, BroadcastRecord, MarkUnknown,
         FailRejected, MarkConfirming, AdvanceSettle, ReconcileSettle, SettledBefore, ReconcileReset,
         ReconcileFail, FailedBefore, ResolveExceptions, StillUnknown
<1>1. PICK p \in Payout : p = task[w].p /\ task[w] \in Task
  BY <1>0, TaskOfWorker DEF Inv
<1>2. UNCHANGED <<gram, signed, chain>>
  BY DEF TaskStep, SignRecord, SendLookup, BroadcastRecord, MarkUnknown,
         FailRejected, MarkConfirming, AdvanceSettle, ReconcileSettle, ReconcileReset,
         ReconcileFail, ResolveExceptions, StillUnknown
<1>3. \/ UNCHANGED <<status, reserv>>
      \/ task[w].at = "record" /\ status[p] \in PayoutInFlight /\ MoveTo(p, "SIGNED") /\ reserv' = reserv
      \/ \E s \in PayoutInFlight \ {"SIGNED"} :
             status[p] \in PayoutInFlight /\ MoveTo(p, s) /\ reserv' = reserv
      \/ \E s \in {"SETTLED", "FAILED"}, end \in {"CONSUMED", "RELEASED"} :
             MoveTo(p, s) /\ EndReservation(p, end)
  BY <1>1, ZenonT(40)
     DEF TaskStep, SignRecord, SendLookup, BroadcastRecord, MarkUnknown,
         FailRejected, FailPayout, MarkConfirming, AdvanceSettle, SettlePayout, SkipSettle,
         ReconcileSettle, ReconcileReset, ReconcileFail, ResolveExceptions, StillUnknown,
         PayoutInFlight
<1>4. \/ Done(w)
      \/ task[w].at = "lookup" /\ Goto(w, [task[w] EXCEPT !.at = "post"])
      \/ \E at \in {"accepted", "rejected", "fail", "resolve"} :
           Goto(w, [task[w] EXCEPT !.at = at])
  BY ZenonT(40)
     DEF TaskStep, SignRecord, SendLookup, BroadcastRecord, MarkUnknown,
         FailRejected, MarkConfirming, AdvanceSettle, ReconcileSettle, ReconcileReset,
         ReconcileFail, ResolveExceptions, StillUnknown
<1>5. Carries(task'[w])
  <2>1. Carries(task[w])
    BY DEF Agreement
  <2>2. CASE Done(w)
    BY <2>2 DEF Done, Idle, Carries, Inv, TypeOK
  <2>3. CASE task[w].at = "lookup" /\ Goto(w, [task[w] EXCEPT !.at = "post"])
    <3>1. task'[w].at = "post" /\ task'[w].p = p /\ task'[w].amt = task[w].amt
      BY <1>1, <2>3 DEF Goto, Task, Inv, TypeOK
    <3> QED BY <1>1, <2>1, <2>3, <3>1 DEF Carries
  <2>4. CASE \E at \in {"accepted", "rejected", "fail", "resolve"} :
               Goto(w, [task[w] EXCEPT !.at = at])
    BY <1>1, <2>4 DEF Goto, Task, Carries, Inv, TypeOK
  <2> QED BY <1>4, <2>2, <2>3, <2>4
<1>6. \A v \in Worker : Carries(task'[v])
  BY <1>4, <1>5 DEF Done, Goto, Agreement, Inv, TypeOK
<1>7. Agreed(p)
  BY DEF Agreement
<1>8. CASE UNCHANGED <<status, reserv>>
  BY <1>2, <1>6, <1>7, <1>8, AgreementKept DEF Agreed, IsActive
<1>9. CASE task[w].at = "record" /\ status[p] \in PayoutInFlight /\ MoveTo(p, "SIGNED") /\ reserv' = reserv
  <2>1. status'[p] = "SIGNED" /\ \A q \in Payout \ {p} : status'[q] = status[q]
    BY <1>9 DEF MoveTo, Inv, TypeOK
  <2>2. signed[p] = gram[p]
    BY <1>1, <1>9 DEF Agreement, Carries
  <2> QED BY <1>2, <1>6, <1>7, <1>9, <2>1, <2>2, AgreementKept DEF Agreed, IsActive, Early
<1>10. CASE \E s \in PayoutInFlight \ {"SIGNED"} :
             status[p] \in PayoutInFlight /\ MoveTo(p, s) /\ reserv' = reserv
  <2>1. /\ status'[p] \in PayoutInFlight \ {"SIGNED"} /\ \A q \in Payout \ {p} : status'[q] = status[q]
        /\ status[p] \in PayoutInFlight /\ reserv' = reserv
    BY <1>10 DEF MoveTo, Inv, TypeOK
  <2> QED BY <1>2, <1>6, <1>7, <2>1, AgreementKept DEF Agreed, IsActive, Early, PayoutInFlight
<1>11. CASE \E s \in {"SETTLED", "FAILED"}, end \in {"CONSUMED", "RELEASED"} :
             MoveTo(p, s) /\ EndReservation(p, end)
  <2>1. /\ status'[p] \in {"SETTLED", "FAILED"} /\ \A q \in Payout \ {p} : status'[q] = status[q]
    BY <1>11 DEF MoveTo, Inv, TypeOK
  <2>2. /\ reserv'[p].lapsed = reserv[p].lapsed /\ \A q \in Payout \ {p} : reserv'[q] = reserv[q]
    BY <1>11 DEF EndReservation, Inv, TypeOK, Reservation
  <2> QED BY <1>2, <1>6, <1>7, <2>1, <2>2, AgreementKept DEF Agreed, Early, PayoutInFlight
<1> QED BY <1>3, <1>8, <1>9, <1>10, <1>11

(* The network only ever takes a pending transfer further.                 *)
LEMMA AgreementWorld ==
  ASSUME Inv, Inv', Agreement, ~MayLapse,
         \/ EnvironmentStep
         \/ \E amt \in Fundings : RecordFunding(amt)
         \/ UNCHANGED vars
  PROVE  Agreement'
<1>1. UNCHANGED <<status, gram, reserv, signed>>
  BY DEF EnvironmentStep, ReservationLapses, WindowPasses, TransferLost, TransferLands,
         ReplaceWallet, ChangeEligibility, AdminResolves, ToggleFreeze,
         ReconcileAges, Crash, RecordFunding, vars
<1>2. \A q \in Payout : /\ chain'[q].amt = chain[q].amt
                        /\ chain'[q].st = "NONE" <=> chain[q].st = "NONE"
  <2>1. \/ chain' = chain
        \/ \E p \in Payout, cost \in NetworkFees : TransferLands(p, cost)
        \/ \E p \in Payout, end \in {"DROPPED", "FAILED"} : TransferLost(p, end)
    BY DEF EnvironmentStep, ReservationLapses, WindowPasses, ReplaceWallet, ChangeEligibility,
           AdminResolves, ToggleFreeze, ReconcileAges, Crash, RecordFunding, vars
  <2>2. CASE \E p \in Payout, cost \in NetworkFees : TransferLands(p, cost)
    BY <2>2 DEF TransferLands, Inv, TypeOK, Transfer
  <2>3. CASE \E p \in Payout, end \in {"DROPPED", "FAILED"} : TransferLost(p, end)
    BY <2>3 DEF TransferLost, Inv, TypeOK, Transfer
  <2> QED BY <2>1, <2>2, <2>3
<1>3. ASSUME NEW q \in Payout PROVE Agreed(q)'
  BY <1>1, <1>2 DEF Agreement, Agreed, IsActive
<1>4. ASSUME NEW w \in Worker PROVE Carries(task[w])'
  <2>1. \/ task' = task
        \/ \E v \in Worker : Done(v) \/ Goto(v, [task[v] EXCEPT !.old = TRUE])
    BY DEF EnvironmentStep, ReservationLapses, WindowPasses, TransferLost, TransferLands,
           ReplaceWallet, ChangeEligibility, AdminResolves, ToggleFreeze,
         ReconcileAges, Crash, RecordFunding, vars
  <2>2. \/ task'[w] = Idle
        \/ task'[w].at = task[w].at /\ task'[w].p = task[w].p /\ task'[w].amt = task[w].amt
    <3>1. CASE task' = task \/ \E v \in Worker : Done(v)
      BY <3>1 DEF Done, Inv, TypeOK
    <3>2. CASE \E v \in Worker : Goto(v, [task[v] EXCEPT !.old = TRUE])
      <4>1. PICK v \in Worker : Goto(v, [task[v] EXCEPT !.old = TRUE])
        BY <3>2
      <4>2. task[v] \in Task
        BY DEF Inv, TypeOK
      <4>3. CASE v = w
        BY <4>1, <4>2, <4>3 DEF Goto, Inv, TypeOK, Task
      <4>4. CASE v # w
        BY <4>1, <4>4 DEF Goto, Inv, TypeOK
      <4> QED BY <4>3, <4>4
    <3> QED BY <2>1, <3>1, <3>2
  <2> QED BY <1>1, <2>2 DEF Agreement, Carries, Idle
<1> QED BY <1>3, <1>4 DEF Agreement

LEMMA AgreementNext ==
  ASSUME ~MayLapse, Inv, Agreement, [Next]_vars
  PROVE  Agreement'
<1>1. Inv'
  BY InvNext
<1>2. ~ExpireStaleReservations
  BY DEF ExpireStaleReservations, Stale, Agreement, Agreed
<1> QED
  BY <1>1, <1>2, AgreementPipeline, AgreementBegin, AgreementSigner, AgreementPost, AgreementTask,
     AgreementWorld
     DEF Next

LEMMA AgreementInit == Init => Agreement
BY DEF Init, Agreement, Agreed, Carries, Idle, Early, PayoutInFlight, NoReservation, NoTransfer

(* What is broadcast is the figure the signer signed and the figure the    *)
(* merchant was told, however many cycles sign and send at once, however   *)
(* they crash and are answered, as long as no reservation lapses           *)
(* (lockPayoutRate, signPayout, broadcastPayout).                          *)
THEOREM SentIsAgreedHolds == ~MayLapse => (Spec => []SentIsAgreed)
<1>1. ~MayLapse /\ Init => Inv /\ Agreement
  BY InvInit, AgreementInit
<1>2. ~MayLapse /\ Inv /\ Agreement /\ [Next]_vars => Inv' /\ Agreement'
  BY InvNext, AgreementNext
<1>3. Agreement => SentIsAgreed
  BY DEF Agreement, Agreed, SentIsAgreed, SentIsSigned, SentIsLocked
<1>4. ASSUME ~MayLapse PROVE Spec => []SentIsAgreed
  <2> QED BY <1>1, <1>2, <1>3, <1>4, PTL DEF Spec
<1> QED BY <1>4

-----------------------------------------------------------------------------
(***************************************************************************)
(* The pipeline implements TransferPromise while no reservation lapses.    *)
(* A figure is locked above zero and kept, so that a signature, which the  *)
(* signer keeps by sign request, covers something whenever one was made.   *)
(***************************************************************************)
Figured ==
  /\ \A p \in Payout : status[p] \notin {"NONE", "QUEUED", "FAILED"} => gram[p] # 0
  /\ \A w \in Worker : task[w].at \in {"sign", "record", "lookup", "post"} => task[w].amt # 0

(* Only locking gives a payout a figure, and only a figure takes it on.    *)
LEMMA FigureStep ==
  ASSUME Inv, [Next]_vars
  PROVE  \A p \in Payout :
           \/ status'[p] \in {"NONE", "QUEUED", "FAILED"}
           \/ gram'[p] # 0
           \/ gram'[p] = gram[p] /\ status[p] \notin {"NONE", "QUEUED", "FAILED"}
<1>0. SUFFICES ASSUME NEW p \in Payout, status'[p] \notin {"NONE", "QUEUED", "FAILED"}
               PROVE  gram'[p] # 0 \/ (gram'[p] = gram[p] /\ status[p] \notin {"NONE", "QUEUED", "FAILED"})
  OBVIOUS
<1>1. CASE PipelineStep
  <2>1. PICK q \in Payout :
          \/ QueueAutomatic(q) \/ \E requested \in Requests : QueueInstant(q, requested)
          \/ \E rate \in Rates : LockPayoutRate(q, rate)
          \/ ReservePayoutLiquidity(q)
    BY <1>1 DEF PipelineStep
  <2>2. CASE QueueAutomatic(q) \/ \E requested \in Requests : QueueInstant(q, requested)
    <3>1. MoveTo(q, "QUEUED") /\ gram' = gram
      BY <2>2 DEF QueueAutomatic, QueueInstant, QueueGross
    <3> QED BY <1>0, <3>1 DEF MoveTo, Inv, TypeOK
  <2>3. CASE \E rate \in Rates : LockPayoutRate(q, rate)
    <3>1. PICK grams : grams > 0 /\ gram' = [gram EXCEPT ![q] = grams] /\ MoveTo(q, "RATE_LOCKED")
      BY <2>3 DEF LockPayoutRate
    <3>2. ~(0 > 0)
      OBVIOUS
    <3>3. gram'[q] # 0
      BY <3>1, <3>2 DEF Inv, TypeOK
    <3>4. \A r \in Payout \ {q} : gram'[r] = gram[r] /\ status'[r] = status[r]
      BY <3>1 DEF MoveTo, Inv, TypeOK
    <3> QED BY <1>0, <3>3, <3>4
  <2>4. CASE ReservePayoutLiquidity(q)
    BY <1>0, <2>4 DEF ReservePayoutLiquidity, MoveTo, Inv, TypeOK
  <2> QED BY <2>1, <2>2, <2>3, <2>4
<1>2. CASE BeginTask
  BY <1>0, <1>2 DEF BeginTask, SignValidate, BroadcastValidate, Sendable, AdvanceObserve, ReconcileObserve, Observe
<1>3. CASE \E w \in Worker : TaskStep(w)
  <2>1. PICK w \in Worker : TaskStep(w)
    BY <1>3
  <2>2. gram' = gram
    BY <2>1 DEF TaskStep, SignerSign, SignRecord, SendLookup, SendPost, BroadcastRecord,
         MarkUnknown, FailRejected, MarkConfirming, AdvanceSettle, ReconcileSettle, SettledBefore,
         ReconcileReset, ReconcileFail, FailedBefore, ResolveExceptions, StillUnknown
  <2>3. \/ status' = status
        \/ /\ status[task[w].p] \notin {"NONE", "QUEUED", "FAILED"}
           /\ \E s : status' = [status EXCEPT ![task[w].p] = s]
        \/ status' = [status EXCEPT ![task[w].p] = "FAILED"]
    <3>1. CASE FailRejected(w) \/ ReconcileFail(w)
      BY <3>1 DEF FailRejected, ReconcileFail, FailedBefore, FailPayout, EndReservation, MoveTo
    <3>2. CASE AdvanceSettle(w) \/ ReconcileSettle(w)
      BY <3>2 DEF AdvanceSettle, ReconcileSettle, SettledBefore, Settleable, SettlePayout, EndReservation,
                  SkipSettle, MoveTo
    <3>3. CASE SignRecord(w) \/ BroadcastRecord(w) \/ MarkUnknown(w) \/ MarkConfirming(w)
               \/ ReconcileReset(w)
      BY <3>3 DEF SignRecord, BroadcastRecord, MarkUnknown, MarkConfirming, ReconcileReset, MoveTo
    <3>4. CASE SignerSign(w) \/ SendLookup(w) \/ SendPost(w) \/ ResolveExceptions(w)
               \/ StillUnknown(w)
      BY <3>4 DEF SignerSign, SendLookup, SendPost, ResolveExceptions, StillUnknown
    <3> QED BY <2>1, <3>1, <3>2, <3>3, <3>4 DEF TaskStep
  <2> QED BY <1>0, <2>2, <2>3 DEF Inv, TypeOK
<1>4. CASE ExpireStaleReservations
  BY <1>0, <1>4 DEF ExpireStaleReservations, Stale
<1>5. CASE \E amt \in Fundings : RecordFunding(amt)
  BY <1>0, <1>5 DEF RecordFunding
<1>6. CASE EnvironmentStep
  BY <1>0, <1>6 DEF EnvironmentStep, ReservationLapses, WindowPasses, TransferLost, TransferLands,
              ReplaceWallet, ChangeEligibility, AdminResolves, ToggleFreeze,
         ReconcileAges, Crash
<1>7. CASE UNCHANGED vars
  BY <1>0, <1>7 DEF vars
<1> QED BY <1>1, <1>2, <1>3, <1>4, <1>5, <1>6, <1>7 DEF Next

(* A worker that starts takes the figure, and carries it to the end.       *)
LEMMA FiguredNext == Inv /\ Figured /\ [Next]_vars => Figured'
<1> SUFFICES ASSUME Inv, Figured, [Next]_vars PROVE Figured'
  OBVIOUS
<1>1. \A p \in Payout : status'[p] \notin {"NONE", "QUEUED", "FAILED"} => gram'[p] # 0
  BY FigureStep DEF Figured
<1>2. CASE UNCHANGED task
  BY <1>1, <1>2 DEF Figured
<1>3. CASE BeginTask
  <2>1. PICK w \in Worker, p \in Payout :
          \/ SignValidate(w, p) \/ BroadcastValidate(w, p)
          \/ \E use \in {"advance", "reconcile"} : \E statuses : Observe(w, p, use, statuses)
    BY <1>3 DEF BeginTask, AdvanceObserve, ReconcileObserve
  <2>2. task'[w].amt # 0 \/ task'[w].at \in {"advance", "reconcile"}
    <3>1. CASE SignValidate(w, p)
      <4>1. gram[p] # 0
        BY <3>1 DEF SignValidate, Figured
      <4>2. task'[w].amt = gram[p]
        BY <3>1 DEF SignValidate, Begin, Idle, Inv, TypeOK
      <4> QED BY <4>1, <4>2
    <3>2. CASE BroadcastValidate(w, p)
      <4>1. gram[p] # 0
        BY <3>2 DEF BroadcastValidate, Sendable, Figured
      <4>2. task'[w].amt = gram[p]
        BY <3>2 DEF BroadcastValidate, Begin, Idle, Inv, TypeOK
      <4> QED BY <4>1, <4>2
    <3>3. CASE \E use \in {"advance", "reconcile"} : \E statuses : Observe(w, p, use, statuses)
      BY <3>3 DEF Observe, Begin, Inv, TypeOK
    <3> QED BY <2>1, <3>1, <3>2, <3>3
  <2>3. \E t : task' = [task EXCEPT ![w] = t]
    BY <2>1 DEF SignValidate, BroadcastValidate, Observe, Begin
  <2>4. \A v \in Worker \ {w} : task'[v] = task[v]
    BY <2>3 DEF Inv, TypeOK
  <2> QED BY <1>1, <2>2, <2>4 DEF Figured
<1>4. CASE \E w \in Worker : TaskStep(w) \/ Crash(w)
  <2>1. PICK w \in Worker : TaskStep(w) \/ Crash(w)
    BY <1>4
  <2>2. \/ Done(w)
        \/ /\ task[w].at \in {"sign", "lookup"}
           /\ \E at : Goto(w, [task[w] EXCEPT !.at = at])
        \/ \E at \in {"accepted", "ambiguous", "rejected", "fail", "resolve"} : Goto(w, [task[w] EXCEPT !.at = at])
    BY <2>1, ZenonT(40)
       DEF TaskStep, Crash, SignerSign, SignRecord, SendLookup, SendPost, BroadcastRecord, MarkUnknown,
           FailRejected, MarkConfirming, AdvanceSettle, ReconcileSettle, ReconcileReset,
           ReconcileFail, ResolveExceptions, StillUnknown
  <2>3. task[w] \in Task
    BY DEF Inv, TypeOK
  <2>4. task'[w].at \in {"sign", "record", "lookup", "post"} => task'[w].amt # 0
    <3>1. CASE Done(w)
      BY <3>1 DEF Done, Idle, Inv, TypeOK
    <3>2. CASE task[w].at \in {"sign", "lookup"} /\ \E at : Goto(w, [task[w] EXCEPT !.at = at])
      <4>1. task'[w].amt = task[w].amt
        BY <2>3, <3>2 DEF Goto, Task, Inv, TypeOK
      <4> QED BY <3>2, <4>1 DEF Figured
    <3>3. CASE \E at \in {"accepted", "ambiguous", "rejected", "fail", "resolve"} :
                 Goto(w, [task[w] EXCEPT !.at = at])
      BY <2>3, <3>3 DEF Goto, Task, Inv, TypeOK
    <3> QED BY <2>2, <3>1, <3>2, <3>3
  <2>5. \A v \in Worker \ {w} : task'[v] = task[v]
    BY <2>2 DEF Done, Goto, Inv, TypeOK
  <2> QED BY <1>1, <2>4, <2>5 DEF Figured
<1>5. CASE \E w \in Worker : ReconcileAges(w)
  <2>1. PICK w \in Worker : ReconcileAges(w)
    BY <1>5
  <2>2. task'[w].at = "reconcile" /\ \A v \in Worker \ {w} : task'[v] = task[v]
    BY <2>1 DEF ReconcileAges, Goto, Inv, TypeOK, Task
  <2> QED BY <1>1, <2>2 DEF Figured
<1>6. \/ UNCHANGED task \/ BeginTask
      \/ \E w \in Worker : TaskStep(w) \/ Crash(w) \/ ReconcileAges(w)
  BY DEF Next, PipelineStep, QueueAutomatic, QueueInstant, QueueGross, LockPayoutRate,
         ReservePayoutLiquidity, ExpireStaleReservations, RecordFunding, EnvironmentStep, ReservationLapses,
         WindowPasses, TransferLost, TransferLands, ReplaceWallet, ChangeEligibility,
         AdminResolves, ToggleFreeze, vars
<1> QED BY <1>2, <1>3, <1>4, <1>5, <1>6

LEMMA FiguredInit == Init => Figured
BY DEF Init, Figured, Idle

Signatures == [p \in Payout |-> {signed[p]} \ {0}]
Transfers  == [p \in Payout |-> IF chain[p].st = "NONE" THEN {} ELSE {chain[p].amt}]
Fates      == [p \in Payout |-> FateOf(p)]
PaidOut    == {p \in Payout : status[p] = "SETTLED"}

(* Which steps the promise sees: the signer signs, a transfer is posted,   *)
(* lands or is lost, and a payout is settled.                              *)
Unseen ==
  /\ UNCHANGED <<signed, chain>>
  /\ \A p \in Payout : status'[p] = "SETTLED" <=> status[p] = "SETTLED"

Settles(w) ==
  /\ task[w].p \in Payout /\ chain[task[w].p].st = "LANDED"
  /\ status' = [status EXCEPT ![task[w].p] = "SETTLED"]
  /\ UNCHANGED <<signed, chain>>

LEMMA SeenTaskSteps ==
  ASSUME Inv, NEW w \in Worker, TaskStep(w)
  PROVE  Unseen \/ SignerSign(w) \/ SendPost(w) \/ Settles(w)
<1>1. CASE SendLookup(w) \/ ResolveExceptions(w) \/ StillUnknown(w)
  BY <1>1 DEF SendLookup, ResolveExceptions, StillUnknown, Unseen
<1>2. CASE AdvanceSettle(w) \/ ReconcileSettle(w)
  <2>1. task[w].p \in Payout /\ chain[task[w].p].st = "LANDED" /\ UNCHANGED <<signed, chain>>
    BY <1>2 DEF AdvanceSettle, ReconcileSettle, SettledBefore, Inv, WorkersRemember, Remembers
  <2>2. status' = status \/ status' = [status EXCEPT ![task[w].p] = "SETTLED"]
    BY <1>2 DEF AdvanceSettle, ReconcileSettle, SettledBefore, SettlePayout, EndReservation, SkipSettle, MoveTo
  <2> QED BY <2>1, <2>2 DEF Unseen, Settles
<1>3. CASE FailRejected(w) \/ ReconcileFail(w)
  <2>1. UNCHANGED <<signed, chain>>
    BY <1>3 DEF FailRejected, ReconcileFail, FailedBefore
  <2>2. \/ status' = status
        \/ status[task[w].p] # "SETTLED" /\ status' = [status EXCEPT ![task[w].p] = "FAILED"]
    BY <1>3 DEF FailRejected, ReconcileFail, FailedBefore, Failable, FailPayout, EndReservation, MoveTo
  <2> QED BY <2>1, <2>2 DEF Unseen, Inv, TypeOK
<1>4. CASE SignRecord(w) \/ BroadcastRecord(w) \/ MarkUnknown(w) \/ MarkConfirming(w) \/ ReconcileReset(w)
  <2>1. UNCHANGED <<signed, chain>>
    BY <1>4 DEF SignRecord, BroadcastRecord, MarkUnknown, MarkConfirming, ReconcileReset
  <2>2. \/ status' = status
        \/ /\ status[task[w].p] # "SETTLED"
           /\ \E s \in Live : status' = [status EXCEPT ![task[w].p] = s]
    BY <1>4 DEF SignRecord, BroadcastRecord, MarkUnknown, MarkConfirming, ReconcileReset, MoveTo, Live, Status
  <2> QED BY <2>1, <2>2 DEF Unseen, Inv, TypeOK, Live
<1> QED BY <1>1, <1>2, <1>3, <1>4 DEF TaskStep

LEMMA SeenSteps ==
  ASSUME Inv, [Next]_vars
  PROVE  \/ Unseen
         \/ \E w \in Worker : SignerSign(w) \/ SendPost(w) \/ Settles(w)
         \/ \E p \in Payout, cost \in NetworkFees : TransferLands(p, cost)
         \/ \E p \in Payout, end \in {"DROPPED", "FAILED"} : TransferLost(p, end)
<1>1. CASE PipelineStep
  <2>1. PICK p \in Payout, s \in {"QUEUED", "RATE_LOCKED", "WAITING_LIQUIDITY", "RESERVED"} :
          status[p] # "SETTLED" /\ MoveTo(p, s) /\ UNCHANGED <<signed, chain>>
    <3>1. PICK p \in Payout :
            \/ QueueAutomatic(p) \/ \E requested \in Requests : QueueInstant(p, requested)
            \/ \E rate \in Rates : LockPayoutRate(p, rate)
            \/ ReservePayoutLiquidity(p)
      BY <1>1 DEF PipelineStep
    <3>2. CASE QueueAutomatic(p) \/ \E requested \in Requests : QueueInstant(p, requested)
      BY <3>2 DEF QueueAutomatic, QueueInstant, QueueGross
    <3>3. CASE \E rate \in Rates : LockPayoutRate(p, rate)
      BY <3>3 DEF LockPayoutRate, Lockable
    <3>4. CASE ReservePayoutLiquidity(p)
      BY <3>4 DEF ReservePayoutLiquidity
    <3> QED BY <3>1, <3>2, <3>3, <3>4
  <2> QED BY <2>1 DEF Unseen, MoveTo, Inv, TypeOK
<1>2. CASE BeginTask
  BY <1>2 DEF BeginTask, SignValidate, BroadcastValidate, Sendable, AdvanceObserve, ReconcileObserve, Observe, Unseen
<1>3. CASE \E w \in Worker : TaskStep(w)
  BY <1>3, SeenTaskSteps
<1>4. CASE ExpireStaleReservations
  BY <1>4 DEF ExpireStaleReservations, Stale, Unseen
<1>5. CASE \E amt \in Fundings : RecordFunding(amt)
  BY <1>5 DEF RecordFunding, Unseen
<1>6. CASE EnvironmentStep
  BY <1>6 DEF EnvironmentStep, ReservationLapses, WindowPasses, ReplaceWallet, ChangeEligibility, AdminResolves, ToggleFreeze,
         ReconcileAges, Crash, Unseen
<1>7. CASE UNCHANGED vars
  BY <1>7 DEF vars, Unseen
<1> QED BY <1>1, <1>2, <1>3, <1>4, <1>5, <1>6, <1>7 DEF Next

(* The signer signs once, for the figure the first request carried.        *)
LEMMA SigningSigns ==
  ASSUME Inv, Figured, NEW w \in Worker, SignerSign(w)
  PROVE  [Transferring!Next]_(Transferring!vars)
<1>1. PICK p \in Payout : p = task[w].p
  BY TaskOfWorker DEF Inv, SignerSign
<1>2. PICK figure : figure = task[w].amt /\ figure # 0
  BY DEF SignerSign, Figured
<1>3. signed' = [signed EXCEPT ![p] = IF signed[p] = 0 THEN figure ELSE signed[p]] /\ UNCHANGED <<status, chain>>
  BY <1>1, <1>2 DEF SignerSign
<1>4. Transfers' = Transfers /\ Fates' = Fates /\ PaidOut' = PaidOut
  BY <1>3 DEF Transfers, Fates, FateOf, PaidOut
<1>5. CASE signed[p] = 0
  <2>1. signed'[p] = figure /\ \A q \in Payout \ {p} : signed'[q] = signed[q]
    BY <1>3, <1>5 DEF Inv, TypeOK
  <2>2. Signatures[p] = {} /\ figure \in Signatures'[p] /\ Signatures' = [Signatures EXCEPT ![p] = {figure}]
    BY <1>2, <1>5, <2>1 DEF Signatures
  <2>3. Transferring!Sign(p)
    BY <1>4, <2>2 DEF Transferring!Sign, Signatures, Transfers, Fates, PaidOut
  <2> QED BY <2>3 DEF Transferring!Next
<1>6. CASE signed[p] # 0
  <2>1. signed' = signed
    BY <1>3, <1>6 DEF Inv, TypeOK
  <2>2. Signatures' = Signatures
    BY <2>1 DEF Signatures
  <2> QED BY <1>4, <2>2 DEF Transferring!vars, Signatures, Transfers, Fates, PaidOut
<1> QED BY <1>5, <1>6

(* What is posted is the figure signed, and only the first post counts.    *)
LEMMA PostingSends ==
  ASSUME Inv, Agreement, Figured, NEW w \in Worker, SendPost(w)
  PROVE  [Transferring!Next]_(Transferring!vars)
<1>1. PICK p \in Payout : p = task[w].p
  BY TaskOfWorker DEF Inv, SendPost
<1>2. PICK figure : figure = task[w].amt /\ figure # 0 /\ signed[p] = figure
  BY <1>1 DEF SendPost, Figured, Agreement, Carries
<1>3. /\ \/ chain' = chain
         \/ chain[p].st = "NONE" /\ chain' = [chain EXCEPT ![p] = [st |-> "PENDING", amt |-> figure, cost |-> 0]]
      /\ UNCHANGED <<status, signed>>
  BY <1>1, <1>2 DEF SendPost
<1>4. Signatures' = Signatures /\ PaidOut' = PaidOut /\ Signatures[p] = {figure}
  BY <1>2, <1>3 DEF Signatures, PaidOut
<1>5. CASE chain' = chain
  <2>1. Transfers' = Transfers /\ Fates' = Fates
    BY <1>5 DEF Transfers, Fates, FateOf
  <2> QED BY <1>4, <2>1 DEF Transferring!vars, Signatures, Transfers, Fates, PaidOut
<1>6. CASE chain[p].st = "NONE" /\ chain' = [chain EXCEPT ![p] = [st |-> "PENDING", amt |-> figure, cost |-> 0]]
  <2>1. chain'[p].st = "PENDING" /\ chain'[p].amt = figure /\ \A q \in Payout \ {p} : chain'[q] = chain[q]
    BY <1>6 DEF Inv, TypeOK
  <2>2. Transfers' = [Transfers EXCEPT ![p] = {figure}]
    BY <2>1 DEF Transfers
  <2>3. Fates' = [Fates EXCEPT ![p] = "SENT"] /\ Fates[p] = "NONE"
    <3>1. FateOf(p)' = "SENT" /\ FateOf(p) = "NONE" /\ \A q \in Payout \ {p} : FateOf(q)' = FateOf(q)
      BY <1>6, <2>1 DEF FateOf
    <3> QED BY <3>1 DEF Fates
  <2>4. Transferring!Send(p)
    BY <1>4, <2>2, <2>3 DEF Transferring!Send, Signatures, Transfers, Fates, PaidOut
  <2> QED BY <2>4 DEF Transferring!Next
<1> QED BY <1>3, <1>5, <1>6

(* The network lands a transfer or loses it, and what landed is settled.   *)
LEMMA NetworkEnds ==
  ASSUME Inv, NEW p \in Payout,
         \/ \E cost \in NetworkFees : TransferLands(p, cost)
         \/ \E end \in {"DROPPED", "FAILED"} : TransferLost(p, end)
  PROVE  Transferring!Next
<1>1. PICK end \in {"LANDED", "DROPPED", "FAILED"} :
        /\ chain[p].st = "PENDING" /\ UNCHANGED <<status, signed>>
        /\ chain'[p].st = end /\ chain'[p].amt = chain[p].amt
        /\ \A q \in Payout \ {p} : chain'[q] = chain[q]
  <2>1. CASE \E cost \in NetworkFees : TransferLands(p, cost)
    <3>1. chain[p].st = "PENDING" /\ UNCHANGED <<status, signed>>
      BY <2>1 DEF TransferLands
    <3>2. chain'[p].st = "LANDED" /\ chain'[p].amt = chain[p].amt /\ \A q \in Payout \ {p} : chain'[q] = chain[q]
      <4>1. PICK cost : chain' = [chain EXCEPT ![p] = [@ EXCEPT !.st = "LANDED", !.cost = cost]]
        BY <2>1 DEF TransferLands
      <4>2. chain \in [Payout -> Transfer] /\ chain[p] \in Transfer
        BY DEF Inv, TypeOK
      <4> QED BY <4>1, <4>2 DEF Transfer
    <3> QED BY <3>1, <3>2
  <2>2. CASE \E end \in {"DROPPED", "FAILED"} : TransferLost(p, end)
    BY <2>2 DEF TransferLost, Inv, TypeOK, Transfer
  <2> QED BY <2>1, <2>2
<1>2. Transfers' = Transfers /\ Signatures' = Signatures /\ PaidOut' = PaidOut
  BY <1>1 DEF Transfers, Signatures, PaidOut
<1>3. Fates[p] = "SENT" /\ Fates' = [Fates EXCEPT ![p] = IF end = "LANDED" THEN "LANDED" ELSE "LOST"]
  BY <1>1 DEF Fates, FateOf
<1>4. Transferring!Land(p) \/ Transferring!Lose(p)
  BY <1>2, <1>3 DEF Transferring!Land, Transferring!Lose, Signatures, Transfers, Fates, PaidOut
<1> QED BY <1>4 DEF Transferring!Next

LEMMA SettlingPays ==
  ASSUME Inv, NEW w \in Worker, Settles(w)
  PROVE  Transferring!Next
<1>1. PICK p \in Payout : p = task[w].p /\ chain[p].st = "LANDED"
  BY DEF Settles
<1>2. Transfers' = Transfers /\ Signatures' = Signatures /\ Fates' = Fates /\ Fates[p] = "LANDED"
  BY <1>1 DEF Settles, Transfers, Signatures, Fates, FateOf
<1>3. PaidOut' = PaidOut \cup {p}
  BY <1>1 DEF Settles, PaidOut, Inv, TypeOK
<1>4. Transferring!Pay(p)
  BY <1>2, <1>3 DEF Transferring!Pay, Signatures, Transfers, Fates, PaidOut
<1> QED BY <1>4 DEF Transferring!Next

LEMMA TransferringNext ==
  ASSUME Inv, Agreement, Figured, [Next]_vars
  PROVE  [Transferring!Next]_(Transferring!vars)
<1>1. CASE Unseen
  <2>1. Signatures' = Signatures /\ Transfers' = Transfers /\ Fates' = Fates /\ PaidOut' = PaidOut
    BY <1>1 DEF Unseen, Signatures, Transfers, Fates, FateOf, PaidOut
  <2> QED BY <2>1 DEF Transferring!vars, Signatures, Transfers, Fates, PaidOut
<1>2. CASE \E w \in Worker : SignerSign(w)
  BY <1>2, SigningSigns
<1>3. CASE \E w \in Worker : SendPost(w)
  BY <1>3, PostingSends
<1>4. CASE \E w \in Worker : Settles(w)
  BY <1>4, SettlingPays
<1>5. CASE \/ \E p \in Payout, cost \in NetworkFees : TransferLands(p, cost)
           \/ \E p \in Payout, end \in {"DROPPED", "FAILED"} : TransferLost(p, end)
  BY <1>5, NetworkEnds
<1> QED BY <1>1, <1>2, <1>3, <1>4, <1>5, SeenSteps

LEMMA TransferringInit == Init => Transferring!Init
<1> SUFFICES ASSUME Init PROVE Transferring!Init
  OBVIOUS
<1>1. Signatures = [p \in Payout |-> {}] /\ Transfers = [p \in Payout |-> {}] /\ PaidOut = {}
  BY DEF Init, NoTransfer, Signatures, Transfers, PaidOut
<1>2. Fates = [p \in Payout |-> "NONE"]
  BY DEF Init, NoTransfer, Fates, FateOf
<1> QED BY <1>1, <1>2 DEF Transferring!Init, Signatures, Transfers, Fates, PaidOut

(* What leaves is what the payout was signed for and the merchant was told,*)
(* it leaves once, and a payout is settled only when it landed, through    *)
(* every crash, overlap and failed lookup, as long as no reservation       *)
(* lapses (signPayout, TonAdapter.send, settlePayout): the promise that    *)
(* Transfers keeps with leases and numbers.                                *)
THEOREM KeepsTransferPromiseHolds == ~MayLapse => (Spec => KeepsTransferPromise)
<1>1. Init => Inv /\ Agreement /\ Figured
  BY InvInit, AgreementInit, FiguredInit
<1>2. ~MayLapse /\ Inv /\ Agreement /\ Figured /\ [Next]_vars => Inv' /\ Agreement' /\ Figured'
  BY InvNext, AgreementNext, FiguredNext
<1>3. Inv /\ Agreement /\ Figured /\ [Next]_vars => [Transferring!Next]_(Transferring!vars)
  BY TransferringNext
<1>4. ASSUME ~MayLapse PROVE Spec => KeepsTransferPromise
  <2>1. Spec => []SentIsAgreed
    BY <1>4, SentIsAgreedHolds
  <2> QED BY <1>1, <1>2, <1>3, <1>4, <2>1, TransferringInit, PTL DEF Spec, KeepsTransferPromise, Transferring!Spec
<1> QED BY <1>4

-----------------------------------------------------------------------------
(***************************************************************************)
(* The treasury.  Settling takes the principal and the network's fee out   *)
(* of it, but only the principal was reserved: what is in flight is        *)
(* covered up to the fees charged so far.                                  *)
(***************************************************************************)
promised == [p \in Payout |-> IF status[p] \in PayoutInFlight THEN gram[p] ELSE 0]
locked == [p \in Payout |-> reserv[p].amt]

Covered == SumFunctionOnSet(promised, Payout) + SafetyReserve
             <= confirmed + SumFunctionOnSet(Charged, Payout)

LockedAdds(S, g) ==
  g = [s \in SUBSET S |-> IF s = {} THEN 0 ELSE reserv[Pick(s)].amt + g[s \ {Pick(s)}]]
GramAdds(S, g) ==
  g = [s \in SUBSET S |-> IF s = {} THEN 0 ELSE gram[Pick(s)] + g[s \ {Pick(s)}]]

(* The figures in flight and the fees are natural numbers.                 *)
LEMMA CoverTypes ==
  ASSUME Inv
  PROVE  /\ \A p \in Payout : promised[p] \in Nat /\ Charged[p] \in Nat
         /\ SumFunctionOnSet(promised, Payout) \in Nat
         /\ SumFunctionOnSet(Charged, Payout) \in Nat
<1>1. \A p \in Payout : promised[p] \in Nat /\ Charged[p] \in Nat
  BY DEF promised, Charged, Inv, TypeOK, Transfer
<1> QED BY <1>1, SumIsNat, FiniteAssumption DEF FiniteAssumption

(* While none lapses, the active reservations are what is in flight.       *)
LEMMA ReservedIsPromised ==
  ASSUME Inv, Agreement
  PROVE  ActivelyReserved = SumFunctionOnSet(promised, Payout)
<1>0. PICK S : S = {p \in Payout : IsActive(p)}
  OBVIOUS
<1>1. ActivelyReserved = (CHOOSE g : LockedAdds(S, g))[S]
  BY <1>0 DEF ActivelyReserved, MapThenSumSet, MapThenFoldSet, Pick, LockedAdds
<1>2. ASSUME NEW g PROVE LockedAdds(S, g) <=> Adds(locked, S, g)
  <2>1. \A s \in SUBSET S : s # {} => reserv[Pick(s)].amt = locked[Pick(s)]
    BY <1>0, PickIsIn DEF locked
  <2> QED BY <2>1 DEF Adds, LockedAdds
<1>3. (CHOOSE g : LockedAdds(S, g)) = CHOOSE g : Adds(locked, S, g)
  BY <1>2
<1>4. \A p \in S : locked[p] \in Int /\ promised[p] = locked[p]
  BY <1>0 DEF locked, promised, Inv, ActiveOnlyInFlight, Agreement, Agreed, TypeOK
<1>5. \A p \in Payout \ S : promised[p] = 0
  BY <1>0 DEF promised, Agreement, Agreed
<1>6. S \in SUBSET Payout /\ IsFiniteSet(S)
  BY <1>0, FS_Subset, FiniteAssumption DEF FiniteAssumption
<1>7. SumFunctionOnSet(locked, S) = SumFunctionOnSet(promised, Payout)
  BY <1>4, <1>5, <1>6, SumOfSome, FiniteAssumption DEF FiniteAssumption
<1> QED BY <1>1, <1>3, <1>6, <1>7, SumIsChosen

(* What is in flight, as the property adds it up.                          *)
LEMMA InFlightIsPromised ==
  ASSUME Inv
  PROVE  MapThenSumSet(LAMBDA p : gram[p], {p \in Payout : status[p] \in PayoutInFlight})
           = SumFunctionOnSet(promised, Payout)
<1>0. PICK S : S = {p \in Payout : status[p] \in PayoutInFlight}
  OBVIOUS
<1>1. MapThenSumSet(LAMBDA p : gram[p], {p \in Payout : status[p] \in PayoutInFlight})
        = (CHOOSE g : GramAdds(S, g))[S]
  BY <1>0 DEF MapThenSumSet, MapThenFoldSet, Pick, GramAdds
<1>2. ASSUME NEW g PROVE GramAdds(S, g) <=> Adds(gram, S, g)
  BY DEF Adds, GramAdds
<1>3. (CHOOSE g : GramAdds(S, g)) = CHOOSE g : Adds(gram, S, g)
  BY <1>2
<1>4. \A p \in S : gram[p] \in Int /\ promised[p] = gram[p]
  BY <1>0 DEF promised, Inv, TypeOK
<1>5. \A p \in Payout \ S : promised[p] = 0
  BY <1>0 DEF promised
<1>6. S \in SUBSET Payout /\ IsFiniteSet(S)
  BY <1>0, FS_Subset, FiniteAssumption DEF FiniteAssumption
<1>7. SumFunctionOnSet(gram, S) = SumFunctionOnSet(promised, Payout)
  BY <1>4, <1>5, <1>6, SumOfSome, FiniteAssumption DEF FiniteAssumption
<1> QED BY <1>1, <1>3, <1>6, <1>7, SumIsChosen

(* A step that touches one payout changes both sums by its figures.        *)
LEMMA CoverChange ==
  ASSUME Inv, Inv', NEW p \in Payout,
         \A q \in Payout \ {p} : promised'[q] = promised[q] /\ Charged'[q] = Charged[q]
  PROVE  /\ SumFunctionOnSet(promised', Payout)
              = SumFunctionOnSet(promised, Payout) + (promised'[p] - promised[p])
         /\ SumFunctionOnSet(Charged', Payout)
              = SumFunctionOnSet(Charged, Payout) + (Charged'[p] - Charged[p])
<1>1. \A q \in Payout : /\ promised[q] \in Int /\ promised'[q] \in Int
                        /\ Charged[q] \in Int /\ Charged'[q] \in Int
  BY CoverTypes DEF promised, Charged, Inv, TypeOK, Transfer
<1>2. SumFunctionOnSet(promised', Payout)
        = SumFunctionOnSet(promised, Payout) + (promised'[p] - promised[p])
  BY <1>1, SumChange, FiniteAssumption DEF FiniteAssumption
<1>3. SumFunctionOnSet(Charged', Payout)
        = SumFunctionOnSet(Charged, Payout) + (Charged'[p] - Charged[p])
  BY <1>1, SumChange, FiniteAssumption DEF FiniteAssumption
<1> QED BY <1>2, <1>3

(* A step that promises nothing more and charges nothing keeps the cover.  *)
LEMMA CoverStill ==
  ASSUME Inv, Covered, UNCHANGED <<promised, Charged>>, confirmed' \in Nat, confirmed' >= confirmed
  PROVE  Covered'
<1>1. /\ SumFunctionOnSet(promised, Payout) \in Nat /\ SumFunctionOnSet(Charged, Payout) \in Nat
      /\ SafetyReserve \in Nat /\ confirmed \in Nat
  BY CoverTypes, AmountAssumption DEF AmountAssumption, Inv, TypeOK
<1>2. /\ SumFunctionOnSet(promised', Payout) = SumFunctionOnSet(promised, Payout)
      /\ SumFunctionOnSet(Charged', Payout) = SumFunctionOnSet(Charged, Payout)
  OBVIOUS
<1> QED BY <1>1, <1>2 DEF Covered

(* A step that moves one payout only needs its own figures to add up.      *)
LEMMA CoverMoves ==
  ASSUME Inv, Inv', Covered, NEW p \in Payout,
         \A q \in Payout \ {p} : promised'[q] = promised[q] /\ Charged'[q] = Charged[q],
         promised'[p] - promised[p] <= (confirmed' - confirmed) + (Charged'[p] - Charged[p])
  PROVE  Covered'
<1>1. PICK a, b, c, d : /\ a = SumFunctionOnSet(promised, Payout) /\ b = SumFunctionOnSet(Charged, Payout)
                        /\ c = SumFunctionOnSet(promised', Payout) /\ d = SumFunctionOnSet(Charged', Payout)
  OBVIOUS
<1>2. c = a + (promised'[p] - promised[p]) /\ d = b + (Charged'[p] - Charged[p])
  BY <1>1, CoverChange
<1>3. /\ a \in Nat /\ b \in Nat /\ SafetyReserve \in Nat /\ confirmed \in Nat /\ confirmed' \in Nat
      /\ promised[p] \in Nat /\ Charged[p] \in Nat /\ promised'[p] \in Nat /\ Charged'[p] \in Nat
  <2>1. promised'[p] \in Nat /\ Charged'[p] \in Nat
    BY DEF promised, Charged, Inv, TypeOK, Transfer
  <2> QED BY <1>1, <2>1, CoverTypes, AmountAssumption DEF AmountAssumption, Inv, TypeOK
<1>4. a + SafetyReserve <= confirmed + b
  BY <1>1 DEF Covered
<1>5. c + SafetyReserve <= confirmed' + d
  BY <1>2, <1>3, <1>4
<1> QED BY <1>1, <1>5 DEF Covered

(* reservePayoutLiquidity promises no more than is spendable; every other  *)
(* step of the pipeline moves payouts that nothing is promised to.         *)
LEMMA CoveredPipeline ==
  ASSUME Inv, Inv', Agreement, Covered, PipelineStep
  PROVE  Covered'
<1>1. PICK p \in Payout :
        \/ QueueAutomatic(p) \/ \E requested \in Requests : QueueInstant(p, requested)
        \/ \E rate \in Rates : LockPayoutRate(p, rate)
        \/ ReservePayoutLiquidity(p)
  BY DEF PipelineStep
<1>2. CASE \/ QueueAutomatic(p) \/ \E requested \in Requests : QueueInstant(p, requested)
           \/ \E rate \in Rates : LockPayoutRate(p, rate)
           \/ ReservePayoutLiquidity(p) /\ Spendable < gram[p]
  <2>1. PICK s \in Early : status[p] \in Early /\ MoveTo(p, s)
    <3>1. CASE QueueAutomatic(p) \/ \E requested \in Requests : QueueInstant(p, requested)
      BY <3>1 DEF QueueAutomatic, QueueInstant, QueueGross, Early
    <3>2. CASE \E rate \in Rates : LockPayoutRate(p, rate)
      BY <3>2 DEF LockPayoutRate, Lockable, Early
    <3>3. CASE ReservePayoutLiquidity(p) /\ Spendable < gram[p]
      <4>1. Spendable \in Int /\ gram[p] \in Int
        BY ReservedIsPromised, CoverTypes, AmountAssumption
           DEF AmountAssumption, Spendable, Inv, TypeOK
      <4>2. ~(Spendable >= gram[p])
        BY <3>3, <4>1
      <4> QED BY <3>3, <4>2 DEF ReservePayoutLiquidity, Early
    <3> QED BY <1>2, <3>1, <3>2, <3>3
  <2>2. UNCHANGED <<chain, confirmed>> /\ \A q \in Payout \ {p} : gram'[q] = gram[q]
    BY <1>2 DEF QueueAutomatic, QueueInstant, QueueGross, LockPayoutRate, ReservePayoutLiquidity,
                Inv, TypeOK
  <2>3. status'[p] = s /\ \A q \in Payout \ {p} : status'[q] = status[q]
    BY <2>1 DEF MoveTo, Inv, TypeOK
  <2>4. UNCHANGED <<promised, Charged>>
    BY <2>1, <2>2, <2>3 DEF promised, Charged, Early, PayoutInFlight
  <2> QED BY <2>2, <2>4, CoverStill DEF Inv, TypeOK
<1>3. CASE ReservePayoutLiquidity(p) /\ ~(Spendable < gram[p])
  <2>1. /\ status[p] = "RATE_LOCKED" /\ MoveTo(p, "RESERVED") /\ Spendable >= gram[p]
        /\ UNCHANGED <<gram, chain, confirmed>>
    BY <1>3 DEF ReservePayoutLiquidity
  <2>2. status'[p] = "RESERVED" /\ \A q \in Payout \ {p} : status'[q] = status[q]
    BY <2>1 DEF MoveTo, Inv, TypeOK
  <2>3. /\ \A q \in Payout \ {p} : promised'[q] = promised[q] /\ Charged'[q] = Charged[q]
        /\ promised[p] = 0 /\ promised'[p] = gram[p] /\ Charged[p] = 0 /\ Charged'[p] = 0
    BY <2>1, <2>2 DEF promised, Charged, PayoutInFlight
  <2>4. PICK a, b, c, d : /\ a = SumFunctionOnSet(promised, Payout) /\ b = SumFunctionOnSet(Charged, Payout)
                          /\ c = SumFunctionOnSet(promised', Payout) /\ d = SumFunctionOnSet(Charged', Payout)
    OBVIOUS
  <2>5. c = a + (gram[p] - 0) /\ d = b + (0 - 0)
    BY <2>3, <2>4, CoverChange
  <2>6. confirmed - a - SafetyReserve >= gram[p]
    BY <2>1, <2>4, ReservedIsPromised DEF Spendable
  <2>7. a \in Nat /\ b \in Nat /\ SafetyReserve \in Nat /\ confirmed \in Nat /\ gram[p] \in Nat
    BY <2>4, CoverTypes, AmountAssumption DEF AmountAssumption, Inv, TypeOK
  <2>8. c + SafetyReserve <= confirmed + d
    BY <2>5, <2>6, <2>7
  <2> QED BY <2>1, <2>4, <2>8 DEF Covered
<1> QED BY <1>1, <1>2, <1>3

(* A worker gives back what is promised when it settles or fails; the fee  *)
(* it settles with is charged.                                             *)
LEMMA CoveredTask ==
  ASSUME Inv, Inv', Agreement, Covered, NEW w \in Worker, TaskStep(w)
  PROVE  Covered'
<1>0. task[w].at # "idle"
  BY DEF TaskStep, SignerSign, SignRecord, SendLookup, SendPost, BroadcastRecord, MarkUnknown,
         FailRejected, MarkConfirming, AdvanceSettle, ReconcileSettle, SettledBefore, ReconcileReset,
         ReconcileFail, FailedBefore, ResolveExceptions, StillUnknown
<1>1. PICK p \in Payout : p = task[w].p /\ task[w] \in Task
  BY <1>0, TaskOfWorker DEF Inv
<1>2. gram' = gram
  BY DEF TaskStep, SignerSign, SendPost, SignRecord, SendLookup, BroadcastRecord, MarkUnknown,
         FailRejected, MarkConfirming, AdvanceSettle, ReconcileSettle, ReconcileReset,
         ReconcileFail, ResolveExceptions, StillUnknown
<1>3. \/ UNCHANGED <<status, confirmed, chain>>
      \/ SendPost(w)
      \/ \E s \in PayoutInFlight :
            status[p] \in PayoutInFlight /\ MoveTo(p, s) /\ UNCHANGED <<confirmed, chain>>
      \/ Failable(p) /\ FailPayout(p) /\ UNCHANGED <<confirmed, chain>>
      \/ Settleable(p, task[w].amt) /\ SettlePayout(p) /\ UNCHANGED chain
  BY <1>1, ZenonT(60)
     DEF TaskStep, SignRecord, SignerSign, SendLookup, BroadcastRecord, MarkUnknown,
         FailRejected, MarkConfirming, AdvanceSettle, SkipSettle,
         ReconcileSettle, ReconcileReset, ReconcileFail, ResolveExceptions, StillUnknown,
         PayoutInFlight
<1>4. CASE UNCHANGED <<status, confirmed, chain>>
  BY <1>2, <1>4, CoverStill DEF promised, Charged, Inv, TypeOK
<1>5. CASE SendPost(w)
  <2>1. UNCHANGED <<status, confirmed>> /\ \A q \in Payout : chain[q].st = "LANDED" => chain'[q] = chain[q]
    BY <1>1, <1>5 DEF SendPost, Inv, TypeOK
  <2>2. UNCHANGED <<promised, Charged>>
    BY <1>2, <2>1 DEF promised, Charged, Inv, SettledOnEvidence
  <2> QED BY <2>1, <2>2, CoverStill DEF Inv, TypeOK
<1>6. CASE \E s \in PayoutInFlight :
             status[p] \in PayoutInFlight /\ MoveTo(p, s) /\ UNCHANGED <<confirmed, chain>>
  <2>1. /\ status[p] \in PayoutInFlight /\ status'[p] \in PayoutInFlight
        /\ \A q \in Payout \ {p} : status'[q] = status[q]
        /\ UNCHANGED <<confirmed, chain>>
    BY <1>6 DEF MoveTo, Inv, TypeOK
  <2>2. UNCHANGED <<promised, Charged>>
    BY <1>2, <2>1 DEF promised, Charged, PayoutInFlight
  <2> QED BY <2>1, <2>2, CoverStill DEF Inv, TypeOK
<1>7. CASE Failable(p) /\ FailPayout(p) /\ UNCHANGED <<confirmed, chain>>
  <2>1. /\ status'[p] = "FAILED" /\ \A q \in Payout \ {p} : status'[q] = status[q]
        /\ status[p] # "SETTLED" /\ UNCHANGED <<confirmed, chain>>
    BY <1>7 DEF Failable, FailPayout, MoveTo, Inv, TypeOK
  <2>2. /\ \A q \in Payout \ {p} : promised'[q] = promised[q] /\ Charged'[q] = Charged[q]
        /\ promised'[p] = 0 /\ Charged'[p] = 0 /\ Charged[p] = 0
    BY <1>2, <2>1 DEF promised, Charged, PayoutInFlight
  <2>3. promised[p] \in Nat /\ confirmed' - confirmed = 0
    BY <2>1, CoverTypes DEF Inv, TypeOK
  <2> QED BY <1>1, <2>2, <2>3, CoverMoves
<1>8. CASE Settleable(p, task[w].amt) /\ SettlePayout(p) /\ UNCHANGED chain
  <2>1. /\ status'[p] = "SETTLED" /\ \A q \in Payout \ {p} : status'[q] = status[q]
        /\ status[p] \in PayoutInFlight /\ status[p] # "SETTLED" /\ chain' = chain
        /\ confirmed' = confirmed - (gram[p] + chain[p].cost)
    BY <1>8 DEF Settleable, SettlePayout, MoveTo, PayoutInFlight, Inv, TypeOK
  <2>2. /\ \A q \in Payout \ {p} : promised'[q] = promised[q] /\ Charged'[q] = Charged[q]
        /\ promised'[p] = 0 /\ promised[p] = gram[p] /\ Charged'[p] = chain[p].cost /\ Charged[p] = 0
    BY <1>2, <2>1 DEF promised, Charged, PayoutInFlight
  <2>3. gram[p] \in Nat /\ chain[p].cost \in Nat /\ confirmed \in Nat
    BY DEF Inv, TypeOK, Transfer
  <2> QED BY <1>1, <2>1, <2>2, <2>3, CoverMoves
<1> QED BY <1>3, <1>4, <1>5, <1>6, <1>7, <1>8

(* Outside the pipeline the treasury only grows, and a transfer that lands *)
(* is not settled yet.                                                     *)
LEMMA CoveredWorld ==
  ASSUME Inv, Inv', Covered,
         \/ BeginTask \/ EnvironmentStep
         \/ \E amt \in Fundings : RecordFunding(amt)
         \/ UNCHANGED vars
  PROVE  Covered'
<1>1. UNCHANGED <<status, gram>>
  BY DEF BeginTask, SignValidate, BroadcastValidate, AdvanceObserve, ReconcileObserve, Observe,
         EnvironmentStep, ReservationLapses, WindowPasses, TransferLost, TransferLands,
         ReplaceWallet, ChangeEligibility, AdminResolves, ToggleFreeze,
         ReconcileAges, Crash, RecordFunding, vars
<1>2. confirmed' = confirmed \/ \E amt \in Fundings : confirmed' = confirmed + amt
  BY DEF BeginTask, SignValidate, BroadcastValidate, AdvanceObserve, ReconcileObserve, Observe,
         EnvironmentStep, ReservationLapses, WindowPasses, TransferLost, TransferLands,
         ReplaceWallet, ChangeEligibility, AdminResolves, ToggleFreeze,
         ReconcileAges, Crash, RecordFunding, vars
<1>3. confirmed' \in Nat /\ confirmed' >= confirmed
  BY <1>2, AmountAssumption DEF AmountAssumption, Inv, TypeOK
<1>4. \A q \in Payout : chain[q].st = "LANDED" => chain'[q] = chain[q]
  BY DEF BeginTask, SignValidate, BroadcastValidate, AdvanceObserve, ReconcileObserve, Observe,
         EnvironmentStep, ReservationLapses, WindowPasses, TransferLost, TransferLands,
         ReplaceWallet, ChangeEligibility, AdminResolves, ToggleFreeze,
         ReconcileAges, Crash, RecordFunding, vars, Inv, TypeOK
<1>5. UNCHANGED <<promised, Charged>>
  BY <1>1, <1>4 DEF promised, Charged, Inv, SettledOnEvidence
<1> QED BY <1>3, <1>5, CoverStill

LEMMA CoveredNext ==
  ASSUME ~MayLapse, Inv, Agreement, Covered, [Next]_vars
  PROVE  Covered'
<1>1. Inv'
  BY InvNext
<1>2. ~ExpireStaleReservations
  BY DEF ExpireStaleReservations, Stale, Agreement, Agreed
<1> QED BY <1>1, <1>2, CoveredPipeline, CoveredTask, CoveredWorld DEF Next

LEMMA CoveredInit == SafetyReserve <= InitialTreasury /\ Init => Covered
<1> SUFFICES ASSUME SafetyReserve <= InitialTreasury, Init PROVE Covered
  OBVIOUS
<1>1. \A p \in Payout : promised[p] = 0 /\ Charged[p] = 0
  BY DEF Init, promised, Charged, PayoutInFlight
<1>2. SumFunctionOnSet(promised, Payout) = 0 /\ SumFunctionOnSet(Charged, Payout) = 0
  BY <1>1, SumOfZeros, FiniteAssumption DEF FiniteAssumption
<1> QED BY <1>2, AmountAssumption DEF AmountAssumption, Covered, Init

(* Whatever the network charges, the payouts in flight and the safety      *)
(* reserve never exceed the treasury by more than the fees charged so far: *)
(* no two payouts are promised the same GRAM (reservePayoutLiquidity).     *)
THEOREM NeverPromisedTwice ==
  ~MayLapse /\ SafetyReserve <= InitialTreasury => (Spec => []Covered)
<1>1. ~MayLapse /\ SafetyReserve <= InitialTreasury /\ Init => Inv /\ Agreement /\ Covered
  BY InvInit, AgreementInit, CoveredInit
<1>2. ~MayLapse /\ Inv /\ Agreement /\ Covered /\ [Next]_vars => Inv' /\ Agreement' /\ Covered'
  BY InvNext, AgreementNext, CoveredNext
<1>3. ASSUME ~MayLapse, SafetyReserve <= InitialTreasury PROVE Spec => []Covered
  BY <1>1, <1>2, <1>3, PTL DEF Spec
<1> QED BY <1>3

LEMMA CoveredIsBacked == Inv /\ Agreement /\ Covered => InFlightIsBacked
<1> SUFFICES ASSUME Inv, Agreement, Covered PROVE InFlightIsBacked
  OBVIOUS
<1>1. InFlightCovered
  BY InFlightIsPromised DEF InFlightCovered, Covered
<1>2. InFlightIsReserved
  BY DEF InFlightIsReserved, Agreement, Agreed
<1> QED BY <1>1, <1>2 DEF InFlightIsBacked

(* While no reservation lapses, everything in flight holds a reservation   *)
(* of its own for its figure, and the treasury has it all and its safety   *)
(* reserve but for the fees it has paid, whatever the network charges,     *)
(* whatever cycles overlap and whatever the owner adds                     *)
(* (reservePayoutLiquidity, settlePayout).                                 *)
THEOREM InFlightIsBackedHolds ==
  ~MayLapse /\ SafetyReserve <= InitialTreasury => (Spec => []InFlightIsBacked)
<1>1. Inv /\ Agreement /\ Covered => InFlightIsBacked
  BY CoveredIsBacked
<1>2. ~MayLapse /\ SafetyReserve <= InitialTreasury /\ Init => Inv /\ Agreement /\ Covered
  BY InvInit, AgreementInit, CoveredInit
<1>3. ~MayLapse /\ Inv /\ Agreement /\ Covered /\ [Next]_vars => Inv' /\ Agreement' /\ Covered'
  BY InvNext, AgreementNext, CoveredNext
<1>4. ASSUME ~MayLapse, SafetyReserve <= InitialTreasury PROVE Spec => []InFlightIsBacked
  BY <1>1, <1>2, <1>3, <1>4, PTL DEF Spec
<1> QED BY <1>4

-----------------------------------------------------------------------------
(***************************************************************************)
(* Money goes back only when the transfer did not happen.  Two overlapping *)
(* cycles, a status lookup that fails, a transfer that shows after the     *)
(* window, or a refusal of a request that repeats one can each break that; *)
(* one cycle at a time, with status lookups that answer, a window that     *)
(* bounds propagation and refusals that are final, cannot.  The lookup     *)
(* before the POST may fail or lag all the same.                           *)
(***************************************************************************)
Alone == \A v, w \in Worker : v = w

(* What a worker that may fail its payout knows of the transfer.           *)
Certain(t) ==
  /\ t.at \in {"lookup", "post"} => status[t.p] = "SIGNED"
  /\ t.at \in {"rejected", "fail"} => chain[t.p].st \notin {"PENDING", "LANDED"}
  /\ t.at = "reconcile" /\ Definitive(t) => chain[t.p].st \notin {"PENDING", "LANDED"}

Certainty == NoRefundOfTransfer /\ \A w \in Worker : Certain(task[w])

(* The pipeline and the expiry sweep leave signed and failed payouts, and  *)
(* the network, alone.                                                     *)
LEMMA CertaintyPipeline ==
  ASSUME Inv, Certainty, PipelineStep \/ ExpireStaleReservations
  PROVE  Certainty'
<1>1. /\ UNCHANGED <<chain, task>>
      /\ \A q \in Payout : /\ status[q] = "SIGNED" => status'[q] = "SIGNED"
                           /\ status'[q] = "FAILED" => status[q] = "FAILED"
  <2>1. CASE PipelineStep
    <3>1. PICK p \in Payout, s \in {"QUEUED", "RATE_LOCKED", "WAITING_LIQUIDITY", "RESERVED"} :
            status[p] # "SIGNED" /\ MoveTo(p, s) /\ UNCHANGED <<chain, task>>
      <4>1. PICK p \in Payout :
              \/ QueueAutomatic(p) \/ \E requested \in Requests : QueueInstant(p, requested)
              \/ \E rate \in Rates : LockPayoutRate(p, rate)
              \/ ReservePayoutLiquidity(p)
        BY <2>1 DEF PipelineStep
      <4>2. CASE QueueAutomatic(p) \/ \E requested \in Requests : QueueInstant(p, requested)
        BY <4>2 DEF QueueAutomatic, QueueInstant, QueueGross
      <4>3. CASE \E rate \in Rates : LockPayoutRate(p, rate)
        BY <4>3 DEF LockPayoutRate, Lockable
      <4>4. CASE ReservePayoutLiquidity(p)
        BY <4>4 DEF ReservePayoutLiquidity
      <4> QED BY <4>1, <4>2, <4>3, <4>4
    <3> QED BY <3>1 DEF MoveTo, Inv, TypeOK
  <2>2. CASE ExpireStaleReservations
    BY <2>2 DEF ExpireStaleReservations, Stale
  <2> QED BY <2>1, <2>2
<1>2. \A w \in Worker : task[w].at # "idle" => task[w].p \in Payout
  BY DEF Inv, WorkersRemember, Remembers
<1>3. NoRefundOfTransfer'
  BY <1>1 DEF Certainty, NoRefundOfTransfer
<1>4. ASSUME NEW w \in Worker PROVE Certain(task[w])'
  BY <1>1, <1>2 DEF Certainty, Certain, Definitive
<1> QED BY <1>3, <1>4 DEF Certainty

(* A cycle that starts to send has a signed payout, and an answer that     *)
(* will be taken for definitive is the truth.                              *)
LEMMA CertaintyBegin ==
  ASSUME PropagationBounded, ~LookupMayFail, Inv, Certainty, BeginTask
  PROVE  Certainty'
<1>1. PICK w \in Worker, p \in Payout :
        \/ SignValidate(w, p) \/ BroadcastValidate(w, p)
        \/ \E use \in {"advance", "reconcile"} : \E statuses : Observe(w, p, use, statuses)
  BY DEF BeginTask, AdvanceObserve, ReconcileObserve
<1>2. UNCHANGED <<status, chain>> /\ \E t : task' = [task EXCEPT ![w] = t]
  BY <1>1 DEF SignValidate, BroadcastValidate, Observe, Begin
<1>3. Certain(task[w])'
  <2>1. CASE SignValidate(w, p)
    BY <1>2, <2>1 DEF SignValidate, Begin, Idle, Certain, Inv, TypeOK
  <2>2. CASE BroadcastValidate(w, p)
    BY <1>2, <2>2 DEF BroadcastValidate, Sendable, Begin, Idle, Certain, Inv, TypeOK
  <2>3. CASE \E use \in {"advance", "reconcile"} : \E statuses : Observe(w, p, use, statuses)
    <3>0. PICK use \in {"advance", "reconcile"} : \E statuses : Observe(w, p, use, statuses)
      BY <2>3
    <3>1. PICK statuses : Observe(w, p, use, statuses)
      BY <3>0
    <3>2. PICK answer \in Answer :
            /\ CanAnswer(p, answer)
            /\ task'[w] = [at |-> use, p |-> p, read |-> status[p], seen |-> answer, old |-> aged[p],
                           amt |-> IF answer = "CONFIRMED" THEN chain[p].amt ELSE 0]
      BY <3>1 DEF Observe, Begin, Inv, TypeOK
    <3>3. answer = "NOT_FOUND" /\ aged[p] => chain[p].st \in {"NONE", "DROPPED"}
      BY <3>2 DEF CanAnswer
    <3> QED BY <1>2, <3>2, <3>3 DEF Certain, Definitive
  <2> QED BY <1>1, <2>1, <2>2, <2>3
<1>4. ASSUME NEW v \in Worker, v # w PROVE Certain(task[v])'
  BY <1>2, <1>4 DEF Certainty, Certain, Definitive, Inv, TypeOK
<1>5. NoRefundOfTransfer'
  BY <1>2 DEF Certainty, NoRefundOfTransfer
<1> QED BY <1>3, <1>4, <1>5 DEF Certainty

(* The only cycle there is fails a payout only where it is certain, and    *)
(* sends only what is signed.                                              *)
LEMMA CertaintyTask ==
  ASSUME Alone, RejectionIsFinal, Inv, Certainty, NEW w \in Worker, TaskStep(w)
  PROVE  Certainty'
<1>0. task[w].at # "idle"
  BY DEF TaskStep, SignerSign, SignRecord, SendLookup, SendPost, BroadcastRecord, MarkUnknown,
         FailRejected, MarkConfirming, AdvanceSettle, ReconcileSettle, SettledBefore, ReconcileReset,
         ReconcileFail, FailedBefore, ResolveExceptions, StillUnknown
<1>1. PICK p \in Payout : p = task[w].p /\ task[w] \in Task
  BY <1>0, TaskOfWorker DEF Inv
<1>2. Certain(task[w])
  BY DEF Certainty
<1>3. \A v \in Worker : v = w
  BY DEF Alone
<1>4. CASE SendPost(w)
  <2>1. status[p] = "SIGNED" /\ status' = status
    BY <1>1, <1>2, <1>4 DEF SendPost, Certain
  <2>2. \A q \in Payout \ {p} : chain'[q] = chain[q]
    BY <1>1, <1>4 DEF SendPost, Inv, TypeOK
  <2>3. NoRefundOfTransfer'
    BY <2>1, <2>2 DEF Certainty, NoRefundOfTransfer
  <2>4. \/ /\ chain' = chain /\ chain[p].st \notin {"PENDING", "LANDED"}
           /\ task'[w] = [task[w] EXCEPT !.at = "rejected"]
        \/ \E at \in {"accepted", "ambiguous"} : task'[w] = [task[w] EXCEPT !.at = at]
    BY <1>1, <1>4 DEF SendPost, MayReject, Goto, Inv, TypeOK
  <2>5. Certain(task[w])'
    BY <1>1, <2>1, <2>4 DEF Certain, Task
  <2> QED BY <1>3, <2>3, <2>5 DEF Certainty
<1>5. CASE SendLookup(w)
  <2>1. UNCHANGED <<status, chain>>
    BY <1>5 DEF SendLookup
  <2>2. \/ task'[w] = [task[w] EXCEPT !.at = "accepted"]
        \/ task'[w] = [task[w] EXCEPT !.at = "post"] /\ status[p] = "SIGNED"
        \/ /\ task'[w] = [task[w] EXCEPT !.at = "rejected"]
           /\ chain[p].st \notin {"PENDING", "LANDED"}
    BY <1>1, <1>2, <1>5 DEF SendLookup, MayReject, Goto, Certain, Inv, TypeOK
  <2>3. Certain(task[w])'
    BY <1>1, <2>1, <2>2 DEF Certain, Task
  <2> QED BY <1>3, <2>1, <2>3 DEF Certainty, NoRefundOfTransfer
<1>6. CASE FailRejected(w) \/ ReconcileFail(w)
  <2>1. chain[p].st \notin {"PENDING", "LANDED"}
    BY <1>1, <1>2, <1>6 DEF FailRejected, ReconcileFail, FailedBefore, Certain
  <2>2. chain' = chain /\ (status' = status \/ status' = [status EXCEPT ![p] = "FAILED"])
    BY <1>1, <1>6 DEF FailRejected, ReconcileFail, FailPayout, MoveTo
  <2>3. NoRefundOfTransfer'
    BY <2>1, <2>2 DEF Certainty, NoRefundOfTransfer, Inv, TypeOK
  <2>4. Done(w) \/ Goto(w, [task[w] EXCEPT !.at = "resolve"])
    BY <1>6 DEF FailRejected, ReconcileFail
  <2>5. Certain(task[w])'
    BY <1>1, <2>4 DEF Done, Goto, Idle, Certain, Task, Inv, TypeOK
  <2> QED BY <1>3, <2>3, <2>5 DEF Certainty
<1>7. CASE ReconcileReset(w)
  <2>1. chain[p].st \notin {"PENDING", "LANDED"}
    BY <1>1, <1>2, <1>7 DEF ReconcileReset, Certain
  <2>2. chain' = chain /\ (status' = status \/ status' = [status EXCEPT ![p] = "RESERVED"])
    BY <1>1, <1>7 DEF ReconcileReset, MoveTo
  <2>3. NoRefundOfTransfer'
    BY <2>2 DEF Certainty, NoRefundOfTransfer, Inv, TypeOK
  <2>4. task'[w] = [task[w] EXCEPT !.at = "fail"]
    BY <1>7 DEF ReconcileReset, Goto, Inv, TypeOK
  <2>5. Certain(task[w])'
    BY <1>1, <2>1, <2>2, <2>4 DEF Certain, Task
  <2> QED BY <1>3, <2>3, <2>5 DEF Certainty
<1>8. CASE \/ SignerSign(w) \/ SignRecord(w) \/ BroadcastRecord(w) \/ MarkUnknown(w)
           \/ MarkConfirming(w) \/ AdvanceSettle(w) \/ ReconcileSettle(w)
           \/ ResolveExceptions(w) \/ StillUnknown(w)
  <2>1. chain' = chain
    BY <1>8 DEF SignerSign, SignRecord, BroadcastRecord, MarkUnknown, MarkConfirming, AdvanceSettle,
                ReconcileSettle, ResolveExceptions, StillUnknown
  <2>2. \/ status' = status
        \/ \E s \in {"SIGNED", "BROADCASTED", "UNKNOWN", "CONFIRMING", "SETTLED"} :
             status' = [status EXCEPT ![p] = s]
    BY <1>1, <1>8, ZenonT(40)
       DEF SignerSign, SignRecord, BroadcastRecord, MarkUnknown, MarkConfirming, AdvanceSettle,
           ReconcileSettle, ResolveExceptions, StillUnknown, SettlePayout, SkipSettle, MoveTo
  <2>3. NoRefundOfTransfer'
    BY <2>1, <2>2 DEF Certainty, NoRefundOfTransfer, Inv, TypeOK
  <2>4. Done(w) \/ \E at \in {"record", "resolve"} : Goto(w, [task[w] EXCEPT !.at = at])
    BY <1>8 DEF SignerSign, SignRecord, BroadcastRecord, MarkUnknown, MarkConfirming, AdvanceSettle,
                ReconcileSettle, ResolveExceptions, StillUnknown
  <2>5. Certain(task[w])'
    BY <1>1, <2>4 DEF Done, Goto, Idle, Certain, Task, Inv, TypeOK
  <2> QED BY <1>3, <2>3, <2>5 DEF Certainty
<1> QED BY <1>4, <1>5, <1>6, <1>7, <1>8 DEF TaskStep

(* The network moves only what is pending, and nothing pending is failed;  *)
(* the window that ends under an answer leaves nothing unseen.             *)
LEMMA CertaintyWorld ==
  ASSUME PropagationBounded, Inv, Certainty,
         \/ EnvironmentStep
         \/ \E amt \in Fundings : RecordFunding(amt)
         \/ UNCHANGED vars
  PROVE  Certainty'
<1>1. status' = status
  BY DEF EnvironmentStep, ReservationLapses, WindowPasses, TransferLost, TransferLands,
         ReplaceWallet, ChangeEligibility, AdminResolves, ToggleFreeze,
         ReconcileAges, Crash, RecordFunding, vars
<1>2. \A q \in Payout : chain'[q] = chain[q] \/ chain[q].st = "PENDING"
  BY DEF EnvironmentStep, ReservationLapses, WindowPasses, TransferLost, TransferLands,
         ReplaceWallet, ChangeEligibility, AdminResolves, ToggleFreeze,
         ReconcileAges, Crash, RecordFunding, vars, Inv, TypeOK
<1>3. \/ task' = task
      \/ \E v \in Worker : Done(v) \/ (ReconcileAges(v) /\ Goto(v, [task[v] EXCEPT !.old = TRUE]))
  BY DEF EnvironmentStep, ReservationLapses, WindowPasses, TransferLost, TransferLands,
         ReplaceWallet, ChangeEligibility, AdminResolves, ToggleFreeze,
         ReconcileAges, Crash, RecordFunding, vars
<1>4. NoRefundOfTransfer'
  BY <1>1, <1>2 DEF Certainty, NoRefundOfTransfer
<1>5. ASSUME NEW w \in Worker PROVE Certain(task[w])'
  <2>1. CASE task'[w] = task[w]
    <3>1. task[w].at # "idle" => task[w].p \in Payout
      BY DEF Inv, WorkersRemember, Remembers
    <3> QED BY <1>1, <1>2, <2>1, <3>1 DEF Certainty, Certain, Definitive
  <2>2. CASE task'[w] = Idle
    BY <2>2 DEF Idle, Certain
  <2>3. CASE ReconcileAges(w) /\ Goto(w, [task[w] EXCEPT !.old = TRUE])
    <3>1. /\ chain' = chain /\ chain[task[w].p].st \notin {"PENDING", "LANDED"}
          /\ task[w].at = "reconcile" /\ task[w] \in Task
      BY <2>3 DEF ReconcileAges, NothingUnseen, Inv, TypeOK
    <3>2. task'[w].at = "reconcile" /\ task'[w].p = task[w].p
      BY <2>3, <3>1 DEF Goto, Inv, TypeOK, Task
    <3> QED BY <3>1, <3>2 DEF Certain
  <2> QED BY <1>3, <2>1, <2>2, <2>3 DEF Done, Goto, Inv, TypeOK
<1> QED BY <1>4, <1>5 DEF Certainty

(* One cycle at a time, with status lookups that answer, a window that     *)
(* bounds propagation and refusals that are final, no merchant gets the    *)
(* money back for a transfer that happened or still can, whatever crashes, *)
(* lapses, times out or is posted again because the lookup before it saw   *)
(* nothing (failPayout, reconcilePayout, broadcastPayout).                 *)
THEOREM NoRefundOfTransferHolds ==
  Alone /\ PropagationBounded /\ ~LookupMayFail /\ RejectionIsFinal
    => (Spec => []NoRefundOfTransfer)
<1>1. Init => Inv /\ Certainty
  <2>1. Init => Certainty
    BY DEF Init, Certainty, NoRefundOfTransfer, Certain, Idle
  <2> QED BY <2>1, InvInit
<1>2. Alone /\ PropagationBounded /\ ~LookupMayFail /\ RejectionIsFinal
        /\ Inv /\ Certainty /\ [Next]_vars => Inv' /\ Certainty'
  <2> SUFFICES ASSUME Alone, PropagationBounded, ~LookupMayFail, RejectionIsFinal,
                      Inv, Certainty, [Next]_vars
               PROVE  Inv' /\ Certainty'
    OBVIOUS
  <2>1. Inv'
    BY InvNext
  <2>2. Certainty'
    BY CertaintyPipeline, CertaintyBegin, CertaintyTask, CertaintyWorld DEF Next
  <2> QED BY <2>1, <2>2
<1>3. Certainty => NoRefundOfTransfer
  BY DEF Certainty
<1>4. ASSUME Alone, PropagationBounded, ~LookupMayFail, RejectionIsFinal
      PROVE  Spec => []NoRefundOfTransfer
  BY <1>1, <1>2, <1>3, <1>4, PTL DEF Spec
<1> QED BY <1>4

-----------------------------------------------------------------------------
(***************************************************************************)
(* The rates.  Of finitely many values the middle one exists, and without  *)
(* any one of three or more it still lies between two of the others; and a *)
(* difference is no larger in full percents of a larger value.  From these *)
(* two facts follows what a leg of a quote is.                             *)
(***************************************************************************)

(* A difference, in full percents of a smaller base, is no smaller.        *)
LEMMA Percents ==
  ASSUME NEW n \in Nat, NEW m \in Nat, NEW c \in Nat \ {0}, NEW d \in Nat \ {0}, n <= m, d <= c
  PROVE  n \div c <= m \div d
OBVIOUS

LEMMA PercentsFit ==
  ASSUME NEW n \in Nat, NEW m \in Nat, NEW c \in Nat \ {0}, NEW d \in Nat \ {0}, NEW e \in Nat,
         n <= m, d <= c, (m * 100) \div d <= e
  PROVE  (n * 100) \div c <= e
<1>1. PICK x \in Nat, y \in Nat : x = n * 100 /\ y = m * 100
  OBVIOUS
<1>2. x \div c <= y \div d
  <2>1. x <= y
    BY <1>1
  <2> QED BY <2>1, Percents
<1>3. x \div c \in Int /\ y \div d \in Int
  OBVIOUS
<1> QED BY <1>1, <1>2, <1>3

LEMMA ValuesAreFinite ==
  ASSUME NEW S, IsFiniteSet(S), NEW seen
  PROVE  IsFiniteSet({seen[s] : s \in S})
<1> DEFINE V == {seen[s] : s \in S}
           f == [s \in S |-> seen[s]]
<1>1. f \in Surjection(S, V)
  BY DEF Surjection
<1> HIDE DEF V, f
<1>2. IsFiniteSet(V)
  BY <1>1, FS_Surjection
<1> QED BY <1>2 DEF V

(* What the sources S reported: positive, of finitely many.                *)
Reported(S, seen) == IsFiniteSet(S) /\ S # {} /\ \A s \in S : seen[s] \in Nat \ {0}

Below(S, seen, v) == {s \in S : seen[s] < v}
UpTo(S, seen, v)  == {s \in S : seen[s] <= v}

LEMMA PartsAreFinite ==
  ASSUME NEW S, NEW seen, Reported(S, seen)
  PROVE  /\ \A v : IsFiniteSet(Below(S, seen, v)) /\ IsFiniteSet(UpTo(S, seen, v))
         /\ \A v : Cardinality(Below(S, seen, v)) \in Nat /\ Cardinality(UpTo(S, seen, v)) \in Nat
         /\ Cardinality(S) \in Nat \ {0}
         /\ IsFiniteSet({seen[s] : s \in S})
<1>1. ASSUME NEW v PROVE IsFiniteSet(Below(S, seen, v)) /\ IsFiniteSet(UpTo(S, seen, v))
  <2>1. Below(S, seen, v) \subseteq S /\ UpTo(S, seen, v) \subseteq S
    BY DEF Below, UpTo
  <2> QED BY <2>1, FS_Subset DEF Reported
<1>2. Cardinality(S) \in Nat /\ Cardinality(S) # 0
  BY FS_CardinalityType, FS_EmptySet DEF Reported
<1>3. IsFiniteSet({seen[s] : s \in S})
  BY ValuesAreFinite DEF Reported
<1> QED BY <1>1, <1>2, <1>3, FS_CardinalityType

IsMiddle(S, seen, v) ==
  /\ v \in {seen[s] : s \in S}
  /\ Cardinality(Below(S, seen, v)) <= Cardinality(S) \div 2
  /\ Cardinality(S) \div 2 < Cardinality(UpTo(S, seen, v))

(* The middle of finitely many values is there: it is the least value      *)
(* with more than half of them up to it.                                   *)
LEMMA MiddleIs ==
  ASSUME NEW S, NEW seen, Reported(S, seen)
  PROVE  IsMiddle(S, seen, Middle(S, seen))
<1> DEFINE V == {seen[s] : s \in S}
           k == Cardinality(S) \div 2
           D == {v \in V : k < Cardinality(UpTo(S, seen, v))}
<1>1. IsFiniteSet(V) /\ V # {} /\ \A v \in V : v \in Int
  BY PartsAreFinite DEF Reported
<1>2. k \in Nat /\ k < Cardinality(S)
  <2>1. PICK n \in Nat \ {0} : n = Cardinality(S)
    BY PartsAreFinite
  <2>2. n \div 2 \in Nat /\ n \div 2 < n
    OBVIOUS
  <2> QED BY <2>1, <2>2
<1>3. D # {}
  <2>1. PICK v \in V : \A u \in V : v >= u
    <3> HIDE DEF V
    <3> QED BY <1>1, HasGreatest
  <2>2. UpTo(S, seen, v) = S
    BY <2>1 DEF UpTo
  <2> QED BY <1>2, <2>1, <2>2
<1>4. IsFiniteSet(D) /\ \A v \in D : v \in Int
  <2>1. D \subseteq V
    OBVIOUS
  <2> HIDE DEF D, V
  <2> QED BY <1>1, <2>1, FS_Subset
<1>5. PICK v \in D : \A u \in D : v <= u
  <2> HIDE DEF D
  <2> QED BY <1>3, <1>4, HasLeast
<1>6. Cardinality(Below(S, seen, v)) <= k
  <2> DEFINE W == {seen[s] : s \in Below(S, seen, v)}
  <2>1. CASE Below(S, seen, v) = {}
    BY <1>2, <2>1, FS_EmptySet
  <2>2. CASE Below(S, seen, v) # {}
    <3>1. IsFiniteSet(W) /\ W # {} /\ \A w \in W : w \in Int /\ w \in V /\ w < v
      <4>1. IsFiniteSet(W)
        BY PartsAreFinite, ValuesAreFinite
      <4> QED BY <2>2, <4>1 DEF Below, Reported
    <3>2. PICK w \in W : \A u \in W : w >= u
      <4> HIDE DEF W
      <4> QED BY <3>1, HasGreatest
    <3>3. UpTo(S, seen, w) = Below(S, seen, v)
      <4>1. w \in Int /\ v \in Int /\ w < v
        BY <1>4, <3>1
      <4>2. ASSUME NEW s \in S PROVE s \in UpTo(S, seen, w) <=> s \in Below(S, seen, v)
        <5>1. seen[s] \in Int
          BY DEF Reported
        <5>2. s \in Below(S, seen, v) => seen[s] <= w
          BY <3>2, <5>1
        <5> QED BY <4>1, <5>1, <5>2 DEF UpTo, Below
      <4> QED BY <4>2 DEF UpTo, Below
    <3>4. w \notin D
      BY <1>4, <1>5, <3>1
    <3>5. ~ (k < Cardinality(UpTo(S, seen, w)))
      BY <3>1, <3>4
    <3>6. Cardinality(Below(S, seen, v)) \in Nat
      BY PartsAreFinite
    <3>7. ~ (k < Cardinality(Below(S, seen, v)))
      BY <3>3, <3>5
    <3> HIDE DEF k
    <3> QED BY <1>2, <3>6, <3>7
  <2> QED BY <2>1, <2>2
<1>7. IsMiddle(S, seen, v)
  BY <1>6 DEF IsMiddle
<1>8. Middle(S, seen) = CHOOSE u \in V : IsMiddle(S, seen, u)
  BY DEF Middle, IsMiddle, Below, UpTo
<1> QED BY <1>7, <1>8 DEF IsMiddle

(* Without any one of three or more sources, the middle of all still lies  *)
(* between two of the others.                                              *)
Between(T, seen, v) == \E s, t \in T : seen[s] <= v /\ v <= seen[t]

LEMMA MiddleIsBetween ==
  ASSUME NEW S, NEW seen, Reported(S, seen), NEW odd \in S, Cardinality(S) >= 3,
         NEW v, IsMiddle(S, seen, v)
  PROVE  Between(S \ {odd}, seen, v)
<1> DEFINE others == S \ {odd}
<1>1. PICK n \in Nat : n = Cardinality(S) /\ n >= 3
  BY PartsAreFinite
<1>2. Cardinality(others) = n - 1 /\ IsFiniteSet(others)
  BY <1>1, FS_RemoveElement DEF Reported
<1>3. PICK h \in Nat : h = n \div 2 /\ 1 <= h /\ h < n - 1
  <2>1. n \div 2 \in Nat /\ 1 <= n \div 2 /\ n \div 2 < n - 1
    BY <1>1
  <2> QED BY <2>1
<1>4. /\ v \in Nat /\ IsFiniteSet(Below(S, seen, v)) /\ IsFiniteSet(UpTo(S, seen, v))
      /\ Cardinality(Below(S, seen, v)) \in Nat /\ Cardinality(UpTo(S, seen, v)) \in Nat
      /\ Cardinality(Below(S, seen, v)) <= h /\ h < Cardinality(UpTo(S, seen, v))
  BY <1>1, <1>3, PartsAreFinite DEF IsMiddle, Reported
<1>5. \E s \in others : seen[s] <= v
  <2> SUFFICES ASSUME \A s \in others : ~ (seen[s] <= v) PROVE FALSE
    OBVIOUS
  <2>1. UpTo(S, seen, v) \subseteq {odd}
    BY DEF UpTo
  <2>2. IsFiniteSet({odd}) /\ Cardinality({odd}) = 1
    BY FS_Singleton
  <2>3. Cardinality(UpTo(S, seen, v)) <= 1
    BY <2>1, <2>2, FS_Subset
  <2> QED BY <1>3, <1>4, <2>3
<1>6. \E t \in others : v <= seen[t]
  <2> SUFFICES ASSUME \A t \in others : ~ (v <= seen[t]) PROVE FALSE
    OBVIOUS
  <2>1. others \subseteq Below(S, seen, v)
    <3> SUFFICES ASSUME NEW t \in others PROVE t \in Below(S, seen, v)
      OBVIOUS
    <3>1. seen[t] \in Nat
      BY DEF Reported
    <3> QED BY <1>4, <3>1 DEF Below
  <2>2. Cardinality(others) <= Cardinality(Below(S, seen, v))
    BY <1>4, <2>1, FS_Subset
  <2> QED BY <1>2, <1>3, <1>4, <2>2
<1> QED BY <1>5, <1>6 DEF Between

(* Two values whose difference is tolerated of the smaller agree.          *)
LEMMA TolerableAgree ==
  ASSUME NEW a \in Nat \ {0}, NEW b \in Nat \ {0},
         \/ (a <= b /\ ((b - a) * 100) \div a <= MaxDisagreement)
         \/ (b <= a /\ ((a - b) * 100) \div b <= MaxDisagreement)
         \/ (Apart(a, b) * 100) \div a <= MaxDisagreement
         \/ (Apart(a, b) * 100) \div b <= MaxDisagreement
  PROVE  Agree(a, b) /\ Agree(b, a)
<1>1. PICK x \in Nat : x = Apart(a, b)
  <2>1. Apart(a, b) \in Nat
    BY DEF Apart
  <2> QED BY <2>1
<1>2. x = Apart(b, a) /\ (a <= b => x = b - a) /\ (b <= a => x = a - b)
  BY <1>1 DEF Apart
<1>3. PICK c \in Nat \ {0} : c = (IF a > b THEN a ELSE b) /\ a <= c /\ b <= c
  OBVIOUS
<1>4. c = IF b > a THEN b ELSE a
  BY <1>3
<1>5. PICK d \in {a, b} : (x * 100) \div d <= MaxDisagreement
  BY <1>1, <1>2
<1>6. d \in Nat \ {0} /\ d <= c /\ MaxDisagreement \in Nat
  BY <1>3, RateConsensusAssumption DEF RateConsensusAssumption
<1>7. (x * 100) \div c <= MaxDisagreement
  <2>1. x <= x
    OBVIOUS
  <2> QED BY <1>5, <1>6, <2>1, PercentsFit
<1> QED BY <1>1, <1>2, <1>3, <1>4, <1>7 DEF Agree

LEMMA UsableAreReported ==
  ASSUME NEW seen \in [Source -> Nat], Usable(seen) # {}
  PROVE  Reported(Usable(seen), seen) /\ IsFiniteSet(Usable(seen))
<1>1. Usable(seen) \subseteq Source
  BY DEF Usable
<1>2. IsFiniteSet(Usable(seen))
  BY <1>1, FS_Subset, RateConsensusAssumption DEF RateConsensusAssumption
<1> QED BY <1>2 DEF Usable, Unusable, Reported

(* What is near the middle was reported too, the middle itself included.   *)
LEMMA NearIs ==
  ASSUME NEW S, NEW seen, Reported(S, seen)
  PROVE  /\ Reported(Near(S, seen), seen) /\ Near(S, seen) \subseteq S
         /\ \A s \in S : seen[s] = Middle(S, seen) => s \in Near(S, seen)
         /\ \A s \in Near(S, seen) :
              (Apart(seen[s], Middle(S, seen)) * 100) \div Middle(S, seen) <= MaxDisagreement
<1>1. PICK c \in S : seen[c] = Middle(S, seen)
  BY MiddleIs DEF IsMiddle
<1>2. PICK m \in Nat \ {0} : m = Middle(S, seen)
  BY <1>1 DEF Reported
<1>3. Near(S, seen) = {s \in S : (Apart(seen[s], m) * 100) \div m <= MaxDisagreement}
  BY <1>2 DEF Near
<1>4. ASSUME NEW s \in S, seen[s] = m PROVE s \in Near(S, seen)
  <2>1. Apart(seen[s], m) = 0
    BY <1>4 DEF Apart
  <2>2. (0 * 100) \div m = 0
    OBVIOUS
  <2> QED BY <1>3, <2>1, <2>2, RateConsensusAssumption DEF RateConsensusAssumption
<1>5. Near(S, seen) \subseteq S /\ c \in Near(S, seen)
  BY <1>1, <1>2, <1>3, <1>4
<1>6. Reported(Near(S, seen), seen)
  BY <1>5, FS_Subset DEF Reported
<1> QED BY <1>2, <1>3, <1>4, <1>5, <1>6

(* A leg that is not refused is the middle of all usable values, or of     *)
(* those near it.                                                          *)
LEMMA ConsensusIs ==
  ASSUME NEW seen \in [Source -> Nat], NEW U, U = Usable(seen), NEW v, v = LegConsensus(seen), v # Refused
  PROVE  /\ Cardinality(U) >= RequiredQuorum /\ Cardinality(U) \in Nat \ {0} /\ Reported(U, seen)
         /\ \/ WithinTolerance(U, seen) /\ v = Middle(U, seen)
            \/ /\ Cardinality(Near(U, seen)) >= 2 /\ v = Middle(Near(U, seen), seen)
               /\ Cardinality(U) # 2
<1>1. IsFiniteSet(U)
  <2>1. U \subseteq Source
    BY DEF Usable
  <2> QED BY <2>1, FS_Subset, RateConsensusAssumption DEF RateConsensusAssumption
<1>2. RequiredQuorum \in {1, 2} /\ Cardinality(U) \in Nat
  BY <1>1, FS_CardinalityType DEF RequiredQuorum
<1>3. ~ (Cardinality(U) < RequiredQuorum)
  BY DEF LegConsensus
<1>4. Cardinality(U) >= RequiredQuorum /\ Cardinality(U) \in Nat \ {0}
  BY <1>2, <1>3
<1>5. Reported(U, seen)
  <2>1. U # {}
    BY <1>4, FS_EmptySet
  <2> QED BY <2>1, UsableAreReported
<1>6. \/ WithinTolerance(U, seen) /\ v = Middle(U, seen)
      \/ ~ (Cardinality(Near(U, seen)) < 2) /\ v = Middle(Near(U, seen), seen) /\ Cardinality(U) # 2
  BY DEF LegConsensus
<1>7. Cardinality(Near(U, seen)) \in Nat
  BY <1>5, NearIs, FS_CardinalityType DEF Reported
<1> QED BY <1>4, <1>5, <1>6, <1>7

LEMMA SomeOther ==
  ASSUME NEW S, IsFiniteSet(S), Cardinality(S) >= 2, NEW s \in S
  PROVE  \E t \in S : t # s
<1> SUFFICES ASSUME \A t \in S : t = s PROVE FALSE
  OBVIOUS
<1>1. S = {s}
  OBVIOUS
<1>2. Cardinality({s}) = 1
  BY FS_Singleton
<1> QED BY <1>1, <1>2

(* Of two reported values within the tolerance the smaller is tolerated.   *)
LEMMA TolerancesAre ==
  ASSUME NEW S, NEW seen, Reported(S, seen), WithinTolerance(S, seen), NEW s \in S, NEW t \in S
  PROVE  ((seen[s] - seen[t]) * 100) \div seen[t] <= MaxDisagreement
BY DEF WithinTolerance

LEMMA LegIsShared ==
  ASSUME NEW seen \in [Source -> Nat], NEW v, v = LegConsensus(seen), v # Refused, Cardinality(Source) >= 2
  PROVE  \E s, t \in Usable(seen) : s # t /\ seen[s] = v /\ Agree(seen[t], v)
<1>1. PICK U : U = Usable(seen)
  OBVIOUS
<1>2. /\ Cardinality(U) >= 2 /\ Reported(U, seen) /\ IsFiniteSet(U)
      /\ \/ WithinTolerance(U, seen) /\ v = Middle(U, seen)
         \/ /\ Cardinality(Near(U, seen)) >= 2 /\ v = Middle(Near(U, seen), seen)
            /\ Cardinality(U) # 2
  BY <1>1, ConsensusIs DEF RequiredQuorum, Reported
<1>3. CASE WithinTolerance(U, seen) /\ v = Middle(U, seen)
  <2>1. PICK s \in U : seen[s] = v
    BY <1>2, <1>3, MiddleIs DEF IsMiddle
  <2>2. PICK t \in U : t # s
    BY <1>2, SomeOther
  <2>3. PICK a \in Nat \ {0}, b \in Nat \ {0} : a = seen[s] /\ b = seen[t]
    BY <1>2 DEF Reported
  <2>4. ((a - b) * 100) \div b <= MaxDisagreement /\ ((b - a) * 100) \div a <= MaxDisagreement
    BY <1>2, <1>3, <2>3, TolerancesAre
  <2>5. a <= b \/ b <= a
    OBVIOUS
  <2>6. Agree(b, a)
    BY <2>4, <2>5, TolerableAgree
  <2> QED BY <1>1, <2>1, <2>2, <2>3, <2>6
<1>4. CASE Cardinality(Near(U, seen)) >= 2 /\ v = Middle(Near(U, seen), seen)
  <2>1. PICK N : N = Near(U, seen)
    OBVIOUS
  <2>2. PICK c \in U, m \in Nat \ {0} : m = Middle(U, seen) /\ seen[c] = m
    BY <1>2, MiddleIs DEF IsMiddle, Reported
  <2>3. /\ Reported(N, seen) /\ N \subseteq U /\ c \in N
        /\ \A s \in N : (Apart(seen[s], m) * 100) \div m <= MaxDisagreement
    BY <1>2, <2>1, <2>2, NearIs
  <2>4. PICK s \in N : seen[s] = v
    BY <1>4, <2>1, <2>3, MiddleIs DEF IsMiddle
  <2>5. \A t \in N : Agree(seen[t], m) /\ Agree(m, seen[t])
    <3> SUFFICES ASSUME NEW t \in N PROVE Agree(seen[t], m) /\ Agree(m, seen[t])
      OBVIOUS
    <3>1. seen[t] \in Nat \ {0}
      BY <2>3 DEF Reported
    <3> QED BY <2>3, <3>1, TolerableAgree
  <2>6. CASE s = c
    <3>1. PICK t \in N : t # c
      BY <1>4, <2>1, <2>3, SomeOther DEF Reported
    <3> QED BY <1>1, <2>2, <2>3, <2>4, <2>5, <2>6, <3>1
  <2>7. CASE s # c
    BY <1>1, <2>2, <2>3, <2>4, <2>5, <2>7
  <2> QED BY <2>6, <2>7
<1> QED BY <1>2, <1>3, <1>4

(* Whoever agrees with everyone but the odd one is near a middle that lies *)
(* between two of them.                                                    *)
LEMMA OthersAreNear ==
  ASSUME NEW U, NEW seen, Reported(U, seen), NEW O \in SUBSET U, Reported(O, seen),
         WithinTolerance(O, seen), Between(O, seen, Middle(U, seen))
  PROVE  O \subseteq Near(U, seen)
<1>1. PICK s \in O, t \in O : seen[s] <= Middle(U, seen) /\ Middle(U, seen) <= seen[t]
  BY DEF Between
<1>2. PICK m \in Nat \ {0} : m = Middle(U, seen)
  BY MiddleIs DEF IsMiddle, Reported
<1>3. ASSUME NEW o \in O PROVE (Apart(seen[o], m) * 100) \div m <= MaxDisagreement
  <2>1. PICK a \in Nat \ {0}, b \in Nat \ {0}, c \in Nat \ {0} :
          a = seen[s] /\ b = seen[t] /\ c = seen[o]
    BY DEF Reported
  <2>2. a <= m /\ m <= b
    BY <1>1, <1>2, <2>1
  <2>3. MaxDisagreement \in Nat
    BY RateConsensusAssumption DEF RateConsensusAssumption
  <2>4. CASE c > m
    <3>1. PICK x \in Nat, y \in Nat : x = c - m /\ y = c - a /\ x <= y /\ x = Apart(c, m)
      BY <2>2, <2>4 DEF Apart
    <3>2. (y * 100) \div a <= MaxDisagreement
      BY <2>1, <3>1, TolerancesAre
    <3> QED BY <2>1, <2>2, <2>3, <3>1, <3>2, PercentsFit
  <2>5. CASE ~ (c > m)
    <3>1. PICK x \in Nat, y \in Nat : x = m - c /\ y = b - c /\ x <= y /\ x = Apart(c, m)
      BY <2>2, <2>5 DEF Apart
    <3>2. (y * 100) \div c <= MaxDisagreement
      BY <2>1, <3>1, TolerancesAre
    <3>3. c <= m
      BY <2>5
    <3> QED BY <2>1, <2>3, <3>1, <3>2, <3>3, PercentsFit
  <2> QED BY <2>4, <2>5
<1> QED BY <1>2, <1>3 DEF Near

LEMMA OddIsHarmless ==
  ASSUME NEW seen \in [Source -> Nat], NEW odd \in Usable(seen), NEW O, O = Usable(seen) \ {odd},
         Cardinality(O) >= 2, WithinTolerance(O, seen), NEW v, v = LegConsensus(seen), v # Refused
  PROVE  \E s, t \in O : seen[s] <= v /\ v <= seen[t]
<1>1. PICK U : U = Usable(seen)
  OBVIOUS
<1>2. /\ Reported(U, seen) /\ IsFiniteSet(U) /\ Cardinality(U) \in Nat
      /\ \/ v = Middle(U, seen)
         \/ Cardinality(Near(U, seen)) >= 2 /\ v = Middle(Near(U, seen), seen)
  BY <1>1, ConsensusIs DEF Reported
<1>3. Cardinality(U) >= 3 /\ IsFiniteSet(O)
  <2>1. Cardinality(O) = Cardinality(U) - 1 /\ IsFiniteSet(O)
    BY <1>1, <1>2, FS_RemoveElement
  <2> QED BY <1>2, <2>1
<1>4. Between(O, seen, Middle(U, seen))
  BY <1>1, <1>2, <1>3, MiddleIs, MiddleIsBetween
<1>5. CASE v = Middle(U, seen)
  BY <1>4, <1>5 DEF Between
<1>6. CASE v = Middle(Near(U, seen), seen)
  <2>1. O # {} /\ O \subseteq U
    BY <1>1, <1>4 DEF Between
  <2>2. Reported(O, seen)
    BY <1>2, <1>3, <2>1 DEF Reported
  <2>3. PICK N : N = Near(U, seen)
    OBVIOUS
  <2>4. O \subseteq N /\ N \subseteq U /\ Reported(N, seen)
    BY <1>2, <1>4, <2>1, <2>2, <2>3, OthersAreNear, NearIs
  <2>5. N = O \/ N = U
    BY <1>1, <2>4
  <2>6. CASE N = U
    BY <1>4, <1>6, <2>3, <2>6 DEF Between
  <2>7. CASE N = O
    <3>1. PICK s \in O : seen[s] = v
      BY <1>6, <2>2, <2>3, <2>7, MiddleIs DEF IsMiddle
    <3>2. v \in Nat
      BY <2>2, <3>1 DEF Reported
    <3> QED BY <3>1, <3>2
  <2> QED BY <2>5, <2>6, <2>7
<1> QED BY <1>2, <1>5, <1>6

LEMMA SeenAreNaturals == \A seen \in Seen : seen \in [Source -> Nat]
<1>1. Observation \cup {Unusable} \subseteq Nat
  BY RateConsensusAssumption DEF RateConsensusAssumption, Unusable
<1>2. PICK O : O = Observation \cup {Unusable}
  OBVIOUS
<1>3. \A seen \in [Source -> O] : seen \in [Source -> Nat]
  BY <1>1, <1>2
<1> QED BY <1>2, <1>3 DEF Seen

LEMMA LegsAreShared == ConsensusIsShared
<1> SUFFICES ASSUME NEW seen \in Seen, LegConsensus(seen) # Refused, Cardinality(Source) >= 2
             PROVE  \E s, t \in Usable(seen) :
                      s # t /\ seen[s] = LegConsensus(seen) /\ Agree(seen[t], LegConsensus(seen))
  BY DEF ConsensusIsShared
<1>1. seen \in [Source -> Nat]
  BY SeenAreNaturals
<1> QED BY <1>1, LegIsShared

LEMMA OddOnesAreHarmless == OddOneIsHarmless
<1> SUFFICES ASSUME NEW seen \in Seen, NEW odd \in Usable(seen),
                    Cardinality(Usable(seen) \ {odd}) >= 2,
                    WithinTolerance(Usable(seen) \ {odd}, seen), LegConsensus(seen) # Refused
             PROVE  \E s, t \in Usable(seen) \ {odd} :
                      seen[s] <= LegConsensus(seen) /\ LegConsensus(seen) <= seen[t]
  BY DEF OddOneIsHarmless
<1>1. seen \in [Source -> Nat]
  BY SeenAreNaturals
<1> QED BY <1>1, OddIsHarmless

(* A rate buys full units, and no more than one unit is left over. *)
LEMMA UnitsAre ==
  ASSUME NEW n \in Nat, NEW d \in Nat \ {0}, NEW q, q = n \div d
  PROVE  q \in Nat /\ q * d <= n /\ n < (q + 1) * d
<1>1. q \in Int /\ (n % d) \in Int /\ 0 <= (n % d) /\ (n % d) < d
  OBVIOUS
<1>2. n = d * q + (n % d)
  OBVIOUS
<1>3. 0 <= q
  OBVIOUS
<1>4. PICK m \in Int : m = d * q
  BY <1>1
<1>5. q * d = m /\ (q + 1) * d = m + d
  BY <1>1, <1>4
<1> QED BY <1>1, <1>2, <1>3, <1>4, <1>5

(* The inductive invariant: a payout that nobody queued has no GRAM.       *)
Quoted ==
  /\ \A p \in Payout : status[p] = "NONE" => gram[p] = 0
  /\ LockedAtQuote

(* Only queueing sets an amount, and a payout once queued stays a payout.  *)
LEMMA QueuedStays ==
  ASSUME Inv, [Next]_vars, ~PipelineStep
  PROVE  /\ UNCHANGED <<amount, gram>>
         /\ \A q \in Payout : status'[q] = "NONE" => status[q] = "NONE"
<1>1. CASE BeginTask
  BY <1>1 DEF BeginTask, SignValidate, BroadcastValidate, Sendable, AdvanceObserve, ReconcileObserve, Observe
<1>2. CASE \E w \in Worker : TaskStep(w)
  <2>1. PICK w \in Worker : TaskStep(w)
    BY <1>2
  <2>2. UNCHANGED <<amount, gram>>
    BY <2>1 DEF TaskStep, SignerSign, SignRecord, SendLookup, SendPost, BroadcastRecord,
         MarkUnknown, FailRejected, MarkConfirming, AdvanceSettle, ReconcileSettle, SettledBefore,
         ReconcileReset, ReconcileFail, FailedBefore, ResolveExceptions, StillUnknown
  <2>3. \/ status' = status
        \/ \E p, s : s # "NONE" /\ status' = [status EXCEPT ![p] = s]
    <3>1. CASE FailRejected(w) \/ ReconcileFail(w)
      BY <3>1 DEF FailRejected, ReconcileFail, FailedBefore, FailPayout, MoveTo
    <3>2. CASE AdvanceSettle(w) \/ ReconcileSettle(w)
      BY <3>2 DEF AdvanceSettle, ReconcileSettle, SettledBefore, SettlePayout, SkipSettle, MoveTo
    <3>3. CASE SignRecord(w) \/ BroadcastRecord(w) \/ MarkUnknown(w) \/ MarkConfirming(w)
               \/ ReconcileReset(w)
      <4>1. \/ status' = status
            \/ \E s \in {"SIGNED", "BROADCASTED", "UNKNOWN", "CONFIRMING", "RESERVED"} :
                 status' = [status EXCEPT ![task[w].p] = s]
        BY <3>3 DEF SignRecord, BroadcastRecord, MarkUnknown, MarkConfirming, ReconcileReset, MoveTo
      <4> QED BY <4>1
    <3>4. CASE SignerSign(w) \/ SendLookup(w) \/ SendPost(w) \/ ResolveExceptions(w)
               \/ StillUnknown(w)
      BY <3>4 DEF SignerSign, SendLookup, SendPost, ResolveExceptions, StillUnknown
    <3> QED BY <2>1, <3>1, <3>2, <3>3, <3>4 DEF TaskStep
  <2> QED BY <2>2, <2>3 DEF Inv, TypeOK
<1>3. CASE ExpireStaleReservations
  BY <1>3 DEF ExpireStaleReservations
<1>4. CASE \E amt \in Fundings : RecordFunding(amt)
  BY <1>4 DEF RecordFunding
<1>5. CASE EnvironmentStep
  BY <1>5 DEF EnvironmentStep, ReservationLapses, WindowPasses, TransferLost, TransferLands,
              ReplaceWallet, ChangeEligibility, AdminResolves, ToggleFreeze,
         ReconcileAges, Crash
<1>6. CASE UNCHANGED vars
  BY <1>6 DEF vars
<1> QED BY <1>1, <1>2, <1>3, <1>4, <1>5, <1>6 DEF Next

LEMMA QuotedNext == Inv /\ Quoted /\ [Next]_vars => Quoted'
<1> SUFFICES ASSUME Inv, Quoted, [Next]_vars PROVE Quoted'
  OBVIOUS
<1>0. QuotedRates' = QuotedRates
  BY DEF QuotedRates
<1>1. CASE ~PipelineStep
  BY <1>0, <1>1, QueuedStays DEF Quoted, LockedAtQuote
<1>2. CASE PipelineStep
  <2>1. PICK p \in Payout :
          \/ QueueAutomatic(p) \/ \E requested \in Requests : QueueInstant(p, requested)
          \/ \E rate \in Rates : LockPayoutRate(p, rate)
          \/ ReservePayoutLiquidity(p)
    BY <1>2 DEF PipelineStep
  <2>2. CASE QueueAutomatic(p) \/ \E requested \in Requests : QueueInstant(p, requested)
    <3>1. PICK gross \in Nat, charge \in Nat : QueueGross(p, gross, charge)
      BY <2>2, QueueStep
    <3>2. gram' = gram /\ gram[p] = 0 /\ status' = [status EXCEPT ![p] = "QUEUED"]
          /\ amount' = [amount EXCEPT ![p] = gross - charge]
      BY <3>1 DEF QueueGross, MoveTo, Quoted
    <3> QED BY <1>0, <3>2 DEF Quoted, LockedAtQuote, Inv, TypeOK
  <2>3. CASE \E rate \in Rates : LockPayoutRate(p, rate)
    <3>1. PICK rate \in Rates : LockPayoutRate(p, rate)
      BY <2>3
    <3>2. PICK grams : grams = amount[p] \div rate
      OBVIOUS
    <3>3. amount' = amount /\ gram' = [gram EXCEPT ![p] = grams]
          /\ status' = [status EXCEPT ![p] = "RATE_LOCKED"]
      BY <3>1, <3>2 DEF LockPayoutRate, MoveTo
    <3>4. rate \in QuotedRates /\ rate \in Nat \ {0} /\ amount[p] \in Nat
      BY MarketAssumption, AmountAssumption DEF MarketAssumption, AmountAssumption, Inv, TypeOK
    <3>5. grams * rate <= amount[p] /\ amount[p] < (grams + 1) * rate
      BY <3>2, <3>4, UnitsAre
    <3>6. ASSUME NEW q \in Payout, gram'[q] # 0
          PROVE  \E r \in QuotedRates : gram'[q] * r <= amount'[q] /\ amount'[q] < (gram'[q] + 1) * r
      <4>1. CASE q = p
        <5>1. gram'[q] = grams /\ amount'[q] = amount[p]
          BY <3>3, <4>1 DEF Inv, TypeOK
        <5> QED BY <3>4, <3>5, <5>1
      <4>2. CASE q # p
        <5>1. gram'[q] = gram[q] /\ amount'[q] = amount[q]
          BY <3>3, <4>2 DEF Inv, TypeOK
        <5> QED BY <3>6, <5>1 DEF Quoted, LockedAtQuote
      <4> QED BY <4>1, <4>2
    <3>7. ASSUME NEW q \in Payout, status'[q] = "NONE" PROVE gram'[q] = 0
      BY <3>3, <3>7 DEF Quoted, Inv, TypeOK
    <3> QED BY <1>0, <3>6, <3>7 DEF Quoted, LockedAtQuote
  <2>4. CASE ReservePayoutLiquidity(p)
    <3>1. amount' = amount /\ gram' = gram /\ \E s : s # "NONE" /\ status' = [status EXCEPT ![p] = s]
      BY <2>4 DEF ReservePayoutLiquidity, MoveTo
    <3> QED BY <1>0, <3>1 DEF Quoted, LockedAtQuote, Inv, TypeOK
  <2> QED BY <2>1, <2>2, <2>3, <2>4
<1> QED BY <1>1, <1>2

(* For any sources, tolerance and market: a payout is locked at a quote,   *)
(* rounded down to the unit; a leg of a quote is the value of one source   *)
(* that another confirms, and no single source moves it out of what the    *)
(* others say (lockPayoutRate, resolveLegConsensus).                       *)
THEOREM ConsensusIsRobustHolds == Spec => []ConsensusIsRobust
<1>1. Init => Inv /\ Quoted
  BY InvInit DEF Init, Quoted, LockedAtQuote
<1>2. Inv /\ Quoted /\ [Next]_vars => Inv' /\ Quoted'
  BY InvNext, QuotedNext
<1>3. Quoted => ConsensusIsRobust
  BY LegsAreShared, OddOnesAreHarmless DEF Quoted, ConsensusIsRobust
<1> QED BY <1>1, <1>2, <1>3, PTL DEF Spec

-----------------------------------------------------------------------------
(***************************************************************************)
(* The choice among the waiting payouts (LiquidityFit).                    *)
(***************************************************************************)

(* What is known of a queue: its places, and what waits there.             *)
LEMMA QueueRows ==
  ASSUME NEW queue \in Seq(Waiting)
  PROVE  /\ Len(queue) \in Nat /\ DOMAIN queue = 1 .. Len(queue)
         /\ \A i \in 1 .. Len(queue) :
              queue[i].gram \in Nat /\ queue[i].gram > 0 /\ queue[i].age \in Nat
<1>1. Len(queue) \in Nat /\ DOMAIN queue = 1 .. Len(queue)
  OBVIOUS
<1>2. \A i \in 1 .. Len(queue) : queue[i] \in Waiting
  OBVIOUS
<1>3. \A r \in Waiting : r.gram \in Nat /\ r.gram > 0 /\ r.age \in Nat
  BY DEF Waiting
<1> QED BY <1>1, <1>2, <1>3

(* GramOf adds up, place by place.                                         *)
LEMMA GramUpTo ==
  ASSUME NEW queue \in Seq(Waiting), NEW S
  PROVE  \E upTo :
           /\ GramOf(queue, S) = upTo[Len(queue)] /\ upTo[0] = 0
           /\ \A i \in 1 .. Len(queue) :
                upTo[i] = upTo[i - 1] + (IF i \in S THEN queue[i].gram ELSE 0)
<1> DEFINE n == Len(queue)
           step(i) == IF i \in S THEN queue[i].gram ELSE 0
           h == [x \in (1 .. n) \X Int |-> x[2] + step(x[1])]
           upTo == CHOOSE f : f = [i \in 0 .. n |-> IF i = 0 THEN 0 ELSE f[i - 1] + step(i)]
<1>0. n \in Nat /\ \A i \in 1 .. n : step(i) \in Int
  BY QueueRows
<1>1. \A i \in 1 .. n, x \in Int : h[<<i, x>>] = x + step(i)
  OBVIOUS
<1>2. ASSUME NEW i \in 1 .. n, NEW x \in Int
      PROVE  h[<<i, x>>] \in Int
  <2>1. h[<<i, x>>] = x + step(i) /\ step(i) \in Int
    BY <1>0, <1>1
  <2> HIDE DEF h, step
  <2> QED BY <2>1
<1>3. GramOf(queue, S) = upTo[n]
  BY DEF GramOf
<1> HIDE DEF n, step, h
<1>4. PICK f \in [0 .. n -> Int] : f[0] = 0 /\ \A i \in 1 .. n : f[i] = h[<<i, f[i - 1]>>]
  <2> HIDE DEF upTo
  <2>1. Stepwise(n, Int, 0, h)
    BY <1>0, <1>2 DEF Stepwise
  <2> QED BY <2>1, HasRecursive
<1>5. f = [i \in 0 .. n |-> IF i = 0 THEN 0 ELSE f[i - 1] + step(i)]
  <2>1. \A i \in 1 .. n : i - 1 \in 0 .. n /\ f[i - 1] \in Int
    BY <1>0
  <2>2. \A i \in 1 .. n : f[i] = f[i - 1] + step(i)
    BY <1>1, <1>4, <2>1
  <2>3. \A i \in 0 .. n : i = 0 \/ i \in 1 .. n
    BY <1>0
  <2> QED BY <1>4, <2>2, <2>3
<1>6. upTo = [i \in 0 .. n |-> IF i = 0 THEN 0 ELSE upTo[i - 1] + step(i)]
  BY <1>5
<1> HIDE DEF upTo
<1>7. 0 \in 0 .. n /\ \A i \in 1 .. n : i \in 0 .. n /\ i # 0
  BY <1>0
<1>8. upTo[0] = 0 /\ \A i \in 1 .. n : upTo[i] = upTo[i - 1] + step(i)
  BY <1>6, <1>7
<1> QED BY <1>3, <1>8 DEF n, step

(* The GRAM at the places of a queue.                                      *)
Grams(queue) == [i \in DOMAIN queue |-> queue[i].gram]

(* GramOf is the sum over the places.                                      *)
LEMMA GramIsSum ==
  ASSUME NEW queue \in Seq(Waiting), NEW S \in SUBSET DOMAIN queue
  PROVE  GramOf(queue, S) = SumFunctionOnSet(Grams(queue), S)
<1>1. PICK upTo :
        /\ GramOf(queue, S) = upTo[Len(queue)] /\ upTo[0] = 0
        /\ \A i \in 1 .. Len(queue) :
             upTo[i] = upTo[i - 1] + (IF i \in S THEN queue[i].gram ELSE 0)
  BY GramUpTo
<1> DEFINE n == Len(queue)
           g == Grams(queue)
           upto(i) == S \cap (1 .. i)
           C == {i \in 0 .. n : upTo[i] = SumFunctionOnSet(g, upto(i))}
<1>0. n \in Nat /\ DOMAIN queue = 1 .. n /\ \A i \in 1 .. n : g[i] \in Int /\ g[i] = queue[i].gram
  BY QueueRows DEF Grams
<1>2. 0 \in C
  <2>1. upto(0) = {}
    OBVIOUS
  <2>2. SumFunctionOnSet(g, upto(0)) = 0
    BY <2>1, SumOfNone
  <2> QED BY <1>0, <1>1, <2>2
<1>3. ASSUME NEW i \in 1 .. n, i - 1 \in C
      PROVE  i \in C
  <2>0. i \in 0 .. n /\ upTo[i - 1] = SumFunctionOnSet(g, upto(i - 1))
    BY <1>3
  <2>1. IsFiniteSet(upto(i - 1)) /\ i \notin upto(i - 1) /\ \A y \in upto(i - 1) \cup {i} : g[y] \in Int
    <3>0. 1 \in Int /\ i - 1 \in Int
      BY <1>0
    <3>1. IsFiniteSet(1 .. (i - 1))
      BY <3>0, FS_Interval
    <3>3. upto(i - 1) \subseteq 1 .. (i - 1) /\ i \notin 1 .. (i - 1)
      BY <1>0
    <3>2. \A y \in upto(i - 1) \cup {i} : y \in 1 .. n
      BY <1>0
    <3>4. IsFiniteSet(upto(i - 1)) /\ i \notin upto(i - 1)
      <4> HIDE DEF upto
      <4> QED BY <3>1, <3>3, FS_Subset
    <3> QED BY <1>0, <3>2, <3>4
  <2>2. CASE i \in S
    <3>1. upto(i) = upto(i - 1) \cup {i}
      BY <2>2
    <3>2. SumFunctionOnSet(g, upto(i - 1) \cup {i}) = SumFunctionOnSet(g, upto(i - 1)) + g[i]
      <4> HIDE DEF g, upto
      <4> QED BY <2>1, SumAdd
    <3>3. upTo[i] = upTo[i - 1] + g[i]
      BY <1>0, <1>1, <2>2
    <3> HIDE DEF g, upto
    <3> QED BY <2>0, <3>1, <3>2, <3>3
  <2>3. CASE i \notin S
    <3>1. upto(i) = upto(i - 1)
      BY <2>3
    <3>2. upTo[i] = upTo[i - 1] + 0
      BY <1>1, <2>3
    <3>3. SumFunctionOnSet(g, upto(i - 1)) \in Int
      <4> HIDE DEF g, upto
      <4>1. \A y \in upto(i - 1) : g[y] \in Int
        BY <2>1
      <4> QED BY <2>1, <4>1, SumIsInt
    <3> HIDE DEF g, upto
    <3> QED BY <2>0, <3>1, <3>2, <3>3
  <2> QED BY <2>2, <2>3
<1>4. n \in C
  <2> HIDE DEF C, n
  <2>1. \A i \in 0 .. n : i \in C
    BY <1>0, <1>2, <1>3, CountingUp
  <2> QED BY <1>0, <2>1
<1>5. upto(n) = S
  BY <1>0
<1> QED BY <1>1, <1>4, <1>5

(* What the sums of grams do.                                              *)
LEMMA GramSums ==
  ASSUME NEW queue \in Seq(Waiting), NEW S \in SUBSET DOMAIN queue
  PROVE  /\ IsFiniteSet(S) /\ GramOf(queue, S) \in Nat
         /\ \A T \in SUBSET S : GramOf(queue, T) <= GramOf(queue, S)
         /\ \A i \in DOMAIN queue \ S :
              GramOf(queue, S \cup {i}) = GramOf(queue, S) + queue[i].gram
<1> DEFINE g == Grams(queue)
<1>1. \A i \in DOMAIN queue : g[i] = queue[i].gram /\ g[i] \in Nat /\ g[i] \in Int
  BY QueueRows DEF Grams
<1>2. IsFiniteSet(DOMAIN queue)
  <2>1. PICK n \in Nat : DOMAIN queue = 1 .. n
    BY QueueRows
  <2>2. IsFiniteSet(1 .. n)
    BY FS_Interval
  <2> QED BY <2>1, <2>2
<1> HIDE DEF g
<1>3. IsFiniteSet(S) /\ \A x \in S : g[x] \in Nat
  BY <1>1, <1>2, FS_Subset
<1>4. GramOf(queue, S) = SumFunctionOnSet(g, S)
  BY GramIsSum DEF g
<1>5. GramOf(queue, S) \in Nat
  BY <1>3, <1>4, SumIsNat
<1>6. ASSUME NEW T \in SUBSET S
      PROVE  GramOf(queue, T) <= GramOf(queue, S)
  <2>1. GramOf(queue, T) = SumFunctionOnSet(g, T)
    BY GramIsSum DEF g
  <2> QED BY <1>3, <1>4, <2>1, SumOfPart
<1>7. ASSUME NEW i \in DOMAIN queue \ S
      PROVE  GramOf(queue, S \cup {i}) = GramOf(queue, S) + queue[i].gram
  <2>1. GramOf(queue, S \cup {i}) = SumFunctionOnSet(g, S \cup {i})
    BY GramIsSum DEF g
  <2>2. \A y \in S \cup {i} : g[y] \in Int
    BY <1>1
  <2>3. SumFunctionOnSet(g, S \cup {i}) = SumFunctionOnSet(g, S) + g[i]
    BY <1>3, <2>2, SumAdd
  <2> QED BY <1>1, <1>4, <2>1, <2>3
<1> QED BY <1>3, <1>5, <1>6, <1>7

(* TakeStarved takes place by place.                                       *)
TakesStarved(queue, spendable, i, S) ==
  /\ i \in Affordable(queue, spendable) /\ IsStarved(queue, i)
  /\ Cardinality(S) < MaxSelected /\ GramOf(queue, S \cup {i}) <= spendable

LEMMA StarvedUpTo ==
  ASSUME NEW queue \in Seq(Waiting), NEW spendable
  PROVE  \E taken :
           /\ TakeStarved(queue, spendable) = taken[Len(queue)] /\ taken[0] = {}
           /\ \A i \in 1 .. Len(queue) :
                taken[i] = IF TakesStarved(queue, spendable, i, taken[i - 1])
                             THEN taken[i - 1] \cup {i} ELSE taken[i - 1]
<1> DEFINE n == Len(queue)
           step(i, S) == IF TakesStarved(queue, spendable, i, S) THEN S \cup {i} ELSE S
           h == [x \in (1 .. n) \X SUBSET (1 .. n) |-> step(x[1], x[2])]
           taken == CHOOSE f : f = [i \in 0 .. n |->
                      IF i = 0 THEN {}
                      ELSE IF /\ i \in Affordable(queue, spendable) /\ IsStarved(queue, i)
                              /\ Cardinality(f[i - 1]) < MaxSelected
                              /\ GramOf(queue, f[i - 1] \cup {i}) <= spendable
                        THEN f[i - 1] \cup {i} ELSE f[i - 1]]
<1>0. n \in Nat
  BY QueueRows
<1>1. \A i \in 1 .. n, S \in SUBSET (1 .. n) : h[<<i, S>>] = step(i, S)
  OBVIOUS
<1>2. \A i \in 1 .. n, S \in SUBSET (1 .. n) : h[<<i, S>>] \in SUBSET (1 .. n)
  OBVIOUS
<1>3. TakeStarved(queue, spendable) = taken[n]
  BY DEF TakeStarved
<1>3a. taken = CHOOSE f : f = [i \in 0 .. n |-> IF i = 0 THEN {} ELSE step(i, f[i - 1])]
  BY DEF TakesStarved
<1> HIDE DEF n, step, h, taken
<1>4. PICK f \in [0 .. n -> SUBSET (1 .. n)] : f[0] = {} /\ \A i \in 1 .. n : f[i] = h[<<i, f[i - 1]>>]
  <2>1. Stepwise(n, SUBSET (1 .. n), {}, h)
    BY <1>0, <1>2 DEF Stepwise
  <2> QED BY <2>1, HasRecursive
<1>5. f = [i \in 0 .. n |-> IF i = 0 THEN {} ELSE step(i, f[i - 1])]
  <2>1. \A i \in 1 .. n : i - 1 \in 0 .. n /\ f[i - 1] \in SUBSET (1 .. n)
    BY <1>0
  <2>2. \A i \in 1 .. n : f[i] = step(i, f[i - 1])
    BY <1>1, <1>4, <2>1
  <2>3. \A i \in 0 .. n : i = 0 \/ i \in 1 .. n
    BY <1>0
  <2> QED BY <1>4, <2>2, <2>3
<1>6. taken = [i \in 0 .. n |-> IF i = 0 THEN {} ELSE step(i, taken[i - 1])]
  BY <1>3a, <1>5
<1>7. 0 \in 0 .. n /\ \A i \in 1 .. n : i \in 0 .. n /\ i # 0
  BY <1>0
<1>8. taken[0] = {} /\ \A i \in 1 .. n : taken[i] = step(i, taken[i - 1])
  BY <1>6, <1>7
<1> QED BY <1>3, <1>8 DEF n, step

(* The starved who are taken fit, and who is left out did not fit after    *)
(* some of those before him.                                               *)
LEMMA StarvedFit ==
  ASSUME NEW queue \in Seq(Waiting), NEW spendable \in Nat
  PROVE  LET S == TakeStarved(queue, spendable)
         IN /\ S \subseteq {i \in Affordable(queue, spendable) : IsStarved(queue, i)}
            /\ Cardinality(S) <= MaxSelected /\ GramOf(queue, S) <= spendable
            /\ \A i \in DOMAIN queue \ S : \E T \in SUBSET {j \in S : j < i} :
                 ~TakesStarved(queue, spendable, i, T)
<1> DEFINE n == Len(queue)
           St == {i \in Affordable(queue, spendable) : IsStarved(queue, i)}
<1>0. n \in Nat /\ DOMAIN queue = 1 .. n /\ St \subseteq 1 .. n
  BY QueueRows DEF Affordable
<1>1. PICK taken :
        /\ TakeStarved(queue, spendable) = taken[n] /\ taken[0] = {}
        /\ \A i \in 1 .. n :
             taken[i] = IF TakesStarved(queue, spendable, i, taken[i - 1])
                          THEN taken[i - 1] \cup {i} ELSE taken[i - 1]
  BY StarvedUpTo
<1> DEFINE Fits(i) == /\ taken[i] \subseteq St \cap (1 .. i)
                      /\ Cardinality(taken[i]) <= MaxSelected
                      /\ GramOf(queue, taken[i]) <= spendable
           Grows(i) == \A j \in 0 .. i : taken[j] \subseteq taken[i]
           C == {i \in 0 .. n : Fits(i) /\ Grows(i)}
<1>2. 0 \in C
  <2>1. Cardinality({}) = 0 /\ MaxSelected \in Nat
    BY FS_EmptySet, LiquidityFitAssumption DEF LiquidityFitAssumption
  <2>2. GramOf(queue, {}) = 0
    <3>1. GramOf(queue, {}) = SumFunctionOnSet(Grams(queue), {})
      BY GramIsSum
    <3> QED BY <3>1, SumOfNone
  <2>3. Fits(0)
    BY <1>1, <2>1, <2>2
  <2>4. Grows(0)
    BY <1>1
  <2> QED BY <1>0, <2>3, <2>4
<1>3. ASSUME NEW i \in 1 .. n, i - 1 \in C
      PROVE  i \in C
  <2>0. Fits(i - 1) /\ Grows(i - 1) /\ i \in 0 .. n
    BY <1>0, <1>3
  <2>1. \A j \in 0 .. i : j = i \/ j \in 0 .. (i - 1)
    BY <1>0
  <2>2. taken[i - 1] \subseteq taken[i]
    BY <1>1
  <2>3. Grows(i)
    BY <2>0, <2>1, <2>2
  <2>4. CASE TakesStarved(queue, spendable, i, taken[i - 1])
    <3>1. taken[i] = taken[i - 1] \cup {i}
      BY <1>1, <2>4
    <3>2. i \in St /\ GramOf(queue, taken[i]) <= spendable /\ Cardinality(taken[i - 1]) < MaxSelected
      BY <2>4, <3>1 DEF TakesStarved
    <3>3. IsFiniteSet(taken[i - 1]) /\ i \notin taken[i - 1]
      <4>1. taken[i - 1] \in SUBSET DOMAIN queue
        BY <1>0, <2>0
      <4> QED BY <2>0, <4>1, GramSums
    <3>4. Cardinality(taken[i]) = Cardinality(taken[i - 1]) + 1 /\ Cardinality(taken[i - 1]) \in Nat
      BY <3>1, <3>3, FS_AddElement, FS_CardinalityType
    <3>5. Cardinality(taken[i]) <= MaxSelected
      BY <3>2, <3>4, LiquidityFitAssumption DEF LiquidityFitAssumption
    <3>6. taken[i] \subseteq St \cap (1 .. i)
      BY <1>0, <2>0, <3>1, <3>2
    <3> HIDE DEF St
    <3> QED BY <2>0, <2>3, <3>2, <3>5, <3>6
  <2>5. CASE ~TakesStarved(queue, spendable, i, taken[i - 1])
    <3>1. taken[i] = taken[i - 1]
      BY <1>1, <2>5
    <3>2. taken[i] \subseteq St \cap (1 .. i)
      BY <1>0, <2>0, <3>1
    <3> HIDE DEF St
    <3> QED BY <2>0, <2>3, <3>1, <3>2
  <2> QED BY <2>4, <2>5
<1>4. \A i \in 0 .. n : Fits(i) /\ Grows(i)
  <2> HIDE DEF C
  <2>1. \A i \in 0 .. n : i \in C
    BY <1>0, <1>2, <1>3, CountingUp
  <2> QED BY <2>1 DEF C
<1>5. ASSUME NEW i \in DOMAIN queue \ taken[n]
      PROVE  \E T \in SUBSET {j \in taken[n] : j < i} : ~TakesStarved(queue, spendable, i, T)
  <2>1. i \in 1 .. n /\ i - 1 \in 0 .. n /\ i \in 0 .. n /\ n \in 0 .. n
    BY <1>0
  <2>2. taken[i - 1] \subseteq taken[n] /\ taken[i] \subseteq taken[n] /\ taken[i - 1] \subseteq 1 .. (i - 1)
    BY <1>4, <2>1
  <2>3. ~TakesStarved(queue, spendable, i, taken[i - 1])
    BY <1>1, <2>1, <2>2
  <2>4. taken[i - 1] \in SUBSET {j \in taken[n] : j < i}
    BY <2>1, <2>2
  <2> QED BY <2>3, <2>4
<1>6. Fits(n)
  BY <1>0, <1>4
<1> HIDE DEF St
<1>7. taken[n] \subseteq St
  BY <1>6
<1> QED BY <1>1, <1>5, <1>6, <1>7 DEF St

-----------------------------------------------------------------------------
(* Masks. *)

Doubles(f, n) == f[0] = 1 /\ \A i \in 1 .. n : f[i] = 2 * f[i - 1]

LEMMA ShiftedDoubles ==
  ASSUME NEW n \in Nat
  PROVE  \E f : Shifted(n) = f[n] /\ Doubles(f, n)
<1> DEFINE h == [x \in (1 .. n) \X Int |-> 2 * x[2]]
           shifted == CHOOSE f : f = [i \in 0 .. n |-> IF i = 0 THEN 1 ELSE 2 * f[i - 1]]
<1>1. \A i \in 1 .. n, x \in Int : h[<<i, x>>] = 2 * x
  OBVIOUS
<1>2. ASSUME NEW i \in 1 .. n, NEW x \in Int
      PROVE  h[<<i, x>>] \in Int
  <2>1. h[<<i, x>>] = 2 * x
    BY <1>1
  <2> HIDE DEF h
  <2> QED BY <2>1
<1>3. Shifted(n) = shifted[n]
  BY DEF Shifted
<1> HIDE DEF h
<1>4. PICK f \in [0 .. n -> Int] : f[0] = 1 /\ \A i \in 1 .. n : f[i] = h[<<i, f[i - 1]>>]
  <2> HIDE DEF shifted
  <2>1. PICK N, a : N = n /\ a = 1
    OBVIOUS
  <2>2. Stepwise(N, Int, a, h)
    BY <1>2, <2>1 DEF Stepwise
  <2>3. \E f \in [0 .. N -> Int] : f[0] = a /\ \A i \in 1 .. N : f[i] = h[<<i, f[i - 1]>>]
    BY <2>2, HasRecursive
  <2> QED BY <2>1, <2>3
<1>5. f = [i \in 0 .. n |-> IF i = 0 THEN 1 ELSE 2 * f[i - 1]]
  <2>1. \A i \in 1 .. n : i - 1 \in 0 .. n /\ f[i - 1] \in Int
    OBVIOUS
  <2>2. \A i \in 1 .. n : f[i] = 2 * f[i - 1]
    BY <1>1, <1>4, <2>1
  <2>3. \A i \in 0 .. n : i = 0 \/ i \in 1 .. n
    OBVIOUS
  <2> QED BY <1>4, <2>2, <2>3
<1>6. shifted = [i \in 0 .. n |-> IF i = 0 THEN 1 ELSE 2 * shifted[i - 1]]
  BY <1>5
<1> HIDE DEF shifted
<1>7. 0 \in 0 .. n /\ \A i \in 1 .. n : i \in 0 .. n /\ i # 0
  OBVIOUS
<1>8. shifted[0] = 1 /\ \A i \in 1 .. n : shifted[i] = 2 * shifted[i - 1]
  BY <1>6, <1>7
<1> QED BY <1>3, <1>8 DEF Doubles

(* 1 << n doubles with every n. *)
LEMMA ShiftedNext ==
  ASSUME NEW n \in Nat
  PROVE  Shifted(n) \in Nat /\ Shifted(n) > 0 /\ Shifted(n + 1) = 2 * Shifted(n)
<1>1. PICK f : Shifted(n) = f[n] /\ Doubles(f, n)
  BY ShiftedDoubles
<1>2. PICK g : Shifted(n + 1) = g[n + 1] /\ Doubles(g, n + 1)
  BY ShiftedDoubles
<1> DEFINE C == {i \in 0 .. n : f[i] = g[i] /\ f[i] \in Nat /\ f[i] > 0}
<1>3. 0 \in C
  BY <1>1, <1>2 DEF Doubles
<1>4. ASSUME NEW i \in 1 .. n, i - 1 \in C
      PROVE  i \in C
  <2>1. f[i] = 2 * f[i - 1] /\ g[i] = 2 * g[i - 1]
    BY <1>1, <1>2 DEF Doubles
  <2> QED BY <1>4, <2>1
<1>5. n \in C
  <2> HIDE DEF C
  <2>1. \A i \in 0 .. n : i \in C
    BY <1>3, <1>4, CountingUp
  <2> QED BY <2>1
<1>6. g[n + 1] = 2 * g[n]
  BY <1>2 DEF Doubles
<1> QED BY <1>1, <1>2, <1>5, <1>6

LEMMA ShiftedZero == Shifted(0) = 1
BY ShiftedDoubles DEF Doubles

(* A smaller power divides a larger one, with an even quotient. *)
LEMMA ShiftedDivides ==
  ASSUME NEW m \in Nat, NEW o \in 0 .. m - 1
  PROVE  \E c \in Nat : Shifted(m) = Shifted(o) * (2 * c)
<1> DEFINE C == {k \in 0 .. m : k > o => \E c \in Nat : Shifted(k) = Shifted(o) * (2 * c)}
<1>1. 0 \in C
  OBVIOUS
<1>2. ASSUME NEW k \in 1 .. m, k - 1 \in C
      PROVE  k \in C
  <2>1. /\ Shifted(k) = 2 * Shifted(k - 1) /\ Shifted(o) \in Nat
    <3>1. k - 1 \in Nat /\ (k - 1) + 1 = k /\ o \in Nat
      OBVIOUS
    <3> QED BY <3>1, ShiftedNext
  <2>2. CASE k - 1 > o
    <3>1. PICK c \in Nat : Shifted(k - 1) = Shifted(o) * (2 * c)
      BY <1>2, <2>2
    <3>2. Shifted(k) = Shifted(o) * (2 * (2 * c)) /\ 2 * c \in Nat
      BY <2>1, <3>1
    <3> QED BY <3>2
  <2>3. CASE k - 1 = o
    <3>1. Shifted(k) = Shifted(o) * (2 * 1)
      BY <2>1, <2>3
    <3> QED BY <3>1
  <2>4. CASE k - 1 < o
    BY <2>4
  <2> QED BY <2>2, <2>3, <2>4
<1>3. m \in C
  <2> HIDE DEF C
  <2>1. \A i \in 0 .. m : i \in C
    BY <1>1, <1>2, CountingUp
  <2> QED BY <2>1
<1> QED BY <1>3

(* A smaller power is no greater. *)
LEMMA ShiftedGrows ==
  ASSUME NEW m \in Nat, NEW o \in 0 .. m
  PROVE  Shifted(o) <= Shifted(m)
<1> DEFINE C == {k \in 0 .. m : k >= o => Shifted(o) <= Shifted(k)}
<1>1. 0 \in C
  <2>1. Shifted(o) \in Nat
    BY ShiftedNext
  <2>2. 0 >= o => o = 0
    OBVIOUS
  <2> QED BY <2>1, <2>2
<1>2. ASSUME NEW k \in 1 .. m, k - 1 \in C
      PROVE  k \in C
  <2>1. /\ Shifted(k) = 2 * Shifted(k - 1) /\ Shifted(k - 1) \in Nat /\ Shifted(o) \in Nat
    <3>1. k - 1 \in Nat /\ (k - 1) + 1 = k /\ o \in Nat
      OBVIOUS
    <3> QED BY <3>1, ShiftedNext
  <2>2. CASE k - 1 >= o
    BY <1>2, <2>1, <2>2
  <2>3. CASE k - 1 < o
    <3>1. k >= o => k = o
      BY <2>3
    <3> QED BY <2>1, <3>1
  <2> QED BY <2>2, <2>3
<1>3. m \in C
  <2> HIDE DEF C
  <2>1. \A i \in 0 .. m : i \in C
    BY <1>1, <1>2, CountingUp
  <2> QED BY <2>1
<1> QED BY <1>3

(* Division with a remainder has one answer. *)
LEMMA DivIsUnique ==
  ASSUME NEW x \in Nat, NEW d \in Nat, d > 0, NEW q \in Int, NEW r \in Int,
         x = d * q + r, 0 <= r, r < d
  PROVE  x \div d = q
<1>1. PICK Q \in Int, R \in Int : Q = x \div d /\ R = x % d
  OBVIOUS
<1>2. x = d * Q + R /\ 0 <= R /\ R < d
  BY <1>1
<1>3. CASE q < Q
  <2>1. PICK k \in Int : Q = q + 1 + k
    BY <1>3
  <2>2. k >= 0 
    BY <2>1, <1>3
  <2>3. d * Q = d * q + d + d * k /\ d * k >= 0
    BY <2>1, <2>2
  <2> QED BY <1>2, <2>3
<1>4. CASE q > Q
  <2>1. PICK k \in Int : q = Q + 1 + k
    BY <1>4
  <2>2. k >= 0 
    BY <2>1, <1>4
  <2>3. d * q = d * Q + d + d * k /\ d * k >= 0
    BY <2>1, <2>2
  <2> QED BY <1>2, <2>3
<1> QED BY <1>1, <1>3, <1>4

(* Adding a multiple of what is divided by. *)
LEMMA DivAdds ==
  ASSUME NEW x \in Nat, NEW d \in Nat, d > 0, NEW c \in Nat
  PROVE  (x + d * c) \div d = (x \div d) + c
<1>1. PICK Q \in Int, R \in Int : Q = x \div d /\ R = x % d
  OBVIOUS
<1>2. x = d * Q + R /\ 0 <= R /\ R < d
  BY <1>1
<1>3. PICK y \in Nat : y = x + d * c
  OBVIOUS
<1>4. y = d * (Q + c) + R /\ Q + c \in Int
  BY <1>2, <1>3
<1>5. y \div d = Q + c
  BY <1>2, <1>4, DivIsUnique
<1> QED BY <1>1, <1>3, <1>5

(* The bits of a mask. *)
Bit(mask, o) == (mask \div Shifted(o)) % 2

LEMMA BitAbove ==
  ASSUME NEW o \in Nat, NEW mask \in Nat, mask < Shifted(o)
  PROVE  Bit(mask, o) = 0
<1>1. PICK d \in Nat : d = Shifted(o) /\ d > 0
  BY ShiftedNext
<1>2. mask = d * 0 + mask /\ mask < d
  BY <1>1
<1>3. mask \div d = 0
  BY <1>1, <1>2, DivIsUnique
<1> QED BY <1>1, <1>3 DEF Bit

LEMMA BitTop ==
  ASSUME NEW o \in Nat, NEW mask \in Nat, mask < Shifted(o)
  PROVE  Bit(mask + Shifted(o), o) = 1
<1>1. PICK d \in Nat : d = Shifted(o) /\ d > 0
  BY ShiftedNext
<1>2. mask + d = d * 1 + mask /\ mask < d /\ mask + d \in Nat
  BY <1>1
<1>3. (mask + d) \div d = 1
  BY <1>1, <1>2, DivIsUnique
<1> QED BY <1>1, <1>3 DEF Bit

LEMMA BitBelow ==
  ASSUME NEW m \in Nat, NEW o \in 0 .. m - 1, NEW mask \in Nat
  PROVE  Bit(mask + Shifted(m), o) = Bit(mask, o)
<1>1. PICK d \in Nat : d = Shifted(o) /\ d > 0
  BY ShiftedNext
<1>2. PICK c \in Nat : Shifted(m) = d * (2 * c)
  BY <1>1, ShiftedDivides
<1>3. PICK k \in Nat : k = 2 * c
  OBVIOUS
<1>4. (mask + d * k) \div d = (mask \div d) + k
  BY <1>1, DivAdds
<1>5. PICK q \in Int : q = mask \div d
  BY <1>1
<1>6. (q + 2 * c) % 2 = q % 2
  OBVIOUS
<1> QED BY <1>1, <1>2, <1>3, <1>4, <1>5, <1>6 DEF Bit

(* The older payouts of one, and of a younger one. *)
LEMMA OlderGrows ==
  ASSUME NEW rest, IsFiniteSet(rest), rest \subseteq Int, NEW i \in rest
  PROVE  /\ Older(rest, i) \in Nat /\ Older(rest, i) < Cardinality(rest)
         /\ \A j \in rest : i < j => Older(rest, i) < Older(rest, j)
<1> DEFINE below(k) == {l \in rest : l < k}
<1>1. Older(rest, i) = Cardinality(below(i)) /\ \A j \in rest : Older(rest, j) = Cardinality(below(j))
  BY DEF Older
<1>2. below(i) \subseteq rest /\ i \notin below(i) /\ \A j \in rest : below(j) \subseteq rest
  OBVIOUS
<1>3. ASSUME NEW j \in rest, i < j
      PROVE  below(i) \subseteq below(j) /\ i \in below(j)
  <2>1. \A l \in rest : l \in Int
    OBVIOUS
  <2>2. \A l \in rest : l < i => l < j
    BY <1>3, <2>1
  <2> QED BY <1>3, <2>2
<1> HIDE DEF below
<1>4. IsFiniteSet(below(i)) /\ Cardinality(below(i)) \in Nat
  BY <1>2, FS_Subset, FS_CardinalityType
<1>5. Cardinality(below(i)) < Cardinality(rest)
  <2>1. Cardinality(rest) \in Nat
    BY FS_CardinalityType
  <2>2. Cardinality(below(i)) <= Cardinality(rest) /\ Cardinality(below(i)) # Cardinality(rest)
    BY <1>2, FS_Subset
  <2> QED BY <1>4, <2>1, <2>2
<1>6. ASSUME NEW j \in rest, i < j
      PROVE  Cardinality(below(i)) < Cardinality(below(j))
  <2>1. IsFiniteSet(below(j))
    BY <1>2, FS_Subset
  <2>2. below(i) \subseteq below(j) /\ below(i) # below(j)
    BY <1>2, <1>3, <1>6
  <2>3. Cardinality(below(j)) \in Nat
    BY <2>1, FS_CardinalityType
  <2>4. Cardinality(below(i)) <= Cardinality(below(j)) /\ Cardinality(below(i)) # Cardinality(below(j))
    BY <2>1, <2>2, FS_Subset
  <2> QED BY <1>4, <2>3, <2>4
<1> QED BY <1>1, <1>4, <1>5, <1>6

(* Every choice of payouts has a mask. *)
LEMMA MasksAreAll ==
  ASSUME NEW rest, IsFiniteSet(rest), rest \subseteq Int, NEW S \in SUBSET rest
  PROVE  \E mask \in 0 .. Shifted(Cardinality(rest)) - 1 : Masked(rest, mask) = S
<1> DEFINE n == Cardinality(rest)
           o(i) == Older(rest, i)
           first(m) == {i \in rest : o(i) < m}
           C == {m \in 0 .. n : \A T \in SUBSET first(m) :
                   \E mask \in 0 .. Shifted(m) - 1 : Masked(rest, mask) = T}
<1>0. n \in Nat /\ \A mask, i : i \in Masked(rest, mask) <=> i \in rest /\ Bit(mask, o(i)) = 1
  BY FS_CardinalityType DEF Masked, Bit
<1>1. \A i \in rest : o(i) \in Nat /\ o(i) < n
  BY OlderGrows
<1>2. \A i, j \in rest : o(i) = o(j) => i = j
  <2> SUFFICES ASSUME NEW i \in rest, NEW j \in rest, i < j
               PROVE  o(i) # o(j)
    OBVIOUS
  <2>1. o(i) < o(j) /\ o(i) \in Nat /\ o(j) \in Nat
    BY <1>1, OlderGrows
  <2> QED BY <2>1
<1>3. 0 \in C
  <2>1. first(0) = {}
    <3>1. \A i \in rest : ~ (o(i) < 0)
      BY <1>1
    <3> HIDE DEF o
    <3> QED BY <3>1
  <2>2. Shifted(0) = 1
    BY ShiftedZero
  <2>3. ASSUME NEW i \in rest
        PROVE  Bit(0, o(i)) = 0
    <3>1. Shifted(o(i)) > 0 /\ o(i) \in Nat
      BY <1>1, ShiftedNext
    <3> QED BY <3>1, BitAbove
  <2>4. Masked(rest, 0) = {}
    <3>1. \A i : i \in Masked(rest, 0) <=> i \in rest /\ Bit(0, o(i)) = 1
      BY <1>0
    <3>2. ASSUME NEW i \in Masked(rest, 0)
          PROVE  FALSE
      <4>1. i \in rest /\ Bit(0, o(i)) = 1
        BY <3>1
      <4>2. Bit(0, o(i)) = 0
        BY <2>3, <4>1
      <4> HIDE DEF o
      <4> QED BY <4>1, <4>2
    <3> QED BY <3>2
  <2>5. 0 \in 0 .. Shifted(0) - 1 /\ 0 \in 0 .. n
    BY <1>0, <2>2
  <2> HIDE DEF first
  <2> QED BY <2>1, <2>4, <2>5
<1>4. ASSUME NEW m \in 1 .. n, m - 1 \in C
      PROVE  m \in C
  <2> DEFINE k == m - 1
  <2>0. k \in Nat /\ m \in Nat /\ m \in 0 .. n
    BY <1>0
  <2>1. /\ Shifted(k) \in Nat /\ Shifted(k) > 0 /\ Shifted(m) = 2 * Shifted(k)
    <3>1. k + 1 = m
      BY <2>0
    <3> HIDE DEF k
    <3> QED BY <2>0, <3>1, ShiftedNext
  <2>2. \A T \in SUBSET first(k) : \E mask \in 0 .. Shifted(k) - 1 : Masked(rest, mask) = T
    BY <1>4
  <2>3. ASSUME NEW T \in SUBSET first(m)
        PROVE  \E mask \in 0 .. Shifted(m) - 1 : Masked(rest, mask) = T
    <3>1. CASE \A e \in T : o(e) # k
      <4>1. T \subseteq first(k)
        BY <1>1, <2>0, <3>1
      <4>2. PICK mask \in 0 .. Shifted(k) - 1 : Masked(rest, mask) = T
        BY <2>2, <4>1
      <4>3. mask \in 0 .. Shifted(m) - 1
        <5> HIDE DEF k
        <5> QED BY <2>1
      <4> QED BY <4>2, <4>3
    <3>2. CASE \E e \in T : o(e) = k
      <4>1. PICK e \in T : o(e) = k
        BY <3>2
      <4>2. T \ {e} \subseteq first(k)
        BY <1>1, <1>2, <2>0, <4>1
      <4>3. PICK mask \in 0 .. Shifted(k) - 1 : Masked(rest, mask) = T \ {e}
        BY <2>2, <4>2
      <4> DEFINE new == mask + Shifted(k)
      <4>4. mask \in Nat /\ mask < Shifted(k) /\ new \in 0 .. Shifted(m) - 1 /\ new \in Nat /\ new < Shifted(m)
        <5> HIDE DEF k
        <5> QED BY <2>1
      <4>5. ASSUME NEW i \in rest
            PROVE  i \in T <=> Bit(new, o(i)) = 1
        <5>0. o(i) \in Nat /\ i \in T \ {e} <=> Bit(mask, o(i)) = 1
          BY <1>0, <1>1, <4>3
        <5>0a. o(i) \in Nat
          BY <1>1
        <5>1. CASE o(i) = k
          <6>1. i = e
            BY <1>2, <4>1, <5>1
          <6>2. Bit(new, k) = 1
            <7> HIDE DEF k
            <7> QED BY <2>0, <4>4, BitTop DEF new
          <6> QED BY <4>1, <5>1, <6>1, <6>2
        <5>2. CASE o(i) < k
          <6>1. i # e
            BY <4>1, <5>2, <2>0
          <6>2. Bit(new, o(i)) = Bit(mask, o(i))
            <7>1. o(i) \in 0 .. k - 1
              BY <2>0, <5>0a, <5>2
            <7> HIDE DEF k, o
            <7> QED BY <2>0, <4>4, <7>1, BitBelow DEF new
          <6> QED BY <1>0, <4>3, <6>1, <6>2
        <5>3. CASE o(i) > k
          <6>1. m \in 0 .. o(i)
            BY <2>0, <5>0a, <5>3
          <6>2. i \notin T
            BY <6>1, <5>0a
          <6>3. new < Shifted(o(i))
            <7>1. Shifted(m) <= Shifted(o(i)) /\ Shifted(o(i)) \in Nat /\ Shifted(m) \in Nat
              <8> HIDE DEF o
              <8> QED BY <2>0, <5>0a, <6>1, ShiftedGrows, ShiftedNext
            <7> HIDE DEF o, new
            <7> QED BY <4>4, <7>1
          <6>4. Bit(new, o(i)) = 0
            <7> HIDE DEF o, new
            <7> QED BY <4>4, <5>0a, <6>3, BitAbove
          <6> QED BY <6>2, <6>4
        <5>4. o(i) = k \/ o(i) < k \/ o(i) > k
          BY <2>0, <5>0a
        <5> QED BY <5>1, <5>2, <5>3, <5>4
      <4>6. Masked(rest, new) = T
        <5> HIDE DEF new
        <5>1. T \subseteq rest
          OBVIOUS
        <5>2. \A i : i \in Masked(rest, new) <=> i \in rest /\ Bit(new, o(i)) = 1
          BY <1>0
        <5> HIDE DEF o
        <5>3. \A i : i \in Masked(rest, new) <=> i \in T
          BY <4>5, <5>1, <5>2
        <5> QED BY <5>3
      <4> QED BY <4>4, <4>6
    <3> QED BY <3>1, <3>2
  <2> QED BY <2>0, <2>3
<1>5. n \in C
  <2> HIDE DEF C, n
  <2>1. \A i \in 0 .. n : i \in C
    BY <1>0, <1>3, <1>4, CountingUp
  <2> QED BY <1>0, <2>1
<1>6. S \subseteq first(n)
  BY <1>1
<1> QED BY <1>5, <1>6

-----------------------------------------------------------------------------
(* The subset search. *)
LEMMA SearchUpTo ==
  ASSUME NEW queue \in Seq(Waiting), NEW rest \in SUBSET DOMAIN queue, NEW remaining, NEW slots
  PROVE  LET last == Shifted(Cardinality(rest)) - 1
             Better(S, best) ==
               Improves(GramOf(queue, S), Cardinality(S), GramOf(queue, best), remaining, slots)
         IN \E best :
              /\ Search(queue, rest, remaining, slots) = best[last] /\ best[0] = {}
              /\ \A mask \in 1 .. last :
                   best[mask] = IF Better(Masked(rest, mask), best[mask - 1])
                                  THEN Masked(rest, mask) ELSE best[mask - 1]
<1> DEFINE n == Shifted(Cardinality(rest)) - 1
           Better(S, best) ==
             Improves(GramOf(queue, S), Cardinality(S), GramOf(queue, best), remaining, slots)
           step(i, x) == IF Better(Masked(rest, i), x) THEN Masked(rest, i) ELSE x
           h == [x \in (1 .. n) \X SUBSET rest |-> step(x[1], x[2])]
           best == CHOOSE f : f = [mask \in 0 .. n |->
                     LET S == Masked(rest, mask)
                     IN IF mask = 0 THEN {}
                        ELSE IF Improves(GramOf(queue, S), Cardinality(S),
                                         GramOf(queue, f[mask - 1]), remaining, slots)
                          THEN S ELSE f[mask - 1]]
<1>0. n \in Nat
  <2>1. IsFiniteSet(rest)
    BY GramSums
  <2>2. Cardinality(rest) \in Nat
    BY <2>1, FS_CardinalityType
  <2>3. Shifted(Cardinality(rest)) \in Nat /\ Shifted(Cardinality(rest)) > 0
    BY <2>2, ShiftedNext
  <2> QED BY <2>3
<1>1. \A i \in 1 .. n, x \in SUBSET rest : h[<<i, x>>] = step(i, x)
  OBVIOUS
<1>2. ASSUME NEW i \in 1 .. n, NEW x \in SUBSET rest
      PROVE  h[<<i, x>>] \in SUBSET rest
  <2>1. Masked(rest, i) \in SUBSET rest
    BY DEF Masked
  <2>2. step(i, x) \in SUBSET rest
    BY <2>1
  <2>3. h[<<i, x>>] = step(i, x)
    BY <1>1
  <2> HIDE DEF h, step
  <2> QED BY <2>2, <2>3
<1>3. Search(queue, rest, remaining, slots) = best[n]
  BY DEF Search
<1>3a. best = CHOOSE f : f = [i \in 0 .. n |-> IF i = 0 THEN {} ELSE step(i, f[i - 1])]
  OBVIOUS
<1> HIDE DEF n, step, h, best
<1>4. PICK f \in [0 .. n -> SUBSET rest] : f[0] = {} /\ \A i \in 1 .. n : f[i] = h[<<i, f[i - 1]>>]
  <2>1. Stepwise(n, SUBSET rest, {}, h)
    BY <1>0, <1>2 DEF Stepwise
  <2> QED BY <2>1, HasRecursive
<1>5. f = [i \in 0 .. n |-> IF i = 0 THEN {} ELSE step(i, f[i - 1])]
  <2>1. \A i \in 1 .. n : i - 1 \in 0 .. n /\ f[i - 1] \in SUBSET rest
    BY <1>0
  <2>2. \A i \in 1 .. n : f[i] = step(i, f[i - 1])
    BY <1>1, <1>4, <2>1
  <2>3. \A i \in 0 .. n : i = 0 \/ i \in 1 .. n
    BY <1>0
  <2> QED BY <1>4, <2>2, <2>3
<1>6. best = [i \in 0 .. n |-> IF i = 0 THEN {} ELSE step(i, best[i - 1])]
  BY <1>3a, <1>5
<1>7. 0 \in 0 .. n /\ \A i \in 1 .. n : i \in 0 .. n /\ i # 0
  BY <1>0
<1>8. best[0] = {} /\ \A i \in 1 .. n : best[i] = step(i, best[i - 1])
  BY <1>6, <1>7
<1> QED BY <1>3, <1>8 DEF n, step

(* The search finds a choice that fits, and none that fits uses more.      *)
LEMMA SearchIsBest ==
  ASSUME NEW queue \in Seq(Waiting), NEW rest \in SUBSET DOMAIN queue,
         NEW remaining \in Nat, NEW slots \in Nat
  PROVE  LET B == Search(queue, rest, remaining, slots)
         IN /\ B \subseteq rest /\ GramOf(queue, B) <= remaining /\ Cardinality(B) <= slots
            /\ \A S \in SUBSET rest :
                 GramOf(queue, S) <= remaining /\ Cardinality(S) <= slots
                   => GramOf(queue, S) <= GramOf(queue, B)
<1> DEFINE n == Shifted(Cardinality(rest)) - 1
           M(i) == Masked(rest, i)
           gram_(S) == GramOf(queue, S)
           OK(S) == gram_(S) <= remaining /\ Cardinality(S) <= slots
<1>0. IsFiniteSet(rest) /\ rest \subseteq Int /\ \A S \in SUBSET rest : gram_(S) \in Nat
  <2>1. \A S \in SUBSET rest : S \in SUBSET DOMAIN queue
    OBVIOUS
  <2>2. rest \subseteq Int
    BY QueueRows
  <2> QED BY <2>1, <2>2, GramSums
<1>1. n \in Nat
  <2>2. Cardinality(rest) \in Nat
    BY <1>0, FS_CardinalityType
  <2>3. Shifted(Cardinality(rest)) \in Nat /\ Shifted(Cardinality(rest)) > 0
    BY <2>2, ShiftedNext
  <2> QED BY <2>3
<1>2. PICK best :
        /\ Search(queue, rest, remaining, slots) = best[n] /\ best[0] = {}
        /\ \A mask \in 1 .. n :
             best[mask] = IF Improves(gram_(M(mask)), Cardinality(M(mask)), gram_(best[mask - 1]),
                                      remaining, slots)
                            THEN M(mask) ELSE best[mask - 1]
  <2>1. PICK r, s : r = remaining /\ s = slots
    OBVIOUS
  <2>2. \E best :
          /\ Search(queue, rest, r, s) = best[n] /\ best[0] = {}
          /\ \A mask \in 1 .. n :
               best[mask] = IF Improves(gram_(M(mask)), Cardinality(M(mask)),
                                        gram_(best[mask - 1]), r, s)
                              THEN M(mask) ELSE best[mask - 1]
    BY SearchUpTo
  <2> QED BY <2>1, <2>2
<1>3. \A i : M(i) \in SUBSET rest
  BY DEF Masked
<1> DEFINE Best(i) == /\ best[i] \in SUBSET rest /\ OK(best[i])
                      /\ \A j \in 0 .. i : OK(M(j)) => gram_(M(j)) <= gram_(best[i])
           C == {i \in 0 .. n : Best(i)}
<1>4. gram_({}) = 0 /\ Cardinality({}) = 0
  <2>1. GramOf(queue, {}) = SumFunctionOnSet(Grams(queue), {})
    BY GramIsSum
  <2> QED BY <2>1, SumOfNone, FS_EmptySet
<1>5. M(0) = {}
  <2>1. ASSUME NEW i \in M(0)
        PROVE  FALSE
    <3>1. i \in rest /\ Bit(0, Older(rest, i)) = 1
      BY DEF Masked, Bit
    <3>2. Older(rest, i) \in Nat
      BY <1>0, <3>1, OlderGrows
    <3>3. Shifted(Older(rest, i)) > 0
      BY <3>2, ShiftedNext
    <3>4. Bit(0, Older(rest, i)) = 0
      BY <3>2, <3>3, BitAbove
    <3> QED BY <3>1, <3>4
  <2> QED BY <2>1
<1> HIDE DEF M, n, gram_
<1>6. 0 \in C
  <2>1. 0 \in 0 .. n /\ \A j \in 0 .. 0 : j = 0
    BY <1>1
  <2>2. OK({}) /\ gram_({}) <= gram_({})
    BY <1>4
  <2> QED BY <1>2, <1>5, <2>1, <2>2
<1>7. ASSUME NEW i \in 1 .. n, i - 1 \in C
      PROVE  i \in C
  <2>0. Best(i - 1) /\ i \in 0 .. n /\ M(i) \in SUBSET rest
    BY <1>1, <1>3, <1>7
  <2>1. \A j \in 0 .. i : j = i \/ j \in 0 .. (i - 1)
    BY <1>1
  <2>2. gram_(M(i)) \in Nat /\ gram_(best[i - 1]) \in Nat /\ \A j \in 0 .. i : gram_(M(j)) \in Nat
    BY <1>0, <1>3, <2>0
  <2>3. Improves(gram_(M(i)), Cardinality(M(i)), gram_(best[i - 1]), remaining, slots)
          <=> OK(M(i)) /\ gram_(M(i)) > gram_(best[i - 1])
    BY DEF Improves
  <2>4. CASE OK(M(i)) /\ gram_(M(i)) > gram_(best[i - 1])
    <3>1. best[i] = M(i)
      BY <1>2, <2>3, <2>4
    <3>2. ASSUME NEW j \in 0 .. i, OK(M(j))
          PROVE  gram_(M(j)) <= gram_(best[i])
      <4>1. CASE j = i
        BY <2>2, <3>1, <4>1
      <4>2. CASE j \in 0 .. (i - 1)
        <5>1. gram_(M(j)) <= gram_(best[i - 1])
          BY <2>0, <3>2, <4>2
        <5> HIDE DEF OK
        <5> QED BY <2>2, <2>4, <3>1, <5>1
      <4> QED BY <2>1, <4>1, <4>2
    <3> QED BY <2>0, <2>4, <3>1, <3>2
  <2>5. CASE ~ (OK(M(i)) /\ gram_(M(i)) > gram_(best[i - 1]))
    <3>1. best[i] = best[i - 1]
      BY <1>2, <2>3, <2>5
    <3>2. ASSUME NEW j \in 0 .. i, OK(M(j))
          PROVE  gram_(M(j)) <= gram_(best[i])
      <4>1. CASE j = i
        <5> HIDE DEF OK
        <5>1. ~ (gram_(M(i)) > gram_(best[i - 1]))
          BY <2>5, <3>2, <4>1
        <5> QED BY <2>2, <3>1, <4>1, <5>1
      <4>2. CASE j \in 0 .. (i - 1)
        BY <2>0, <3>1, <3>2, <4>2
      <4> QED BY <2>1, <4>1, <4>2
    <3> QED BY <2>0, <3>1, <3>2
  <2> QED BY <2>4, <2>5
<1>8. Best(n)
  <2> HIDE DEF C
  <2>1. \A i \in 0 .. n : i \in C
    BY <1>1, <1>6, <1>7, CountingUp
  <2> QED BY <1>1, <2>1 DEF C
<1>9. ASSUME NEW S \in SUBSET rest, OK(S)
      PROVE  gram_(S) <= gram_(best[n])
  <2>1. PICK mask \in 0 .. n : M(mask) = S
    BY <1>0, MasksAreAll DEF M, n
  <2> QED BY <1>8, <1>9, <2>1
<1> QED BY <1>2, <1>8, <1>9 DEF gram_

-----------------------------------------------------------------------------
(* What is reserved. *)
Reserves(queue, S, now, i, R) ==
  i \in S /\ queue[i].locked /\ CanReserve(queue[i].gram, now - GramOf(queue, R))

ReservedUpTo(reserved, queue, S, before, now) ==
  /\ Reserve(queue, S, before, now) = reserved[Len(queue)] /\ reserved[0] = before
  /\ \A i \in 1 .. Len(queue) :
       reserved[i] = IF Reserves(queue, S, now, i, reserved[i - 1])
                       THEN reserved[i - 1] \cup {i} ELSE reserved[i - 1]

LEMMA ReserveUpTo ==
  ASSUME NEW queue \in Seq(Waiting), NEW S, NEW before \in SUBSET DOMAIN queue, NEW now
  PROVE  \E reserved : ReservedUpTo(reserved, queue, S, before, now)
<1> DEFINE n == Len(queue)
           step(i, R) == IF Reserves(queue, S, now, i, R) THEN R \cup {i} ELSE R
           h == [x \in (1 .. n) \X SUBSET (1 .. n) |-> step(x[1], x[2])]
           reserved == CHOOSE f : f = [i \in 0 .. n |->
                         IF i = 0 THEN before
                         ELSE IF /\ i \in S /\ queue[i].locked
                                 /\ CanReserve(queue[i].gram, now - GramOf(queue, f[i - 1]))
                           THEN f[i - 1] \cup {i} ELSE f[i - 1]]
<1>0. n \in Nat /\ before \in SUBSET (1 .. n)
  BY QueueRows
<1>1. \A i \in 1 .. n, R \in SUBSET (1 .. n) : h[<<i, R>>] = step(i, R)
  OBVIOUS
<1>2. \A i \in 1 .. n, R \in SUBSET (1 .. n) : h[<<i, R>>] \in SUBSET (1 .. n)
  OBVIOUS
<1>3. Reserve(queue, S, before, now) = reserved[n]
  BY DEF Reserve
<1>3a. reserved = CHOOSE f : f = [i \in 0 .. n |-> IF i = 0 THEN before ELSE step(i, f[i - 1])]
  BY DEF Reserves
<1> HIDE DEF n, step, h, reserved
<1>4. PICK f \in [0 .. n -> SUBSET (1 .. n)] :
        f[0] = before /\ \A i \in 1 .. n : f[i] = h[<<i, f[i - 1]>>]
  <2>1. Stepwise(n, SUBSET (1 .. n), before, h)
    BY <1>0, <1>2 DEF Stepwise
  <2> QED BY <2>1, HasRecursive
<1>5. f = [i \in 0 .. n |-> IF i = 0 THEN before ELSE step(i, f[i - 1])]
  <2>1. \A i \in 1 .. n : i - 1 \in 0 .. n /\ f[i - 1] \in SUBSET (1 .. n)
    BY <1>0
  <2>2. \A i \in 1 .. n : f[i] = step(i, f[i - 1])
    BY <1>1, <1>4, <2>1
  <2>3. \A i \in 0 .. n : i = 0 \/ i \in 1 .. n
    BY <1>0
  <2> QED BY <1>4, <2>2, <2>3
<1>6. reserved = [i \in 0 .. n |-> IF i = 0 THEN before ELSE step(i, reserved[i - 1])]
  BY <1>3a, <1>5
<1>7. 0 \in 0 .. n /\ \A i \in 1 .. n : i \in 0 .. n /\ i # 0
  BY <1>0
<1>8. reserved[0] = before /\ \A i \in 1 .. n : reserved[i] = step(i, reserved[i - 1])
  BY <1>6, <1>7
<1> QED BY <1>3, <1>8 DEF n, step, ReservedUpTo

(* Whatever is asked for, what is reserved is there.                       *)
LEMMA ReserveFits ==
  ASSUME NEW queue \in Seq(Waiting), NEW S \in SUBSET DOMAIN queue,
         NEW before \in SUBSET DOMAIN queue, S \cap before = {},
         NEW now \in Int, GramOf(queue, before) <= now
  PROVE  LET R == Reserve(queue, S, before, now)
         IN R \subseteq before \cup S /\ GramOf(queue, R) <= now
<1> DEFINE n == Len(queue)
<1>0. n \in Nat /\ DOMAIN queue = 1 .. n /\ \A i \in 1 .. n : queue[i].gram \in Nat
  BY QueueRows
<1>1. PICK reserved :
        /\ Reserve(queue, S, before, now) = reserved[n] /\ reserved[0] = before
        /\ \A i \in 1 .. n :
             reserved[i] = IF Reserves(queue, S, now, i, reserved[i - 1])
                             THEN reserved[i - 1] \cup {i} ELSE reserved[i - 1]
  <2>1. PICK reserved : ReservedUpTo(reserved, queue, S, before, now)
    BY ReserveUpTo
  <2> QED BY <2>1 DEF ReservedUpTo
<1> DEFINE Fits(i) == /\ reserved[i] \subseteq before \cup (S \cap (1 .. i))
                      /\ GramOf(queue, reserved[i]) <= now
           C == {i \in 0 .. n : Fits(i)}
<1>2. 0 \in C
  BY <1>0, <1>1
<1>3. ASSUME NEW i \in 1 .. n, i - 1 \in C
      PROVE  i \in C
  <2>0. Fits(i - 1) /\ i \in 0 .. n
    BY <1>0, <1>3
  <2>1. CASE Reserves(queue, S, now, i, reserved[i - 1])
    <3>1. i \in S /\ queue[i].gram <= now - GramOf(queue, reserved[i - 1])
      BY <2>1 DEF Reserves, CanReserve
    <3>2. reserved[i] = reserved[i - 1] \cup {i}
      BY <1>1, <2>1
    <3>3. reserved[i - 1] \in SUBSET DOMAIN queue /\ i \in DOMAIN queue \ reserved[i - 1]
      BY <1>0, <2>0, <3>1
    <3>4. /\ GramOf(queue, reserved[i]) = GramOf(queue, reserved[i - 1]) + queue[i].gram
          /\ GramOf(queue, reserved[i - 1]) \in Nat /\ queue[i].gram \in Nat
      BY <1>0, <3>2, <3>3, GramSums
    <3>5. GramOf(queue, reserved[i]) <= now
      BY <3>1, <3>4
    <3>6. reserved[i] \subseteq before \cup (S \cap (1 .. i))
      BY <1>0, <2>0, <3>1, <3>2
    <3> QED BY <2>0, <3>5, <3>6
  <2>2. CASE ~Reserves(queue, S, now, i, reserved[i - 1])
    <3>1. reserved[i] = reserved[i - 1]
      BY <1>1, <2>2
    <3>2. reserved[i] \subseteq before \cup (S \cap (1 .. i))
      BY <1>0, <2>0, <3>1
    <3> QED BY <2>0, <3>1, <3>2
  <2> QED BY <2>1, <2>2
<1>4. Fits(n)
  <2> HIDE DEF C
  <2>1. \A i \in 0 .. n : i \in C
    BY <1>0, <1>2, <1>3, CountingUp
  <2> QED BY <1>0, <2>1 DEF C
<1> QED BY <1>1, <1>4

(* Whoever is chosen is chosen once, and no more than may be selected are. *)
LEMMA ChoiceFits ==
  ASSUME NEW queue \in Seq(Waiting), NEW spendable \in Nat
  PROVE  LET chosen == SelectByLiquidityFit(queue, spendable)
         IN /\ chosen.starved = TakeStarved(queue, spendable)
            /\ chosen.starved \in SUBSET DOMAIN queue /\ chosen.fitting \in SUBSET DOMAIN queue
            /\ chosen.starved \cap chosen.fitting = {}
            /\ Cardinality(chosen.starved \cup chosen.fitting) <= MaxSelected
<1> DEFINE starved == TakeStarved(queue, spendable)
           left    == Affordable(queue, spendable) \ starved
           rest    == {i \in left : Older(left, i) < SearchBound}
           remaining == spendable - GramOf(queue, starved)
           slots     == MaxSelected - Cardinality(starved)
           fitting == Search(queue, rest, remaining, slots)
           chosen  == SelectByLiquidityFit(queue, spendable)
<1>1. chosen.starved = starved /\ chosen.fitting = fitting
  BY DEF SelectByLiquidityFit
<1>2. starved \in SUBSET DOMAIN queue /\ rest \in SUBSET DOMAIN queue /\ rest \cap starved = {}
  BY StarvedFit DEF Affordable
<1>3. Cardinality(starved) <= MaxSelected /\ GramOf(queue, starved) <= spendable
  BY StarvedFit
<1>4. IsFiniteSet(starved) /\ IsFiniteSet(rest) /\ GramOf(queue, starved) \in Nat
  <2> HIDE DEF starved, rest
  <2> QED BY <1>2, GramSums
<1>5. Cardinality(starved) \in Nat /\ MaxSelected \in Nat
  <2> HIDE DEF starved
  <2> QED BY <1>4, FS_CardinalityType, LiquidityFitAssumption DEF LiquidityFitAssumption
<1>6. remaining \in Nat /\ slots \in Nat
  <2> HIDE DEF starved
  <2> QED BY <1>3, <1>4, <1>5
<1>7. fitting \subseteq rest /\ Cardinality(fitting) <= slots
  <2> HIDE DEF starved, rest, remaining, slots
  <2> QED BY <1>2, <1>6, SearchIsBest
<1> HIDE DEF starved, rest, fitting, chosen
<1>8. IsFiniteSet(fitting) /\ Cardinality(fitting) \in Nat
  BY <1>4, <1>7, FS_Subset, FS_CardinalityType
<1>9. starved \cap fitting = {}
  BY <1>2, <1>7
<1>10. Cardinality(starved \cup fitting) = Cardinality(starved) + Cardinality(fitting)
  <2>1. Cardinality(starved \cup fitting)
          = Cardinality(starved) + Cardinality(fitting) - Cardinality(starved \cap fitting)
    BY <1>4, <1>8, FS_Union
  <2>2. Cardinality(starved \cap fitting) = 0
    BY <1>9, FS_EmptySet
  <2> QED BY <1>5, <1>8, <2>1, <2>2
<1>11. Cardinality(starved \cup fitting) <= MaxSelected
  BY <1>5, <1>7, <1>8, <1>10
<1> QED BY <1>1, <1>2, <1>7, <1>9, <1>11 DEF starved, chosen

-----------------------------------------------------------------------------
(* Nobody younger overtakes a payout that has waited too long.             *)
LEMMA StarvedAreFirst == StarvedFirst
<1> SUFFICES ASSUME NEW queue \in Queues, NEW spendable \in Liquidity,
                    NEW i \in DOMAIN queue \ Selected(queue, spendable), IsOverdue(queue, i)
             PROVE  LET older == {j \in Selected(queue, spendable) : j < i /\ IsOverdue(queue, j)}
                    IN \/ queue[i].gram > spendable - GramOf(queue, older)
                       \/ Cardinality(older) >= MaxSelected
  BY DEF StarvedFirst
<1> DEFINE S == TakeStarved(queue, spendable)
           older == {j \in Selected(queue, spendable) : j < i /\ IsOverdue(queue, j)}
<1>1. queue \in Seq(Waiting) /\ spendable \in Nat /\ MaxSelected \in Nat
  BY LiquidityFitAssumption DEF LiquidityFitAssumption
<1>2. /\ S \subseteq Selected(queue, spendable) /\ Selected(queue, spendable) \subseteq DOMAIN queue
  BY <1>1, ChoiceFits DEF Selected
<1>3. /\ \A j \in S : IsOverdue(queue, j)
      /\ \A j \in DOMAIN queue \ S : \E T \in SUBSET {l \in S : l < j} :
           ~TakesStarved(queue, spendable, j, T)
  BY <1>1, StarvedFit DEF IsStarved, IsOverdue
<1>4. PICK T \in SUBSET {l \in S : l < i} : ~TakesStarved(queue, spendable, i, T)
  BY <1>2, <1>3
<1>5. T \subseteq older /\ older \in SUBSET DOMAIN queue /\ i \in DOMAIN queue \ T
  <2>1. T \subseteq S /\ \A j \in T : j < i
    OBVIOUS
  <2> HIDE DEF S
  <2> QED BY <1>2, <1>3, <2>1
<1>6. queue[i].gram \in Nat /\ queue[i].gram > 0
  BY <1>1, QueueRows
<1> HIDE DEF older, S
<1>7. /\ IsFiniteSet(older) /\ IsFiniteSet(T)
      /\ GramOf(queue, older) \in Nat /\ GramOf(queue, T) \in Nat
      /\ GramOf(queue, T) <= GramOf(queue, older)
      /\ GramOf(queue, T \cup {i}) = GramOf(queue, T) + queue[i].gram
  <2>1. T \in SUBSET DOMAIN queue
    BY <1>5
  <2> QED BY <1>1, <1>5, <2>1, GramSums
<1>8. Cardinality(T) \in Nat /\ Cardinality(older) \in Nat /\ Cardinality(T) <= Cardinality(older)
  BY <1>5, <1>7, FS_Subset, FS_CardinalityType
<1>9. \/ i \notin Affordable(queue, spendable)
      \/ Cardinality(T) >= MaxSelected
      \/ GramOf(queue, T \cup {i}) > spendable
  <2>1. IsStarved(queue, i)
    BY DEF IsStarved, IsOverdue
  <2>2. Cardinality(T) < MaxSelected \/ Cardinality(T) >= MaxSelected
    BY <1>1, <1>8
  <2>3. GramOf(queue, T \cup {i}) <= spendable \/ GramOf(queue, T \cup {i}) > spendable
    BY <1>1, <1>6, <1>7
  <2> QED BY <1>4, <2>1, <2>2, <2>3 DEF TakesStarved
<1>10. CASE i \notin Affordable(queue, spendable)
  <2>1. queue[i].gram > spendable
    BY <1>1, <1>5, <1>6, <1>10 DEF Affordable
  <2>2. queue[i].gram > spendable - GramOf(queue, older)
    BY <1>1, <1>6, <1>7, <2>1
  <2> QED BY <2>2 DEF older
<1>11. CASE Cardinality(T) >= MaxSelected
  <2>1. Cardinality(older) >= MaxSelected
    BY <1>1, <1>8, <1>11
  <2> QED BY <2>1 DEF older
<1>12. CASE GramOf(queue, T \cup {i}) > spendable
  <2>1. queue[i].gram > spendable - GramOf(queue, older)
    BY <1>1, <1>6, <1>7, <1>12
  <2> QED BY <2>1 DEF older
<1> QED BY <1>9, <1>10, <1>11, <1>12

(* The grams of one payout. *)
LEMMA GramOfOne ==
  ASSUME NEW queue \in Seq(Waiting), NEW i \in DOMAIN queue
  PROVE  GramOf(queue, {i}) = queue[i].gram /\ GramOf(queue, {}) = 0
<1>1. {} \in SUBSET DOMAIN queue /\ i \in DOMAIN queue \ {} /\ {} \cup {i} = {i}
  OBVIOUS
<1>2. GramOf(queue, {} \cup {i}) = GramOf(queue, {}) + queue[i].gram
  BY <1>1, GramSums
<1>3. GramOf(queue, {}) = SumFunctionOnSet(Grams(queue), {})
  BY <1>1, GramIsSum
<1>4. GramOf(queue, {}) = 0
  BY <1>3, SumOfNone
<1>5. queue[i].gram \in Nat
  BY QueueRows
<1> QED BY <1>1, <1>2, <1>4, <1>5

(* With nobody overdue, no choice at the head of the queue uses more.      *)
LEMMA LeastIsIdle == LeavesLeastIdle
<1> SUFFICES ASSUME NEW queue \in Queues, NEW spendable \in Liquidity,
                    \A i \in DOMAIN queue : ~IsOverdue(queue, i),
                    NEW S \in SUBSET {i \in DOMAIN queue : i <= SearchBound},
                    Cardinality(S) <= MaxSelected, GramOf(queue, S) <= spendable
             PROVE  GramOf(queue, S) <= GramOf(queue, Selected(queue, spendable))
  BY DEF LeavesLeastIdle
<1> DEFINE starved == TakeStarved(queue, spendable)
           left    == Affordable(queue, spendable) \ starved
           rest    == {i \in left : Older(left, i) < SearchBound}
<1>1. queue \in Seq(Waiting) /\ spendable \in Nat /\ MaxSelected \in Nat /\ SearchBound \in Nat
  BY LiquidityFitAssumption DEF LiquidityFitAssumption
<1>2. starved = {}
  BY <1>1, StarvedFit DEF IsStarved, IsOverdue, Affordable
<1>3. GramOf(queue, {}) = 0 /\ Cardinality({}) = 0
  <2>1. GramOf(queue, {}) = SumFunctionOnSet(Grams(queue), {})
    BY <1>1, GramIsSum
  <2> QED BY <2>1, SumOfNone, FS_EmptySet
<1>4. Selected(queue, spendable) = Search(queue, rest, spendable, MaxSelected)
  <2>1. /\ SelectByLiquidityFit(queue, spendable).starved = {}
        /\ SelectByLiquidityFit(queue, spendable).fitting
             = Search(queue, rest, spendable - GramOf(queue, starved), MaxSelected - Cardinality(starved))
    BY <1>2 DEF SelectByLiquidityFit
  <2>2. spendable - GramOf(queue, starved) = spendable /\ MaxSelected - Cardinality(starved) = MaxSelected
    BY <1>1, <1>2, <1>3
  <2> HIDE DEF rest, starved
  <2> QED BY <2>1, <2>2 DEF Selected
<1>5. ASSUME NEW i \in S
      PROVE  i \in rest
  <2>1. i \in DOMAIN queue /\ i <= SearchBound /\ S \in SUBSET DOMAIN queue /\ {i} \in SUBSET S
    OBVIOUS
  <2>2. queue[i].gram <= spendable /\ queue[i].gram > 0
    <3>1. GramOf(queue, {i}) <= GramOf(queue, S) /\ GramOf(queue, S) \in Nat
      BY <1>1, <2>1, GramSums
    <3>2. GramOf(queue, {i}) = queue[i].gram
      BY <1>1, <2>1, GramOfOne
    <3>3. queue[i].gram \in Nat /\ queue[i].gram > 0
      BY <1>1, <2>1, QueueRows
    <3> QED BY <1>1, <3>1, <3>2, <3>3
  <2>3. i \in left /\ left \subseteq 1 .. Len(queue) /\ i \in Nat /\ i >= 1
    BY <1>1, <1>2, <2>1, <2>2, QueueRows DEF Affordable
  <2>4. Older(left, i) < SearchBound
    <3> DEFINE before == {j \in left : j < i}
    <3>1. before \subseteq 1 .. (i - 1)
      BY <2>3
    <3>2. IsFiniteSet(1 .. (i - 1)) /\ Cardinality(1 .. (i - 1)) = i - 1
      <4>1. 1 \in Int /\ i - 1 \in Int /\ (1 > i - 1 => i - 1 = 0) /\ (i - 1) - 1 + 1 = i - 1
        BY <2>3
      <4> QED BY <4>1, FS_Interval
    <3>3. Older(left, i) = Cardinality(before)
      BY DEF Older
    <3> HIDE DEF before
    <3>4. Cardinality(before) <= i - 1 /\ Cardinality(before) \in Nat
      BY <3>1, <3>2, FS_Subset, FS_CardinalityType
    <3> QED BY <1>1, <2>1, <2>3, <3>3, <3>4
  <2> QED BY <2>3, <2>4
<1>6. rest \in SUBSET DOMAIN queue /\ S \in SUBSET rest
  BY <1>5 DEF Affordable
<1> HIDE DEF rest
<1>7. GramOf(queue, S) <= GramOf(queue, Search(queue, rest, spendable, MaxSelected))
  BY <1>1, <1>6, SearchIsBest
<1> QED BY <1>4, <1>7

(* What is reserved is there, and is no more than may be selected.         *)
LEMMA AllRespected == Respected = Liquidity
<1> SUFFICES ASSUME NEW now \in Liquidity, NEW queue \in Queues, NEW seen \in Liquidity
             PROVE  LET reserved == ReserveQueuedPayouts(queue, seen, now)
                    IN GramOf(queue, reserved) <= now /\ Cardinality(reserved) <= MaxSelected
  BY DEF Respected
<1> DEFINE chosen == SelectByLiquidityFit(queue, seen)
           first == Reserve(queue, chosen.starved, {}, now)
           both == Reserve(queue, chosen.fitting, first, now)
<1>1. queue \in Seq(Waiting) /\ seen \in Nat /\ now \in Nat /\ now \in Int /\ MaxSelected \in Nat
  BY LiquidityFitAssumption DEF LiquidityFitAssumption
<1>2. GramOf(queue, {}) = 0 /\ Cardinality({}) = 0
  <2>1. GramOf(queue, {}) = SumFunctionOnSet(Grams(queue), {})
    BY <1>1, GramIsSum
  <2> QED BY <2>1, SumOfNone, FS_EmptySet
<1>3. /\ chosen.starved \in SUBSET DOMAIN queue /\ chosen.fitting \in SUBSET DOMAIN queue
      /\ chosen.starved \cap chosen.fitting = {}
      /\ Cardinality(chosen.starved \cup chosen.fitting) <= MaxSelected
  BY <1>1, ChoiceFits
<1> HIDE DEF chosen
<1>4. first \subseteq chosen.starved /\ GramOf(queue, first) <= now
  <2>1. {} \in SUBSET DOMAIN queue /\ chosen.starved \cap {} = {} /\ GramOf(queue, {}) <= now
    BY <1>1, <1>2
  <2> QED BY <1>1, <1>3, <2>1, ReserveFits
<1> HIDE DEF first
<1>5. both \subseteq first \cup chosen.fitting /\ GramOf(queue, both) <= now
  <2>1. first \in SUBSET DOMAIN queue /\ chosen.fitting \cap first = {}
    BY <1>3, <1>4
  <2> QED BY <1>1, <1>3, <1>4, <2>1, ReserveFits
<1> HIDE DEF both
<1>6. Cardinality(both) <= MaxSelected
  <2>1. both \subseteq chosen.starved \cup chosen.fitting
    BY <1>4, <1>5
  <2>2. IsFiniteSet(chosen.starved \cup chosen.fitting)
    <3>1. chosen.starved \cup chosen.fitting \in SUBSET DOMAIN queue
      BY <1>3
    <3> QED BY <1>1, <3>1, GramSums
  <2>3. Cardinality(both) <= Cardinality(chosen.starved \cup chosen.fitting)
        /\ Cardinality(both) \in Nat /\ Cardinality(chosen.starved \cup chosen.fitting) \in Nat
    BY <2>1, <2>2, FS_Subset, FS_CardinalityType
  <2> QED BY <1>1, <1>3, <2>3
<1>7. ReserveQueuedPayouts(queue, seen, now) = IF seen <= 0 THEN {} ELSE both
  BY DEF ReserveQueuedPayouts, chosen, first, both
<1>8. CASE seen <= 0
  BY <1>1, <1>2, <1>7, <1>8
<1>9. CASE ~(seen <= 0)
  BY <1>5, <1>6, <1>7, <1>9
<1> QED BY <1>8, <1>9

(* Reservations are never negative, so no more is spendable than there is. *)
LEMMA ReservedIsNat ==
  ASSUME Inv
  PROVE  ActivelyReserved \in Nat
<1>0. PICK S : S = {p \in Payout : IsActive(p)}
  OBVIOUS
<1>1. ActivelyReserved = (CHOOSE g : LockedAdds(S, g))[S]
  BY <1>0 DEF ActivelyReserved, MapThenSumSet, MapThenFoldSet, Pick, LockedAdds
<1>2. ASSUME NEW g PROVE LockedAdds(S, g) <=> Adds(locked, S, g)
  <2>1. \A s \in SUBSET S : s # {} => reserv[Pick(s)].amt = locked[Pick(s)]
    BY <1>0, PickIsIn DEF locked
  <2> QED BY <2>1 DEF Adds, LockedAdds
<1>3. (CHOOSE g : LockedAdds(S, g)) = CHOOSE g : Adds(locked, S, g)
  BY <1>2
<1>4. \A p \in S : locked[p] \in Nat
  BY <1>0 DEF locked, Inv, TypeOK, Reservation
<1>5. IsFiniteSet(S)
  BY <1>0, FS_Subset, FiniteAssumption DEF FiniteAssumption
<1> QED BY <1>1, <1>3, <1>4, <1>5, SumIsChosen, SumIsNat

(* What is spendable is an amount the treasury can hold.                   *)
LEMMA SpendableIsHeld ==
  ASSUME Inv, Accounted, Spendable >= 0
  PROVE  Spendable \in Liquidity
<1> DEFINE all == [amt \in Fundings |-> amt]
           some == [amt \in funded |-> amt]
<1>1. funded \in SUBSET Fundings /\ Fundings \subseteq Nat /\ IsFiniteSet(Fundings)
  BY AmountAssumption, LiquidityAssumption DEF AmountAssumption, LiquidityAssumption, Inv, TypeOK
<1>2. (\A amt \in Fundings : all[amt] \in Nat) /\ \A amt \in funded : some[amt] = all[amt]
  BY <1>1
<1>3. Funded(Fundings) = SumFunctionOnSet(all, Fundings) /\ Funded(funded) = SumFunctionOnSet(some, funded)
  BY DEF Funded
<1> HIDE DEF all, some
<1>4. Funded(funded) <= Funded(Fundings) /\ Funded(Fundings) \in Nat /\ Funded(funded) \in Nat
  <2>1. SumFunctionOnSet(some, funded) = SumFunctionOnSet(all, funded)
    BY <1>2, SumSame DEF Accounted
  <2>2. SumFunctionOnSet(all, funded) <= SumFunctionOnSet(all, Fundings)
    BY <1>1, <1>2, SumOfPart
  <2>3. \A amt \in funded : all[amt] \in Nat
    BY <1>1, <1>2
  <2>4. SumFunctionOnSet(all, funded) \in Nat /\ SumFunctionOnSet(all, Fundings) \in Nat
    BY <1>1, <1>2, <2>3, SumIsNat DEF Accounted
  <2> QED BY <1>3, <2>1, <2>2, <2>4
<1>5. confirmed <= InitialTreasury + Funded(Fundings)
  <2>1. confirmed + SumFunctionOnSet(Spent, Payout) = InitialTreasury + Funded(funded)
    BY DEF Accounted, GramConserved
  <2>2. SumFunctionOnSet(Spent, Payout) \in Nat /\ confirmed \in Nat /\ InitialTreasury \in Nat
    BY SpentIsNat, AmountAssumption DEF AmountAssumption, Inv, TypeOK
  <2> QED BY <1>4, <2>1, <2>2
<1>6. Spendable \in Int /\ Spendable <= confirmed
  BY ReservedIsNat, AmountAssumption DEF AmountAssumption, Spendable, Inv, TypeOK
<1>7. Spendable \in 0 .. InitialTreasury + Funded(Fundings)
  <2>1. confirmed \in Nat /\ InitialTreasury \in Nat
    BY AmountAssumption DEF AmountAssumption, Inv, TypeOK
  <2> QED BY <1>4, <1>5, <1>6, <2>1
<1> QED BY <1>7, LiquidityAssumption DEF LiquidityAssumption

(* For any queues, treasury and bounds of the search: what                 *)
(* reserveQueuedPayouts reserves is there when it is reserved, whatever    *)
(* was there when the queue was read; a payout that has waited too long is *)
(* left out only for older ones like it; and as long as there is none no   *)
(* choice at the head of the queue uses more (selectByLiquidityFit).       *)
THEOREM SelectionIsBestHolds == Spec => []SelectionIsBest
<1>1. Init => Inv /\ Accounted
  BY InvInit, AccountedInit
<1>2. Inv /\ Accounted /\ [Next]_vars => Inv' /\ Accounted'
  BY InvNext, AccountedNext
<1>3. Inv /\ Accounted => SelectionIsBest
  BY SpendableIsHeld, AllRespected, StarvedAreFirst, LeastIsIdle DEF SelectionIsBest
<1> QED BY <1>1, <1>2, <1>3, PTL DEF Spec
=============================================================================
