-------------------------- MODULE TransfersProofs --------------------------
(***************************************************************************)
(* Theorems about Transfers, for any payouts, workers and amounts, and     *)
(* whatever leases, clocks, the network and the owner do.                  *)
(***************************************************************************)
EXTENDS Transfers, Sums, TLAPS

USE DEF pipelineVars, seqnoVars, chainVars

(***************************************************************************)
(* The inductive invariant.  A payout is signed with one intent because    *)
(* nothing that was signed is ever written anew: the amount of a request   *)
(* stays from its first claim on and a number stays with its payout        *)
(* (Onward), and whoever asks KMS has compared his intent with the request *)
(* (Sits), even when his lease ran out long ago.                           *)
(***************************************************************************)
Stages   == {"idle", "claim", "kms", "complete", "record", "send", "accepted", "ambiguous",
             "rejected"}
Amt      == Locks \cup {0, Min(Locks)}
Errand   == [at : Stages, p : Payout \cup {Idle}, amt : Amt]
Number   == [seq : Int, st : AllocStatus]
Signing  == [st : {"NONE", "CLAIMED", "COMPLETED", "FAILED_RETRYABLE"}, amt : Amt,
             token : Worker \cup {Idle}, lease : BOOLEAN]

Shapes ==
  /\ status \in [Payout -> Committed \cup {"SETTLED", "FAILED"}]
  /\ amount \in [Payout -> Amt]
  /\ DOMAIN wallet = {"row", "current", "next", "confirmed"}
  /\ wallet.row \in BOOLEAN /\ wallet.next \in Int /\ onChain \in Int
  /\ alloc \in [Payout -> Number]
  /\ request \in [Payout -> Signing]
  /\ issued \subseteq [p : Payout, seq : Int, amt : Amt]
  /\ task \in [Worker -> Errand]

HasNumber(p) == alloc[p].st # "NONE"
IsAsked(p)   == request[p].st # "NONE"

(* What the task of a worker relies on. *)
Sits(t) ==
  /\ t.at # "idle" => t.p \in Payout
  /\ t.at \notin {"idle", "claim"} => HasNumber(t.p)
  /\ t.at \in {"kms", "complete"} => IsAsked(t.p) /\ request[t.p].amt = t.amt

(* A payout that is asked for or further has a number below the next one,  *)
(* and no other payout has it.                                             *)
Numbered ==
  /\ \A p \in Payout : IsAsked(p) \/ status[p] # "RESERVED" => HasNumber(p)
  /\ \A p \in Payout : HasNumber(p) => wallet.row /\ alloc[p].seq < wallet.next
  /\ \A p, q \in Payout : HasNumber(p) /\ HasNumber(q) /\ alloc[p].seq = alloc[q].seq => p = q

(* A signature covers what the request and the allocation still say. *)
Vouched ==
  \A a \in issued :
    /\ IsAsked(a.p) /\ a.amt = request[a.p].amt
    /\ HasNumber(a.p) /\ a.seq = alloc[a.p].seq

Inv == Shapes /\ (\A w \in Worker : Sits(task[w])) /\ Numbered /\ Vouched

(* What no step takes back. *)
Onward ==
  \A p \in Payout :
    /\ IsAsked(p) => IsAsked(p)' /\ request'[p].amt = request[p].amt
    /\ HasNumber(p) => HasNumber(p)' /\ alloc'[p].seq = alloc[p].seq

-----------------------------------------------------------------------------
LEMMA InitInv == Init => Inv
<1> SUFFICES ASSUME Init PROVE Inv
  OBVIOUS
<1>1. Shapes
  <2>1. amount \in [Payout -> Amt]
    BY DEF Init, Amt
  <2>2. alloc \in [Payout -> Number]
    BY DEF Init, Number, AllocStatus
  <2>3. request \in [Payout -> Signing]
    BY DEF Init, Signing, NoRequest, Amt
  <2>4. task \in [Worker -> Errand]
    BY DEF Init, Errand, Free, Stages, Amt
  <2> QED BY <2>1, <2>2, <2>3, <2>4, TransferAssumption
      DEF TransferAssumption, Init, Shapes, Committed, NoRow
<1>2. \A w \in Worker : Sits(task[w])
  BY DEF Init, Sits, Free
<1>3. Numbered /\ Vouched
  BY DEF Init, Numbered, Vouched, HasNumber, IsAsked, NoRequest
<1> QED BY <1>1, <1>2, <1>3 DEF Inv

LEMMA FreeSits == Free \in Errand /\ Sits(Free) /\ Sits(Free)'
BY DEF Free, Errand, Stages, Amt, Sits

(* A worker that waits relies on nothing that can be taken back. *)
LEMMA SitsKept ==
  ASSUME Onward, NEW t, Sits(t)
  PROVE  Sits(t)'
BY DEF Onward, Sits

LEMMA VouchedKept ==
  ASSUME Shapes, Vouched, Onward, UNCHANGED issued
  PROVE  Vouched'
<1> SUFFICES ASSUME NEW a \in issued
             PROVE  /\ IsAsked(a.p)' /\ a.amt = request'[a.p].amt
                    /\ HasNumber(a.p)' /\ a.seq = alloc'[a.p].seq
  BY DEF Vouched
<1>1. a.p \in Payout
  BY DEF Shapes
<1> QED BY <1>1 DEF Vouched, Onward

(* The shape of a step of one worker: he goes on with t, the others wait.  *)
LEMMA WorkerSits ==
  ASSUME Inv, Onward, NEW w \in Worker, NEW t \in Errand, Sits(t)',
         task' = [task EXCEPT ![w] = t]
  PROVE  /\ task' \in [Worker -> Errand]
         /\ \A v \in Worker : Sits(task[v])'
<1>1. task' \in [Worker -> Errand]
  BY DEF Inv, Shapes
<1>2. ASSUME NEW v \in Worker PROVE Sits(task[v])'
  <2>1. CASE v = w
    BY <2>1 DEF Inv, Shapes
  <2>2. CASE v # w
    <3>1. task'[v] = task[v] /\ Sits(task[v])
      BY <2>2 DEF Inv, Shapes
    <3> QED BY <3>1, SitsKept
  <2> QED BY <2>1, <2>2
<1> QED BY <1>1, <1>2

(* A step of a worker that moves neither numbers nor requests nor payouts. *)
LEMMA TaskInv ==
  ASSUME Inv, NEW w \in Worker, NEW t \in Errand, Sits(t),
         task' = [task EXCEPT ![w] = t],
         UNCHANGED <<pipelineVars, seqnoVars, request, issued, onChain>>
  PROVE  Inv'
<1>1. Onward
  BY DEF Onward, IsAsked, HasNumber
<1>2. Sits(t)'
  BY <1>1, SitsKept
<1>3. task' \in [Worker -> Errand] /\ \A v \in Worker : Sits(task[v])'
  BY <1>1, <1>2, WorkerSits
<1>4. Shapes'
  BY <1>3 DEF Inv, Shapes
<1>5. Numbered' /\ Vouched'
  BY DEF Inv, Numbered, Vouched, IsAsked, HasNumber
<1> QED BY <1>3, <1>4, <1>5 DEF Inv
(* Goto changes where a worker is and nothing else. *)
LEMMA Going ==
  ASSUME Shapes, NEW w \in Worker, NEW at \in Stages, Goto(w, at)
  PROVE  \E t \in Errand :
           /\ task' = [task EXCEPT ![w] = t]
           /\ t.at = at /\ t.p = task[w].p /\ t.amt = task[w].amt
<1> DEFINE t == [task[w] EXCEPT !.at = at]
<1>1. task[w] \in Errand
  BY DEF Shapes
<1>2. t \in Errand /\ t.at = at /\ t.p = task[w].p /\ t.amt = task[w].amt
  BY <1>1 DEF Errand
<1>3. task' = [task EXCEPT ![w] = t]
  BY DEF Goto, Shapes
<1> QED BY <1>2, <1>3

-----------------------------------------------------------------------------
(* Steps that touch neither numbers, requests nor payouts. *)
LEMMA DoneInv ==
  ASSUME Inv, NEW w \in Worker, Done(w),
         UNCHANGED <<pipelineVars, seqnoVars, request, issued, onChain>>
  PROVE  Inv'
BY TaskInv, FreeSits DEF Done

LEMMA GoInv ==
  ASSUME Inv, NEW w \in Worker, NEW at \in Stages, Goto(w, at),
         \/ task[w].at = "send" /\ at \in {"accepted", "ambiguous", "rejected"}
         \/ task[w].at = "claim" /\ at = "record" /\ IsAsked(task[w].p),
         UNCHANGED <<pipelineVars, seqnoVars, request, issued, onChain>>
  PROVE  Inv'
<1>1. PICK t \in Errand : /\ task' = [task EXCEPT ![w] = t]
                          /\ t.at = at /\ t.p = task[w].p /\ t.amt = task[w].amt
  BY Going DEF Inv
<1>2. Sits(t)
  BY <1>1 DEF Inv, Sits, Numbered
<1> QED BY <1>1, <1>2, TaskInv

LEMMA PrepareInv ==
  ASSUME Inv, NEW w \in Worker, NEW p \in Payout, SignPrepare(w, p) \/ BroadcastGate(w, p)
  PROVE  Inv'
<1>1. CASE SignPrepare(w, p)
  <2>1. PICK t : t = [at |-> "claim", p |-> p, amt |-> amount[p]]
    OBVIOUS
  <2>2. t \in Errand /\ Sits(t)
    BY <2>1 DEF Inv, Shapes, Errand, Stages, Sits
  <2> QED BY <1>1, <2>1, <2>2, TaskInv DEF SignPrepare
<1>2. CASE BroadcastGate(w, p)
  <2>1. PICK t : t = [at |-> "send", p |-> p, amt |-> 0]
    OBVIOUS
  <2>2. t \in Errand
    BY <2>1 DEF Errand, Stages, Amt
  <2>3. Sits(t)
    BY <1>2, <2>1 DEF BroadcastGate, CanBroadcast, Sits, HasNumber
  <2> QED BY <1>2, <2>1, <2>2, <2>3, TaskInv DEF BroadcastGate
<1> QED BY <1>1, <1>2

LEMMA WaitingInv ==
  ASSUME Inv, NEW w \in Worker,
         \/ ClaimReplayed(w) \/ ClaimRefused(w) \/ SendFound(w) \/ Crash(w)
         \/ \E outcome \in {"accepted", "ambiguous"} : SendPost(w, outcome)
         \/ \E outcome \in {"ambiguous", "rejected"} : SendFails(w, outcome)
  PROVE  Inv'
<1>1. CASE ClaimReplayed(w)
  BY <1>1, GoInv DEF ClaimReplayed, IsAsked, Stages
<1>2. CASE ClaimRefused(w) \/ Crash(w)
  BY <1>2, DoneInv DEF ClaimRefused, Crash
<1>3. CASE SendFound(w)
  BY <1>3, GoInv DEF SendFound, Stages
<1>4. CASE \E outcome \in {"accepted", "ambiguous"} : SendPost(w, outcome)
  <2>1. PICK outcome \in {"accepted", "ambiguous"} : SendPost(w, outcome)
    BY <1>4
  <2> QED BY <2>1, GoInv DEF SendPost, Stages
<1>5. CASE \E outcome \in {"ambiguous", "rejected"} : SendFails(w, outcome)
  <2>1. PICK outcome \in {"ambiguous", "rejected"} : SendFails(w, outcome)
    BY <1>5
  <2> QED BY <2>1, GoInv DEF SendFails, Stages
<1> QED BY <1>1, <1>2, <1>3, <1>4, <1>5

-----------------------------------------------------------------------------
(* Allocation: the number is new, and stays. *)
LEMMA AllocateKeeps ==
  ASSUME Inv, NEW p \in Payout, Allocate(p)
  PROVE  /\ HasNumber(p)'
         /\ \A q \in Payout : HasNumber(q) => HasNumber(q)' /\ alloc'[q].seq = alloc[q].seq
         /\ alloc' \in [Payout -> Number]
         /\ DOMAIN wallet' = {"row", "current", "next", "confirmed"}
         /\ wallet'.row \in BOOLEAN /\ wallet'.next \in Int
         /\ \A q \in Payout : HasNumber(q)' => wallet'.row /\ alloc'[q].seq < wallet'.next
         /\ \A q, r \in Payout :
              HasNumber(q)' /\ HasNumber(r)' /\ alloc'[q].seq = alloc'[r].seq => q = r
<1>1. CASE HasNumber(p)
  BY <1>1 DEF Allocate, HasNumber, Inv, Shapes, Numbered
<1>2. CASE ~HasNumber(p)
  <2>1. /\ DOMAIN Opened = {"row", "current", "next", "confirmed"}
        /\ Opened.row = TRUE /\ Opened.next \in Int
    BY TransferAssumption DEF Opened, Inv, Shapes, TransferAssumption
  <2>2. \A q \in Payout : HasNumber(q) => alloc[q].seq < Opened.next
    BY DEF Opened, Inv, Numbered
  <2>3. /\ alloc' = [alloc EXCEPT ![p] = [seq |-> Opened.next, st |-> "RESERVED"]]
        /\ wallet' = [Opened EXCEPT !.next = Opened.next + 1]
    BY <1>2 DEF Allocate, HasNumber, NextFree
  <2>4. /\ DOMAIN wallet' = {"row", "current", "next", "confirmed"}
        /\ wallet'.row = TRUE /\ wallet'.next = Opened.next + 1
    BY <2>1, <2>3
  <2>5. /\ alloc'[p].seq = Opened.next /\ alloc'[p].st = "RESERVED"
        /\ \A q \in Payout : q # p => alloc'[q] = alloc[q]
    BY <2>3 DEF Inv, Shapes
  <2>6. alloc' \in [Payout -> Number]
    BY <2>1, <2>3 DEF Inv, Shapes, Number, AllocStatus
  <2>7. \A q \in Payout : alloc[q].seq \in Int
    BY DEF Inv, Shapes, Number
  <2>8. \A q \in Payout : HasNumber(q)' => alloc'[q].seq < wallet'.next
    BY <2>1, <2>2, <2>4, <2>5, <2>7 DEF HasNumber
  <2>9. \A q, r \in Payout :
          HasNumber(q)' /\ HasNumber(r)' /\ alloc'[q].seq = alloc'[r].seq => q = r
    BY <2>1, <2>2, <2>5, <2>7 DEF HasNumber, Inv, Numbered
  <2>10. /\ HasNumber(p)'
         /\ \A q \in Payout : HasNumber(q) => HasNumber(q)' /\ alloc'[q].seq = alloc[q].seq
    BY <1>2, <2>5 DEF HasNumber
  <2>11. wallet'.row \in BOOLEAN
    BY <2>4
  <2>12. wallet'.next \in Int
    BY <2>1, <2>4
  <2> QED BY <2>4, <2>6, <2>8, <2>9, <2>10, <2>11, <2>12
<1> QED BY <1>1, <1>2

(* A claim: the request carries the intent of the worker who took it.      *)
LEMMA ClaimInv ==
  ASSUME Inv, NEW w \in Worker, ClaimFresh(w) \/ ClaimAgain(w)
  PROVE  Inv'
<1>0. PICK p : p = task[w].p
  OBVIOUS
<1>1. /\ p \in Payout /\ task[w].amt \in Amt
      /\ request' = [request EXCEPT ![p] = Claimed(w, task[w].amt)]
      /\ Goto(w, "kms") /\ UNCHANGED <<pipelineVars, issued, onChain>>
      /\ IsAsked(p) => request[p].amt = task[w].amt
  BY <1>0 DEF ClaimFresh, ClaimAgain, SameIntent, IsAsked, Inv, Sits, Shapes, Errand
<1>2. /\ HasNumber(p)'
      /\ \A q \in Payout : HasNumber(q) => HasNumber(q)' /\ alloc'[q].seq = alloc[q].seq
      /\ alloc' \in [Payout -> Number]
      /\ DOMAIN wallet' = {"row", "current", "next", "confirmed"}
      /\ wallet'.row \in BOOLEAN /\ wallet'.next \in Int
      /\ \A q \in Payout : HasNumber(q)' => wallet'.row /\ alloc'[q].seq < wallet'.next
      /\ \A q, r \in Payout :
           HasNumber(q)' /\ HasNumber(r)' /\ alloc'[q].seq = alloc'[r].seq => q = r
  <2>1. CASE ClaimFresh(w)
    BY <1>0, <1>1, <2>1, AllocateKeeps DEF ClaimFresh
  <2>2. CASE ClaimAgain(w)
    BY <1>0, <1>1, <2>2 DEF ClaimAgain, Inv, Shapes, Numbered, IsAsked, HasNumber
  <2> QED BY <2>1, <2>2
<1>3. PICK t \in Errand : /\ task' = [task EXCEPT ![w] = t]
                          /\ t.at = "kms" /\ t.p = p /\ t.amt = task[w].amt
  BY <1>0, <1>1, Going DEF Inv, Stages
<1>4. /\ request' \in [Payout -> Signing]
      /\ IsAsked(p)' /\ request'[p].amt = task[w].amt
      /\ \A q \in Payout : q # p => request'[q] = request[q]
  BY <1>1 DEF Inv, Shapes, Signing, Claimed, IsAsked
<1>5. Onward
  BY <1>1, <1>2, <1>4 DEF Onward, IsAsked
<1>6. Sits(t)'
  BY <1>1, <1>2, <1>3, <1>4 DEF Sits
<1>7. task' \in [Worker -> Errand] /\ \A v \in Worker : Sits(task[v])'
  BY <1>3, <1>5, <1>6, WorkerSits
<1>8. Shapes'
  BY <1>1, <1>2, <1>4, <1>7 DEF Inv, Shapes
<1>9. Numbered'
  BY <1>1, <1>2, <1>4 DEF Inv, Numbered, IsAsked
<1>10. Vouched'
  BY <1>1, <1>5, VouchedKept DEF Inv
<1> QED BY <1>7, <1>8, <1>9, <1>10 DEF Inv

(* What a worker stores keeps the amount of the request. *)
LEMMA StoreInv ==
  ASSUME Inv, NEW w \in Worker, KmsFails(w) \/ Complete(w)
  PROVE  Inv'
<1> DEFINE p == task[w].p
<1>1. p \in Payout /\ HasNumber(p) /\ UNCHANGED <<pipelineVars, seqnoVars, issued, onChain>>
  BY DEF KmsFails, Complete, Inv, Sits
<1>2. PICK st \in {"COMPLETED", "FAILED_RETRYABLE"} :
        request' = IF Fenced(w, request[p])
                   THEN [request EXCEPT ![p] = [st |-> st, amt |-> @.amt, token |-> Idle, lease |-> FALSE]]
                   ELSE request
  BY DEF KmsFails, Complete, Store
<1>3. PICK t \in Errand : /\ task' = [task EXCEPT ![w] = t]
                          /\ t = Free \/ (t.at = "record" /\ t.p = p)
  <2>1. CASE KmsFails(w)
    BY <2>1, FreeSits DEF KmsFails, Done
  <2>2. CASE Complete(w)
    BY <2>2, Going DEF Complete, Inv, Stages
  <2> QED BY <2>1, <2>2
<1> HIDE DEF p
<1>4. /\ request' \in [Payout -> Signing]
      /\ \A q \in Payout : request'[q].amt = request[q].amt /\ (IsAsked(q) <=> IsAsked(q)')
  BY <1>1, <1>2 DEF Inv, Shapes, Signing, IsAsked, Fenced
<1>5. Onward
  BY <1>1, <1>4 DEF Onward, HasNumber
<1>6. Sits(t)'
  BY <1>1, <1>3 DEF Sits, Free, HasNumber
<1>7. task' \in [Worker -> Errand] /\ \A v \in Worker : Sits(task[v])'
  BY <1>3, <1>5, <1>6, WorkerSits
<1>8. Shapes'
  BY <1>1, <1>4, <1>7 DEF Inv, Shapes
<1>9. Numbered'
  BY <1>1, <1>4 DEF Inv, Numbered, HasNumber
<1>10. Vouched'
  BY <1>1, <1>5, VouchedKept DEF Inv
<1> QED BY <1>7, <1>8, <1>9, <1>10 DEF Inv

(* A signature covers the worker's intent, which is that of the request.   *)
LEMMA KmsInv ==
  ASSUME Inv, NEW w \in Worker, KmsSigns(w)
  PROVE  Inv'
<1> DEFINE p == task[w].p
<1>1. /\ p \in Payout /\ HasNumber(p) /\ IsAsked(p) /\ request[p].amt = task[w].amt
      /\ task[w].amt \in Amt /\ alloc[p].seq \in Int
      /\ issued' = issued \cup {[p |-> p, seq |-> alloc[p].seq, amt |-> task[w].amt]}
      /\ Goto(w, "complete") /\ UNCHANGED <<pipelineVars, seqnoVars, request, onChain>>
  BY DEF KmsSigns, Signature, Inv, Sits, Shapes, Errand, Number
<1>2. PICK t \in Errand : /\ task' = [task EXCEPT ![w] = t]
                          /\ t.at = "complete" /\ t.p = p /\ t.amt = task[w].amt
  BY <1>1, Going DEF Inv, Stages
<1> HIDE DEF p
<1>3. Onward
  BY <1>1 DEF Onward, IsAsked, HasNumber
<1>4. Sits(t)'
  BY <1>1, <1>2 DEF Sits, IsAsked, HasNumber
<1>5. task' \in [Worker -> Errand] /\ \A v \in Worker : Sits(task[v])'
  BY <1>2, <1>3, <1>4, WorkerSits
<1>6. Shapes'
  BY <1>1, <1>5 DEF Inv, Shapes
<1>7. Numbered'
  BY <1>1 DEF Inv, Numbered, IsAsked, HasNumber
<1>8. Vouched'
  BY <1>1 DEF Inv, Vouched, IsAsked, HasNumber
<1> QED BY <1>5, <1>6, <1>7, <1>8 DEF Inv

-----------------------------------------------------------------------------
(* A payout that has its number moves on, and its number with it. *)
LEMMA PayoutInv ==
  ASSUME Inv, NEW p \in Payout, HasNumber(p),
         status' \in [Payout -> Committed \cup {"SETTLED", "FAILED"}],
         \A q \in Payout : q # p => status'[q] = status[q],
         UNCHANGED <<amount, request, issued, onChain>>,
         alloc' \in [Payout -> Number],
         \A q \in Payout : alloc'[q].seq = alloc[q].seq /\ (HasNumber(q)' <=> HasNumber(q)),
         wallet' = wallet \/ wallet' = ConfirmedUpTo(alloc[p].seq),
         task' \in [Worker -> Errand],
         \A w \in Worker : task'[w] = task[w] \/ task'[w] = Free
  PROVE  Inv'
<1>1. Onward
  BY DEF Onward, IsAsked
<1>2. /\ DOMAIN wallet' = {"row", "current", "next", "confirmed"}
      /\ wallet'.row = wallet.row /\ wallet'.next = wallet.next
  BY DEF ConfirmedUpTo, Inv, Shapes
<1>3. Shapes'
  BY <1>2 DEF Inv, Shapes
<1>4. \A w \in Worker : Sits(task[w])'
  BY <1>1, SitsKept, FreeSits DEF Inv
<1>5. Numbered'
  BY <1>2 DEF Inv, Numbered, IsAsked
<1>6. Vouched'
  BY <1>1, VouchedKept DEF Inv
<1> QED BY <1>3, <1>4, <1>5, <1>6 DEF Inv

LEMMA Marking ==
  ASSUME Shapes, NEW p \in Payout, HasNumber(p), NEW st \in AllocStatus \ {"NONE"}, Mark(p, st)
  PROVE  /\ alloc' \in [Payout -> Number]
         /\ \A q \in Payout : alloc'[q].seq = alloc[q].seq /\ (HasNumber(q)' <=> HasNumber(q))
BY DEF Mark, Shapes, Number, HasNumber

LEMMA Freeing ==
  ASSUME Shapes, NEW w \in Worker, Done(w)
  PROVE  /\ task' \in [Worker -> Errand]
         /\ \A v \in Worker : task'[v] = task[v] \/ task'[v] = Free
BY FreeSits DEF Done, Shapes

LEMMA RecordInv ==
  ASSUME Inv, NEW w \in Worker,
         SignRecord(w) \/ BroadcastRecord(w) \/ MarkUnknown(w) \/ FailRejected(w)
  PROVE  Inv'
<1> DEFINE p == task[w].p
<1>1. p \in Payout /\ HasNumber(p) /\ Done(w) /\ UNCHANGED <<amount, wallet, request, issued, onChain>>
  BY DEF SignRecord, BroadcastRecord, MarkUnknown, FailRejected, Moves, MarkBroadcasted, FailNumber,
         Inv, Sits
<1>2. PICK st \in {"SIGNED", "BROADCASTED", "UNKNOWN", "FAILED"} :
        status' = status \/ status' = [status EXCEPT ![p] = st]
  BY DEF SignRecord, BroadcastRecord, MarkUnknown, FailRejected, Moves
<1>3. UNCHANGED alloc \/ Mark(p, "BROADCASTED") \/ Mark(p, "FAILED")
  BY DEF SignRecord, BroadcastRecord, MarkUnknown, FailRejected, MarkBroadcasted, FailNumber
<1> HIDE DEF p
<1>4. /\ status' \in [Payout -> Committed \cup {"SETTLED", "FAILED"}]
      /\ \A q \in Payout : q # p => status'[q] = status[q]
  BY <1>1, <1>2 DEF Inv, Shapes, Committed
<1>5. /\ alloc' \in [Payout -> Number]
      /\ \A q \in Payout : alloc'[q].seq = alloc[q].seq /\ (HasNumber(q)' <=> HasNumber(q))
  <2>1. CASE UNCHANGED alloc
    BY <2>1 DEF Inv, Shapes, HasNumber
  <2>2. CASE Mark(p, "BROADCASTED") \/ Mark(p, "FAILED")
    BY <1>1, <2>2, Marking DEF Inv, AllocStatus
  <2> QED BY <1>3, <2>1, <2>2
<1>6. /\ task' \in [Worker -> Errand]
      /\ \A v \in Worker : task'[v] = task[v] \/ task'[v] = Free
  BY <1>1, Freeing DEF Inv
<1> QED BY <1>1, <1>4, <1>5, <1>6, PayoutInv

LEMMA SettleInv ==
  ASSUME Inv, NEW p \in Payout, Settle(p) \/ FailUnseen(p)
  PROVE  Inv'
<1>1. HasNumber(p) /\ UNCHANGED <<amount, request, issued, onChain, task>>
  BY DEF Settle, FailUnseen, Inv, Numbered
<1>2. /\ status' \in [Payout -> Committed \cup {"SETTLED", "FAILED"}]
      /\ \A q \in Payout : q # p => status'[q] = status[q]
  BY DEF Settle, FailUnseen, Inv, Shapes
<1>3. (Mark(p, "CONFIRMED") \/ Mark(p, "FAILED"))
        /\ (wallet' = wallet \/ wallet' = ConfirmedUpTo(alloc[p].seq))
  BY DEF Settle, FailUnseen, Confirm, FailNumber
<1>4. /\ alloc' \in [Payout -> Number]
      /\ \A q \in Payout : alloc'[q].seq = alloc[q].seq /\ (HasNumber(q)' <=> HasNumber(q))
  BY <1>1, <1>3, Marking DEF Inv, AllocStatus
<1>5. task' \in [Worker -> Errand]
  BY <1>1 DEF Inv, Shapes
<1> QED BY <1>1, <1>2, <1>3, <1>4, <1>5, PayoutInv

-----------------------------------------------------------------------------
(* The surroundings and the upkeep of the wallet row. *)
LEMMA WorldInv ==
  ASSUME Inv, Shapes', UNCHANGED <<status, issued, task>>,
         \A p \in Payout :
           /\ IsAsked(p)' <=> IsAsked(p)
           /\ request'[p].amt = request[p].amt
           /\ HasNumber(p)' <=> HasNumber(p)
           /\ alloc'[p].seq = alloc[p].seq,
         wallet.row => wallet'.row /\ wallet'.next >= wallet.next
  PROVE  Inv'
<1>1. Onward
  BY DEF Onward
<1>2. \A w \in Worker : Sits(task[w])'
  BY <1>1, SitsKept DEF Inv
<1>3. Numbered'
  <2>1. ASSUME NEW p \in Payout, HasNumber(p) PROVE alloc[p].seq < wallet'.next
    BY <2>1 DEF Inv, Shapes, Number, Numbered
  <2> QED BY <2>1 DEF Inv, Numbered
<1>4. Vouched'
  BY <1>1, VouchedKept DEF Inv
<1> QED BY <1>2, <1>3, <1>4 DEF Inv

LEMMA SurroundingsInv ==
  ASSUME Inv,
         \/ \E p \in Payout : LeaseExpires(p) \/ ValidityPasses(p) \/ MessageLands(p) \/ MessageDropped(p)
         \/ \E p \in Payout, amt \in Locks : LockAnew(p, amt)
         \/ ExternalTransfer \/ UNCHANGED vars
  PROVE  Inv'
<1>1. CASE \E p \in Payout : LeaseExpires(p)
  <2>1. PICK p \in Payout : LeaseExpires(p)
    BY <1>1
  <2>2. /\ request' \in [Payout -> Signing]
        /\ \A q \in Payout : (IsAsked(q)' <=> IsAsked(q)) /\ request'[q].amt = request[q].amt
    BY <2>1 DEF LeaseExpires, Inv, Shapes, Signing, IsAsked
  <2>3. UNCHANGED <<pipelineVars, seqnoVars, issued, onChain, task>>
    BY <2>1 DEF LeaseExpires
  <2>4. Shapes' /\ wallet.next >= wallet.next
    BY <2>2, <2>3 DEF Inv, Shapes
  <2> QED BY <2>2, <2>3, <2>4, WorldInv DEF HasNumber
<1>2. CASE \/ \E p \in Payout : ValidityPasses(p) \/ MessageLands(p) \/ MessageDropped(p)
           \/ ExternalTransfer \/ UNCHANGED vars
  <2>1. /\ UNCHANGED <<pipelineVars, seqnoVars, request, issued, task>>
        /\ onChain' = onChain \/ onChain' = onChain + 1
    BY <1>2 DEF ValidityPasses, MessageLands, MessageDropped, ExternalTransfer, vars
  <2>2. Shapes' /\ wallet.next >= wallet.next
    BY <2>1 DEF Inv, Shapes
  <2> QED BY <2>1, <2>2, WorldInv DEF HasNumber, IsAsked
<1>3. CASE \E p \in Payout, amt \in Locks : LockAnew(p, amt)
  <2>1. PICK p \in Payout, amt \in Locks : LockAnew(p, amt)
    BY <1>3
  <2>2. UNCHANGED <<status, seqnoVars, request, issued, onChain, task>>
    BY <2>1 DEF LockAnew
  <2>3. amount' \in [Payout -> Amt]
    BY <2>1 DEF LockAnew, Inv, Shapes, Amt
  <2>4. Shapes' /\ wallet.next >= wallet.next
    BY <2>2, <2>3 DEF Inv, Shapes
  <2> QED BY <2>2, <2>4, WorldInv DEF HasNumber, IsAsked
<1> QED BY <1>1, <1>2, <1>3

LEMMA UpkeepInv ==
  ASSUME Inv,
         \/ SyncOnChain(onChain)
         \/ \E found \in SUBSET Payout : ReconcileSequenceGap(onChain, found)
  PROVE  Inv'
<1>1. UNCHANGED <<pipelineVars, request, issued, onChain, task>>
  BY DEF SyncOnChain, ReconcileSequenceGap
<1>2. /\ alloc' \in [Payout -> Number]
      /\ \A p \in Payout : alloc'[p].seq = alloc[p].seq /\ (HasNumber(p)' <=> HasNumber(p))
  <2>1. CASE SyncOnChain(onChain)
    BY <2>1 DEF SyncOnChain, Inv, Shapes, HasNumber
  <2>2. CASE \E found \in SUBSET Payout : ReconcileSequenceGap(onChain, found)
    <3>1. PICK found \in SUBSET Payout : ReconcileSequenceGap(onChain, found)
      BY <2>2
    <3>2. ASSUME NEW p \in Payout, p \in found PROVE HasNumber(p)
      BY <3>1, <3>2 DEF ReconcileSequenceGap, HasNumber
    <3>3. \A p \in Payout :
            \/ alloc'[p] = alloc[p]
            \/ HasNumber(p) /\ \E st \in {"CONFIRMED", "FAILED", "EXPIRED"} :
                 alloc'[p] = [alloc[p] EXCEPT !.st = st]
      BY <3>1, <3>2 DEF ReconcileSequenceGap, HasNumber
    <3>4. DOMAIN alloc' = Payout
      BY <3>1 DEF ReconcileSequenceGap
    <3>5. \E f : alloc' = [p \in Payout |-> f[p]]
      <4>1. alloc' = [p \in Payout |-> alloc'[p]]
        BY <3>1 DEF ReconcileSequenceGap
      <4> QED BY <4>1
    <3>6. ASSUME NEW p \in Payout
          PROVE  /\ alloc'[p] \in Number /\ alloc'[p].seq = alloc[p].seq
                 /\ HasNumber(p)' <=> HasNumber(p)
      <4>1. alloc[p] \in Number
        BY DEF Inv, Shapes
      <4>2. CASE alloc'[p] = alloc[p]
        BY <4>1, <4>2 DEF HasNumber
      <4>3. CASE HasNumber(p) /\ \E st \in {"CONFIRMED", "FAILED", "EXPIRED"} :
                   alloc'[p] = [alloc[p] EXCEPT !.st = st]
        BY <4>1, <4>3 DEF Number, AllocStatus, HasNumber
      <4> QED BY <3>3, <4>2, <4>3
    <3> QED BY <3>4, <3>5, <3>6
  <2> QED BY <2>1, <2>2
<1>3. /\ DOMAIN wallet' = {"row", "current", "next", "confirmed"}
      /\ wallet'.row = TRUE /\ wallet'.next \in Int
      /\ wallet.row => wallet'.next >= wallet.next
  <2>1. CASE SyncOnChain(onChain)
    <3>1. CASE wallet.row
      BY <2>1, <3>1 DEF SyncOnChain, Larger, Inv, Shapes
    <3>2. CASE ~wallet.row
      BY <2>1, <3>2 DEF SyncOnChain, Inv, Shapes
    <3> QED BY <3>1, <3>2
  <2>2. CASE \E found \in SUBSET Payout : ReconcileSequenceGap(onChain, found)
    <3>1. PICK highest : wallet' = [wallet EXCEPT !.current = onChain, !.next = Larger(@, onChain),
                                                !.confirmed = highest]
      BY <2>2 DEF ReconcileSequenceGap
    <3>2. wallet.row = TRUE
      BY <2>2 DEF ReconcileSequenceGap, Inv, Shapes
    <3>3. /\ DOMAIN wallet' = {"row", "current", "next", "confirmed"}
          /\ wallet'.row = wallet.row /\ wallet'.next = Larger(wallet.next, onChain)
      BY <3>1 DEF Inv, Shapes
    <3> QED BY <3>2, <3>3 DEF Larger, Inv, Shapes
  <2> QED BY <2>1, <2>2
<1>4. Shapes'
  BY <1>1, <1>2, <1>3 DEF Inv, Shapes
<1> QED BY <1>1, <1>2, <1>3, <1>4, WorldInv DEF IsAsked

-----------------------------------------------------------------------------
LEMMA NextInv ==
  ASSUME Inv, [Next]_vars
  PROVE  Inv'
<1>1. CASE \E w \in Worker, p \in Payout : SignPrepare(w, p) \/ BroadcastGate(w, p)
  BY <1>1, PrepareInv
<1>2. CASE \E w \in Worker : SignStep(w)
  BY <1>2, ClaimInv, WaitingInv, KmsInv, StoreInv, RecordInv DEF SignStep
<1>3. CASE \E w \in Worker : SendStep(w)
  BY <1>3, WaitingInv, RecordInv DEF SendStep
<1>4. CASE \E w \in Worker : Crash(w)
  BY <1>4, WaitingInv
<1>5. CASE \E p \in Payout : Settle(p) \/ FailUnseen(p)
  BY <1>5, SettleInv
<1>6. CASE \/ \E p \in Payout : LeaseExpires(p) \/ ValidityPasses(p) \/ MessageLands(p) \/ MessageDropped(p)
           \/ \E p \in Payout, amt \in Locks : LockAnew(p, amt)
           \/ ExternalTransfer \/ UNCHANGED vars
  BY <1>6, SurroundingsInv
<1>7. CASE \/ SyncOnChain(onChain)
           \/ \E found \in SUBSET Payout : ReconcileSequenceGap(onChain, found)
  BY <1>7, UpkeepInv
<1> QED BY <1>1, <1>2, <1>3, <1>4, <1>5, <1>6, <1>7 DEF Next

(* The invariant of numbers, requests and signatures holds. *)
THEOREM InvHolds == Spec => []Inv
<1>1. Inv /\ [Next]_vars => Inv'
  BY NextInv
<1> QED BY <1>1, InitInv, PTL DEF Spec

(* Every signature of a payout covers the same number and amount, however  *)
(* many workers' leases ran out (AwsKmsEd25519Signer.sign).                *)
THEOREM OneIntentHolds == Spec => []OneIntent
<1>1. Inv => OneIntent
  <2> SUFFICES ASSUME Inv, NEW a \in issued, NEW b \in issued, a.p = b.p PROVE a = b
    BY DEF OneIntent
  <2>1. a.seq = b.seq /\ a.amt = b.amt
    BY DEF Inv, Vouched
  <2> QED BY <2>1 DEF Inv, Shapes
<1> QED BY <1>1, InvHolds, PTL

(* No number is signed for two payouts (TonSeqnoManager.allocate). *)
THEOREM NumbersDistinctHolds == Spec => []NumbersDistinct
<1>1. Inv => NumbersDistinct
  <2> SUFFICES ASSUME Inv, NEW a \in issued, NEW b \in issued, a.seq = b.seq PROVE a.p = b.p
    BY DEF NumbersDistinct
  <2>1. a.p \in Payout /\ b.p \in Payout
    BY DEF Inv, Shapes
  <2>2. HasNumber(a.p) /\ HasNumber(b.p) /\ alloc[a.p].seq = alloc[b.p].seq
    BY DEF Inv, Vouched
  <2> QED BY <2>1, <2>2 DEF Inv, Numbered
<1> QED BY <1>1, InvHolds, PTL

-----------------------------------------------------------------------------
LEMMA CompletedStays ==
  ASSUME Inv, [Next]_vars, NEW p \in Payout, request[p].st = "COMPLETED"
  PROVE  request'[p] = request[p]
<1>1. CASE UNCHANGED request
  BY <1>1
<1>2. CASE \E w \in Worker : ClaimFresh(w) \/ ClaimAgain(w)
  BY <1>2 DEF ClaimFresh, ClaimAgain, Inv, Shapes
<1>3. CASE \E w \in Worker : KmsFails(w) \/ Complete(w)
  BY <1>3 DEF KmsFails, Complete, Store, Fenced, Inv, Shapes
<1>4. CASE \E q \in Payout : LeaseExpires(q)
  BY <1>4 DEF LeaseExpires, ClaimLive, Inv, Shapes
<1>5. \/ UNCHANGED request
      \/ \E w \in Worker : ClaimFresh(w) \/ ClaimAgain(w) \/ KmsFails(w) \/ Complete(w)
      \/ \E q \in Payout : LeaseExpires(q)
  BY DEF Next, vars, SignStep, SendStep, SignPrepare, BroadcastGate, ClaimReplayed, ClaimRefused,
         KmsSigns, SignRecord, SendFound, SendPost, SendFails, BroadcastRecord, MarkUnknown,
         FailRejected, Moves, Settle, FailUnseen, ValidityPasses, MessageLands, MessageDropped,
         LockAnew, ExternalTransfer, Crash, SyncOnChain, ReconcileSequenceGap
<1> QED BY <1>1, <1>2, <1>3, <1>4, <1>5

(* A finished signing request is final (the fenced UPDATE of               *)
(* AwsKmsEd25519Signer).                                                   *)
THEOREM CompletedIsFinalHolds == Spec => CompletedIsFinal
<1>1. Inv /\ [Next]_vars =>
        [\A p \in Payout : request[p].st = "COMPLETED" => request'[p] = request[p]]_vars
  BY CompletedStays
<1>2. Spec => [][\A p \in Payout : request[p].st = "COMPLETED" => request'[p] = request[p]]_vars
  BY <1>1, InvHolds, PTL DEF Spec
<1> QED BY <1>2 DEF CompletedIsFinal

-----------------------------------------------------------------------------
(***************************************************************************)
(* The order of the messages.  A payout is sent when everything numbered   *)
(* before it has landed; that stays true because a transfer that landed    *)
(* stays so, and because no number below an allocated one is given out any *)
(* more.  What the row of the wallet says is bounded by the chain, because *)
(* a number is confirmed on evidence only, and evidence is of a message    *)
(* that carried the number (Evidence).                                     *)
(***************************************************************************)
Signs == {"claim", "kms", "complete", "record"}
Sends == {"send", "accepted", "ambiguous", "rejected"}

Clear(p) ==
  \A q \in Payout : HasNumber(q) /\ alloc[q].seq < alloc[p].seq => message[q] = "LANDED"

Figures ==
  /\ amount \in [Payout -> Locks]
  /\ sig \in [Payout -> [seq : Nat \cup {-1}, amt : Locks \cup {0}]]
  /\ \A a \in issued : a.seq \in Nat /\ a.amt \in Locks
  /\ \A w \in Worker : task[w].at \in Signs => task[w].amt \in Locks

Wallet == [row : BOOLEAN, current : Nat, next : Nat, confirmed : Nat \cup {-1}]

Row ==
  /\ onChain \in Nat /\ InitialSeqno <= onChain
  /\ wallet \in Wallet
  /\ wallet.row => wallet.current <= onChain /\ wallet.confirmed < onChain
  /\ \A p \in Payout : alloc[p].seq \in Nat \cup {-1} /\ (HasNumber(p) => alloc[p].seq \in Nat)

Evidence ==
  /\ expired \subseteq Payout
  /\ message \in [Payout -> {"NONE", "PENDING", "LANDED", "DROPPED"}]
  /\ \A p \in Payout :
       /\ message[p] # "NONE" => status[p] # "RESERVED"
       /\ message[p] = "LANDED" => alloc[p].seq < onChain
       /\ alloc[p].st = "CONFIRMED" => message[p] = "LANDED"
       /\ status[p] # "RESERVED" => sig[p].seq = alloc[p].seq

Turn ==
  /\ \A p \in Payout : message[p] # "NONE" => Clear(p)
  /\ \A w \in Worker : task[w].at \in Sends => status[task[w].p] # "RESERVED"
  /\ \A w \in Worker : task[w].at = "send" => Clear(task[w].p)

Order == Figures /\ Row /\ Evidence /\ Turn

-----------------------------------------------------------------------------
(* The lowest amount is one of the amounts. *)
LEMMA LeastLock == Min(Locks) \in Locks
<1>1. Locks \subseteq Nat /\ Locks # {}
  BY TransferAssumption DEF TransferAssumption
<1>2. PICK x \in Locks : TRUE
  BY <1>1
<1>3. PICK low : low = {y \in Locks : y <= x}
  OBVIOUS
<1>4. x \in low /\ \A y \in low : y \in Locks /\ y <= x
  BY <1>1, <1>2, <1>3
<1>5. low # {} /\ \A y \in low : y \in Nat /\ y \in Int /\ y <= x
  BY <1>1, <1>4
<1>6. low \subseteq 0..x
  BY <1>1, <1>5
<1>7. IsFiniteSet(0..x)
  BY <1>1, FS_Interval
<1>8. IsFiniteSet(low)
  BY <1>6, <1>7, FS_Subset
<1>9. PICK z \in low : \A y \in low : z <= y
  BY <1>5, <1>8, HasLeast
<1>10. z \in Locks /\ \A y \in Locks : z <= y
  <2>1. z \in Locks /\ z <= x
    BY <1>4, <1>9
  <2>2. ASSUME NEW y \in Locks PROVE z <= y
    <3>1. y \in Nat /\ z \in Nat /\ x \in Nat
      BY <1>1, <2>1
    <3>2. y <= x => z <= y
      BY <1>3, <1>9
    <3> QED BY <2>1, <3>1, <3>2
  <2> QED BY <2>1, <2>2
<1> QED BY <1>10 DEF Min

LEMMA OrderInit == Init => Order
<1> SUFFICES ASSUME Init PROVE Order
  OBVIOUS
<1>1. Figures
  <2>1. sig \in [Payout -> [seq : Nat \cup {-1}, amt : Locks \cup {0}]]
    BY DEF Init, Nothing
  <2> QED BY <2>1, LeastLock DEF Init, Figures, Free, Signs
<1>2. Row
  BY TransferAssumption DEF TransferAssumption, Init, Row, Wallet, NoRow, HasNumber
<1>3. Evidence
  BY DEF Init, Evidence
<1>4. Turn
  BY DEF Init, Turn, Free, Sends
<1> QED BY <1>1, <1>2, <1>3, <1>4 DEF Order

-----------------------------------------------------------------------------
(* What the steps do to the messages: one is posted by a worker who is     *)
(* about to send, lands with the contract's own number, or is dropped.     *)
LEMMA MessageSteps ==
  ASSUME [Next]_vars
  PROVE  \/ UNCHANGED <<message, onChain>>
         \/ UNCHANGED message /\ onChain' = onChain + 1
         \/ \E w \in Worker :
              /\ task[w].at = "send" /\ message[task[w].p] \in {"NONE", "DROPPED"}
              /\ message' = [message EXCEPT ![task[w].p] = "PENDING"] /\ UNCHANGED onChain
         \/ \E p \in Payout :
              /\ message[p] = "PENDING" /\ sig[p].seq = onChain
              /\ message' = [message EXCEPT ![p] = "LANDED"] /\ onChain' = onChain + 1
         \/ \E p \in Payout :
              /\ message[p] = "PENDING"
              /\ message' = [message EXCEPT ![p] = "DROPPED"] /\ UNCHANGED onChain
BY DEF Next, vars, SignStep, SendStep, SignPrepare, BroadcastGate, ClaimFresh, ClaimAgain,
       ClaimReplayed, ClaimRefused, KmsSigns, KmsFails, Complete, SignRecord, SendFound, SendPost,
       SendFails, BroadcastRecord, MarkUnknown, FailRejected, Moves, Settle, FailUnseen,
       LeaseExpires, ValidityPasses, MessageLands, MessageDropped, LockAnew, ExternalTransfer,
       Crash, SyncOnChain, ReconcileSequenceGap

(* What the steps do to the payouts. *)
LEMMA StatusSteps ==
  ASSUME [Next]_vars
  PROVE  \/ UNCHANGED <<status, sig>>
         \/ \E w \in Worker :
              /\ task[w].at = "record"
              /\ status' = [status EXCEPT ![task[w].p] = "SIGNED"]
              /\ sig' = [sig EXCEPT ![task[w].p] = [seq |-> alloc[task[w].p].seq, amt |-> task[w].amt]]
              /\ UNCHANGED alloc
         \/ \E w \in Worker, st \in {"BROADCASTED", "UNKNOWN", "FAILED"} :
              /\ task[w].at \in Sends /\ status' = [status EXCEPT ![task[w].p] = st] /\ UNCHANGED sig
         \/ \E p \in Payout, st \in {"SETTLED", "FAILED"} :
              /\ status[p] \in {"BROADCASTED", "UNKNOWN"}
              /\ status' = [status EXCEPT ![p] = st] /\ UNCHANGED sig
BY DEF Next, vars, SignStep, SendStep, SignPrepare, BroadcastGate, ClaimFresh, ClaimAgain,
       ClaimReplayed, ClaimRefused, KmsSigns, KmsFails, Complete, SignRecord, SendFound, SendPost,
       SendFails, BroadcastRecord, MarkUnknown, FailRejected, Moves, Settle, FailUnseen,
       LeaseExpires, ValidityPasses, MessageLands, MessageDropped, LockAnew, ExternalTransfer,
       Crash, SyncOnChain, ReconcileSequenceGap, Sends

(* What the steps do to the tasks. *)
LEMMA TaskSteps ==
  ASSUME [Next]_vars
  PROVE  \/ UNCHANGED task
         \/ \E w \in Worker, p \in Payout :
              /\ status[p] = "RESERVED"
              /\ task' = [task EXCEPT ![w] = [at |-> "claim", p |-> p, amt |-> amount[p]]]
         \/ \E w \in Worker, p \in Payout :
              /\ status[p] = "SIGNED" /\ CanBroadcast(p)
              /\ task' = [task EXCEPT ![w] = [at |-> "send", p |-> p, amt |-> 0]]
         \/ \E w \in Worker, at \in Signs : task[w].at \in Signs /\ Goto(w, at)
         \/ \E w \in Worker, at \in Sends \ {"send"} : task[w].at = "send" /\ Goto(w, at)
         \/ \E w \in Worker : Done(w)
BY DEF Next, vars, SignStep, SendStep, SignPrepare, BroadcastGate, ClaimFresh, ClaimAgain,
       ClaimReplayed, ClaimRefused, KmsSigns, KmsFails, Complete, SignRecord, SendFound, SendPost,
       SendFails, BroadcastRecord, MarkUnknown, FailRejected, Moves, Settle, FailUnseen,
       LeaseExpires, ValidityPasses, MessageLands, MessageDropped, LockAnew, ExternalTransfer,
       Crash, SyncOnChain, ReconcileSequenceGap, Sends, Signs

(* What the steps do to the numbers and the row. *)
LEMMA NumberSteps ==
  ASSUME [Next]_vars
  PROVE  \/ UNCHANGED <<alloc, wallet>>
         \/ \E w \in Worker : task[w].at = "claim" /\ Allocate(task[w].p)
         \/ \E w \in Worker, st \in {"BROADCASTED", "FAILED"} :
              task[w].at \in Sends /\ Mark(task[w].p, st) /\ UNCHANGED wallet
         \/ \E p \in Payout : status[p] \in {"BROADCASTED", "UNKNOWN"} /\ message[p] = "LANDED" /\ Confirm(p)
         \/ \E p \in Payout : status[p] = "UNKNOWN" /\ FailNumber(p)
         \/ SyncOnChain(onChain)
         \/ \E found \in SUBSET Payout : ReconcileSequenceGap(onChain, found)
<1>1. CASE \E w \in Worker, p \in Payout : SignPrepare(w, p) \/ BroadcastGate(w, p)
  BY <1>1 DEF SignPrepare, BroadcastGate
<1>2. CASE \E w \in Worker : SignStep(w)
  BY <1>2 DEF SignStep, ClaimFresh, ClaimAgain, ClaimReplayed, ClaimRefused, KmsSigns, KmsFails,
              Complete, SignRecord
<1>3. CASE \E w \in Worker : SendStep(w)
  BY <1>3 DEF SendStep, SendFound, SendPost, SendFails, BroadcastRecord, MarkUnknown, FailRejected,
              MarkBroadcasted, FailNumber, Sends
<1>4. CASE \E p \in Payout : Settle(p) \/ FailUnseen(p)
  BY <1>4 DEF Settle, FailUnseen
<1>5. CASE \/ \E p \in Payout : LeaseExpires(p) \/ ValidityPasses(p) \/ MessageLands(p) \/ MessageDropped(p)
           \/ \E p \in Payout, amt \in Locks : LockAnew(p, amt)
           \/ \E w \in Worker : Crash(w)
           \/ ExternalTransfer \/ UNCHANGED vars
  BY <1>5 DEF LeaseExpires, ValidityPasses, MessageLands, MessageDropped, LockAnew, Crash,
              ExternalTransfer, vars
<1> QED BY <1>1, <1>2, <1>3, <1>4, <1>5 DEF Next

-----------------------------------------------------------------------------
(* Numbers stay, a new one is above all others, and a number is confirmed  *)
(* when its message landed.                                                *)
LEMMA NumbersStay ==
  ASSUME Inv, [Next]_vars
  PROVE  /\ \A p \in Payout :
              /\ HasNumber(p) => HasNumber(p)' /\ alloc'[p].seq = alloc[p].seq
              /\ alloc'[p].st = "CONFIRMED" => alloc[p].st = "CONFIRMED" \/ message[p] = "LANDED"
         /\ \A p, q \in Payout :
              HasNumber(p) /\ ~HasNumber(q) /\ HasNumber(q)' => alloc[p].seq < alloc'[q].seq
<1>1. CASE UNCHANGED alloc
  BY <1>1 DEF HasNumber
<1>2. CASE \E w \in Worker : task[w].at = "claim" /\ Allocate(task[w].p)
  <2>1. PICK p \in Payout : Allocate(p)
    BY <1>2 DEF Inv, Sits
  <2>2. CASE UNCHANGED alloc
    BY <2>2 DEF HasNumber
  <2>3. CASE alloc' = [alloc EXCEPT ![p] = [seq |-> Opened.next, st |-> "RESERVED"]] /\ ~HasNumber(p)
    <3>1. \A q \in Payout : HasNumber(q) => alloc[q].seq < Opened.next
      BY DEF Opened, Inv, Numbered
    <3>2. alloc'[p].seq = Opened.next /\ alloc'[p].st = "RESERVED"
          /\ \A q \in Payout : q # p => alloc'[q] = alloc[q]
      BY <2>3 DEF Inv, Shapes
    <3> QED BY <2>3, <3>1, <3>2 DEF HasNumber
  <2> QED BY <2>1, <2>2, <2>3 DEF Allocate, NextFree, HasNumber
<1>3. CASE \E p \in Payout, st \in AllocStatus \ {"NONE"} :
             HasNumber(p) /\ Mark(p, st) /\ (st = "CONFIRMED" => message[p] = "LANDED")
  BY <1>3 DEF Mark, HasNumber, Inv, Shapes, Number
<1>4. CASE \E found \in SUBSET Payout : ReconcileSequenceGap(onChain, found)
  <2>1. PICK found \in SUBSET Payout : ReconcileSequenceGap(onChain, found)
    BY <1>4
  <2>2. ASSUME NEW p \in Payout
        PROVE  /\ HasNumber(p)' <=> HasNumber(p)
               /\ alloc'[p].seq = alloc[p].seq
               /\ alloc'[p].st = "CONFIRMED" => alloc[p].st = "CONFIRMED" \/ message[p] = "LANDED"
    <3>1. alloc[p] \in Number
      BY DEF Inv, Shapes
    <3>2. \/ alloc'[p] = alloc[p]
          \/ /\ HasNumber(p)
             /\ \E st \in {"CONFIRMED", "FAILED", "EXPIRED"} :
                  alloc'[p] = [alloc[p] EXCEPT !.st = st] /\ (st = "CONFIRMED" => message[p] = "LANDED")
      BY <2>1 DEF ReconcileSequenceGap, WithEvidence, HasNumber
    <3> QED BY <3>1, <3>2 DEF Number, HasNumber
  <2> QED BY <2>2
<1>5. \A w \in Worker : task[w].at \in Sends => task[w].p \in Payout /\ HasNumber(task[w].p)
  BY DEF Inv, Sits, Sends
<1>6. \A p \in Payout : status[p] # "RESERVED" => HasNumber(p)
  BY DEF Inv, Numbered
<1>7. CASE \E w \in Worker, st \in {"BROADCASTED", "FAILED"} :
             task[w].at \in Sends /\ Mark(task[w].p, st) /\ UNCHANGED wallet
  BY <1>3, <1>5, <1>7 DEF AllocStatus
<1>8. CASE \/ \E p \in Payout : status[p] \in {"BROADCASTED", "UNKNOWN"} /\ message[p] = "LANDED" /\ Confirm(p)
           \/ \E p \in Payout : status[p] = "UNKNOWN" /\ FailNumber(p)
  BY <1>3, <1>6, <1>8 DEF AllocStatus, Confirm, FailNumber
<1>9. CASE SyncOnChain(onChain)
  BY <1>1, <1>9 DEF SyncOnChain
<1> QED BY <1>1, <1>2, <1>4, <1>7, <1>8, <1>9, NumberSteps

(* What landed stays landed, what is under way does not go back to         *)
(* RESERVED, and what is clear stays so.                                   *)
LEMMA LandedStays ==
  ASSUME Evidence, [Next]_vars
  PROVE  /\ \A p \in Payout : message[p] = "LANDED" => message'[p] = "LANDED"
         /\ onChain' = onChain \/ onChain' = onChain + 1
         /\ message' \in [Payout -> {"NONE", "PENDING", "LANDED", "DROPPED"}]
<1>1. PICK p, st : /\ message' = message \/ message' = [message EXCEPT ![p] = st]
                   /\ st \in {"PENDING", "LANDED", "DROPPED"}
                   /\ p \in Payout => (message[p] = "LANDED" => st = "LANDED")
  BY MessageSteps
<1>2. onChain' = onChain \/ onChain' = onChain + 1
  BY MessageSteps
<1> QED BY <1>1, <1>2 DEF Evidence

LEMMA UnderWayStays ==
  ASSUME Inv, Order, [Next]_vars
  PROVE  \A p \in Payout : status[p] # "RESERVED" => status'[p] # "RESERVED"
BY StatusSteps DEF Inv, Shapes

LEMMA ClearStays ==
  ASSUME Inv, Order, [Next]_vars, NEW p \in Payout, HasNumber(p), Clear(p)
  PROVE  Clear(p)'
<1> SUFFICES ASSUME NEW q \in Payout, HasNumber(q)', alloc'[q].seq < alloc'[p].seq
             PROVE  message'[q] = "LANDED"
  BY DEF Clear
<1>1. alloc'[p].seq = alloc[p].seq /\ alloc[p].seq \in Int
  BY NumbersStay DEF Inv, Shapes, Number
<1>2. HasNumber(q)
  <2>1. ~HasNumber(q) => alloc[p].seq < alloc'[q].seq
    BY NumbersStay
  <2>2. alloc'[q].seq \in Int
    BY NextInv DEF Inv, Shapes, Number
  <2> QED BY <1>1, <2>1, <2>2
<1>3. alloc'[q].seq = alloc[q].seq
  BY <1>2, NumbersStay
<1>4. message[q] = "LANDED"
  BY <1>1, <1>2, <1>3 DEF Clear
<1> QED BY <1>4, LandedStays DEF Order

-----------------------------------------------------------------------------
LEMMA EvidenceNext ==
  ASSUME Inv, Order, [Next]_vars
  PROVE  Evidence'
<1>0. \A w \in Worker : task[w].at \in Sends \cup {"record"} => task[w].p \in Payout /\ HasNumber(task[w].p)
  BY DEF Inv, Sits, Sends
<1>1. expired' \subseteq Payout
  <2>1. expired' = expired \/ \E p \in Payout : expired' = expired \cup {p}
    BY DEF Next, vars, SignStep, SendStep, SignPrepare, BroadcastGate, ClaimFresh, ClaimAgain,
           ClaimReplayed, ClaimRefused, KmsSigns, KmsFails, Complete, SignRecord, SendFound, SendPost,
           SendFails, BroadcastRecord, MarkUnknown, FailRejected, Moves, Settle, FailUnseen,
           LeaseExpires, ValidityPasses, MessageLands, MessageDropped, LockAnew, ExternalTransfer,
           Crash, SyncOnChain, ReconcileSequenceGap
  <2> QED BY <2>1 DEF Order, Evidence
<1>2. message' \in [Payout -> {"NONE", "PENDING", "LANDED", "DROPPED"}]
  BY LandedStays DEF Order
<1>3. ASSUME NEW p \in Payout, message'[p] # "NONE" PROVE status'[p] # "RESERVED"
  <2>1. message[p] # "NONE" \/ \E w \in Worker : task[w].at = "send" /\ p = task[w].p
    BY <1>3, MessageSteps DEF Order, Evidence
  <2>2. status[p] # "RESERVED"
    BY <2>1 DEF Order, Evidence, Turn, Sends
  <2> QED BY <2>2, UnderWayStays
<1>4. ASSUME NEW p \in Payout, message'[p] = "LANDED" PROVE alloc'[p].seq < onChain'
  <2>1. message[p] # "NONE"
    BY <1>4, MessageSteps DEF Order, Evidence
  <2>2. HasNumber(p) /\ sig[p].seq = alloc[p].seq
    BY <2>1 DEF Order, Evidence, Inv, Numbered
  <2>3. alloc'[p].seq = alloc[p].seq /\ alloc[p].seq \in Int /\ onChain \in Int
    BY <2>2, NumbersStay DEF Inv, Shapes, Number
  <2>4. CASE message[p] = "LANDED"
    <3>1. alloc[p].seq < onChain
      BY <2>4 DEF Order, Evidence
    <3> QED BY <2>3, <3>1, LandedStays DEF Order
  <2>5. CASE message[p] # "LANDED"
    <3>1. sig[p].seq = onChain /\ onChain' = onChain + 1
      BY <1>4, <2>5, MessageSteps DEF Order, Evidence
    <3> QED BY <2>2, <2>3, <3>1
  <2> QED BY <2>4, <2>5
<1>5. ASSUME NEW p \in Payout, alloc'[p].st = "CONFIRMED" PROVE message'[p] = "LANDED"
  <2>1. message[p] = "LANDED"
    BY <1>5, NumbersStay DEF Order, Evidence
  <2> QED BY <2>1, LandedStays DEF Order
<1>6. ASSUME NEW p \in Payout, status'[p] # "RESERVED" PROVE sig'[p].seq = alloc'[p].seq
  <2>1. CASE status[p] # "RESERVED" /\ sig'[p] = sig[p]
    <3>1. HasNumber(p) /\ sig[p].seq = alloc[p].seq
      BY <2>1 DEF Order, Evidence, Inv, Numbered
    <3> QED BY <2>1, <3>1, NumbersStay
  <2>2. CASE sig'[p].seq = alloc[p].seq /\ UNCHANGED alloc
    BY <2>2
  <2>3. \/ status[p] # "RESERVED" /\ sig'[p] = sig[p]
        \/ sig'[p].seq = alloc[p].seq /\ UNCHANGED alloc
    <3>1. CASE UNCHANGED <<status, sig>>
      BY <1>6, <3>1
    <3>2. CASE \E w \in Worker :
                 /\ task[w].at = "record"
                 /\ status' = [status EXCEPT ![task[w].p] = "SIGNED"]
                 /\ sig' = [sig EXCEPT ![task[w].p] = [seq |-> alloc[task[w].p].seq, amt |-> task[w].amt]]
                 /\ UNCHANGED alloc
      BY <1>0, <1>6, <3>2 DEF Order, Figures, Inv, Shapes
    <3>3. CASE \E w \in Worker, st \in {"BROADCASTED", "UNKNOWN", "FAILED"} :
                 task[w].at \in Sends /\ status' = [status EXCEPT ![task[w].p] = st] /\ UNCHANGED sig
      BY <1>0, <1>6, <3>3 DEF Order, Turn, Inv, Shapes
    <3>4. CASE \E q \in Payout, st \in {"SETTLED", "FAILED"} :
                 /\ status[q] \in {"BROADCASTED", "UNKNOWN"}
                 /\ status' = [status EXCEPT ![q] = st] /\ UNCHANGED sig
      BY <1>6, <3>4 DEF Inv, Shapes
    <3> QED BY <3>1, <3>2, <3>3, <3>4, StatusSteps
  <2> QED BY <2>1, <2>2, <2>3
<1> QED BY <1>1, <1>2, <1>3, <1>4, <1>5, <1>6 DEF Evidence

LEMMA TurnNext ==
  ASSUME Inv, Order, [Next]_vars
  PROVE  Turn'
<1>1. ASSUME NEW p \in Payout, message'[p] # "NONE" PROVE Clear(p)'
  <2>1. message[p] # "NONE" \/ \E w \in Worker : task[w].at = "send" /\ p = task[w].p
    BY <1>1, MessageSteps DEF Order, Evidence
  <2>2. Clear(p) /\ status[p] # "RESERVED"
    BY <2>1 DEF Order, Evidence, Turn, Sends
  <2>3. HasNumber(p)
    BY <2>2 DEF Inv, Numbered
  <2> QED BY <2>2, <2>3, ClearStays
<1>2. ASSUME NEW w \in Worker, task'[w].at \in Sends
      PROVE  \/ task[w].at \in Sends /\ task'[w].p = task[w].p
                /\ (task'[w].at = "send" => task[w].at = "send")
             \/ \E p \in Payout : task'[w].p = p /\ status[p] = "SIGNED" /\ CanBroadcast(p)
  <2>1. task \in [Worker -> Errand] /\ task[w] \in Errand
    BY DEF Inv, Shapes
  <2>2. CASE UNCHANGED task
    BY <1>2, <2>2
  <2>3. CASE \E v \in Worker, p \in Payout :
              /\ status[p] = "RESERVED"
              /\ task' = [task EXCEPT ![v] = [at |-> "claim", p |-> p, amt |-> amount[p]]]
    BY <1>2, <2>1, <2>3 DEF Sends
  <2>4. CASE \E v \in Worker, p \in Payout :
              /\ status[p] = "SIGNED" /\ CanBroadcast(p)
              /\ task' = [task EXCEPT ![v] = [at |-> "send", p |-> p, amt |-> 0]]
    BY <1>2, <2>1, <2>4 DEF Sends
  <2>5. CASE \E v \in Worker, at \in Signs : task[v].at \in Signs /\ Goto(v, at)
    <3>1. PICK v \in Worker, at \in Signs : task[v].at \in Signs /\ task' = [task EXCEPT ![v].at = at]
      BY <2>5 DEF Goto
    <3>2. v # w
      BY <1>2, <2>1, <3>1 DEF Sends, Signs, Errand
    <3> QED BY <1>2, <2>1, <3>1, <3>2
  <2>6. CASE \E v \in Worker, at \in Sends \ {"send"} : task[v].at = "send" /\ Goto(v, at)
    <3>1. PICK v \in Worker, at \in Sends \ {"send"} :
            task[v].at = "send" /\ task' = [task EXCEPT ![v].at = at]
      BY <2>6 DEF Goto
    <3>2. CASE v = w
      BY <2>1, <3>1, <3>2 DEF Sends, Errand
    <3>3. CASE v # w
      BY <1>2, <2>1, <3>1, <3>3
    <3> QED BY <3>2, <3>3
  <2>7. CASE \E v \in Worker : Done(v)
    BY <1>2, <2>1, <2>7 DEF Done, Free, Sends
  <2> QED BY <2>2, <2>3, <2>4, <2>5, <2>6, <2>7, TaskSteps
<1>3. \A w \in Worker : task[w].at \in Sends => task[w].p \in Payout /\ HasNumber(task[w].p)
  BY DEF Inv, Sits, Sends
<1>4. ASSUME NEW p \in Payout, CanBroadcast(p) PROVE HasNumber(p) /\ Clear(p)
  BY <1>4 DEF CanBroadcast, Predecessors, HasNumber, Clear, Order, Evidence
<1>5. ASSUME NEW w \in Worker, task'[w].at \in Sends PROVE status'[task'[w].p] # "RESERVED"
  <2>1. task'[w].p \in Payout /\ status[task'[w].p] # "RESERVED"
    BY <1>2, <1>3, <1>5 DEF Order, Turn
  <2> QED BY <2>1, UnderWayStays
<1>6. ASSUME NEW w \in Worker, task'[w].at = "send" PROVE Clear(task[w].p)'
  <2>1. PICK p : p = task'[w].p
    OBVIOUS
  <2>2. p \in Payout /\ HasNumber(p) /\ Clear(p)
    BY <1>2, <1>3, <1>4, <1>6, <2>1 DEF Order, Turn, Sends
  <2>3. Clear(p)'
    BY <2>2, ClearStays
  <2> QED BY <2>1, <2>3 DEF Clear
<1> QED BY <1>1, <1>5, <1>6 DEF Turn

-----------------------------------------------------------------------------
(* The greatest of a number and of settled ones below n is below n. *)
LEMMA GreatestIsBelow ==
  ASSUME NEW n \in Nat, NEW T, T # {}, \A x \in T : x \in Nat \cup {-1} /\ x < n
  PROVE  Max(T) \in Nat \cup {-1} /\ Max(T) < n
<1>1. T \subseteq (-1)..n
  OBVIOUS
<1>2. IsFiniteSet((-1)..n)
  BY FS_Interval
<1>3. IsFiniteSet(T)
  BY <1>1, <1>2, FS_Subset
<1>4. \A x \in T : x \in Int
  OBVIOUS
<1>5. PICK x \in T : \A y \in T : x >= y
  BY <1>3, <1>4, HasGreatest
<1>6. Max(T) \in T
  BY <1>5 DEF Max
<1> QED BY <1>6

(* The row: it never runs ahead of the chain. *)
LEMMA RowNext ==
  ASSUME Inv, Order, [Next]_vars
  PROVE  Row'
<1>1. /\ onChain \in Nat /\ InitialSeqno \in Nat /\ InitialSeqno <= onChain
      /\ onChain' = onChain \/ onChain' = onChain + 1
  BY LandedStays, TransferAssumption DEF TransferAssumption, Order, Row
<1>2. onChain' \in Nat /\ InitialSeqno <= onChain' /\ onChain <= onChain'
  BY <1>1
<1>3. wallet \in Wallet
  BY DEF Order, Row
<1>4. ASSUME UNCHANGED wallet
      PROVE  /\ wallet' \in Wallet
             /\ wallet'.row => wallet'.current <= onChain /\ wallet'.confirmed < onChain
  BY <1>4 DEF Order, Row
<1>5. /\ wallet' \in Wallet
      /\ wallet'.row => wallet'.current <= onChain /\ wallet'.confirmed < onChain
  <2>1. CASE UNCHANGED wallet
    BY <1>4, <2>1
  <2>2. CASE \E w \in Worker : task[w].at = "claim" /\ Allocate(task[w].p)
    <3>1. UNCHANGED wallet \/ wallet' = [Opened EXCEPT !.next = Opened.next + 1]
      BY <2>2 DEF Allocate, NextFree
    <3>2. /\ Opened \in Wallet
          /\ Opened.current <= onChain /\ Opened.confirmed < onChain
      BY <1>1, <1>3 DEF Opened, Wallet, Order, Row
    <3>3. CASE wallet' = [Opened EXCEPT !.next = Opened.next + 1]
      BY <3>2, <3>3 DEF Wallet
    <3> QED BY <2>1, <3>1, <3>3
  <2>3. CASE \E p \in Payout : message[p] = "LANDED" /\ Confirm(p)
    <3>1. PICK p \in Payout : message[p] = "LANDED" /\ wallet' = ConfirmedUpTo(alloc[p].seq)
      BY <2>3 DEF Confirm
    <3>2. PICK S : S = alloc[p].seq
      OBVIOUS
    <3>3. HasNumber(p)
      BY <3>1 DEF Order, Evidence, Inv, Numbered
    <3>4. S \in Nat /\ S < onChain
      BY <3>1, <3>2, <3>3 DEF Order, Evidence, Row
    <3>5. PICK c, f : c = Larger(wallet.current, S + 1) /\ f = Larger(wallet.confirmed, S)
      OBVIOUS
    <3>6. wallet' = [wallet EXCEPT !.confirmed = f, !.current = c]
      BY <3>1, <3>2, <3>5 DEF ConfirmedUpTo
    <3>7. /\ c \in Nat /\ f \in Nat
          /\ wallet.row => c <= onChain /\ f < onChain
      BY <1>1, <1>3, <3>4, <3>5 DEF Larger, Wallet, Order, Row
    <3> QED BY <1>3, <3>6, <3>7 DEF Wallet
  <2>4. CASE SyncOnChain(onChain)
    <3>1. CASE ~wallet.row
      BY <1>1, <2>4, <3>1 DEF SyncOnChain, Wallet
    <3>2. CASE wallet.row
      <4>1. PICK c, n : c = Larger(wallet.current, onChain) /\ n = Larger(wallet.next, onChain)
        OBVIOUS
      <4>2. wallet' = [wallet EXCEPT !.current = c, !.next = n]
        BY <2>4, <3>2, <4>1 DEF SyncOnChain
      <4>3. c \in Nat /\ n \in Nat /\ c <= onChain
        BY <1>1, <1>3, <3>2, <4>1 DEF Larger, Wallet, Order, Row
      <4>4. wallet.confirmed < onChain
        BY <3>2 DEF Order, Row
      <4> QED BY <1>3, <4>2, <4>3, <4>4 DEF Wallet
    <3> QED BY <3>1, <3>2
  <2>5. CASE \E found \in SUBSET Payout : ReconcileSequenceGap(onChain, found)
    <3>1. PICK found \in SUBSET Payout : ReconcileSequenceGap(onChain, found)
      BY <2>5
    <3>2. PICK proved : proved = {p \in Payout : alloc[p].st \in {"RESERVED", "BROADCASTED"}
                                    /\ alloc[p].seq < onChain} \cap WithEvidence(found, onChain)
      OBVIOUS
    <3>3. PICK T : T = {wallet.confirmed} \cup {alloc[p].seq : p \in proved}
      OBVIOUS
    <3>4. wallet' = [wallet EXCEPT !.current = onChain, !.next = Larger(@, onChain), !.confirmed = Max(T)]
      BY <3>1, <3>2, <3>3 DEF ReconcileSequenceGap
    <3>5. \A p \in proved : alloc[p].seq \in Nat \cup {-1} /\ alloc[p].seq < onChain
      BY <3>2 DEF Order, Row
    <3>6. wallet.confirmed \in Nat \cup {-1} /\ wallet.confirmed < onChain
      BY <3>1 DEF ReconcileSequenceGap, Order, Row, Wallet
    <3>7. T # {} /\ \A x \in T : x \in Nat \cup {-1} /\ x < onChain
      BY <3>3, <3>5, <3>6
    <3>8. Max(T) \in Nat \cup {-1} /\ Max(T) < onChain
      BY <1>1, <3>7, GreatestIsBelow
    <3>9. PICK n, f : n = Larger(wallet.next, onChain) /\ f = Max(T)
      OBVIOUS
    <3>10. wallet' = [wallet EXCEPT !.current = onChain, !.next = n, !.confirmed = f]
      BY <3>4, <3>9
    <3>11. n \in Nat
      BY <1>1, <1>3, <3>9 DEF Larger, Wallet
    <3>12. f \in Nat \cup {-1} /\ f < onChain
      BY <3>8, <3>9
    <3>13. wallet' \in Wallet
      BY <1>1, <1>3, <3>10, <3>11, <3>12 DEF Wallet
    <3>14. wallet'.current = onChain /\ wallet'.confirmed = f
      BY <1>3, <3>10 DEF Wallet
    <3> QED BY <1>1, <3>12, <3>13, <3>14
  <2> QED BY <2>1, <2>2, <2>3, <2>4, <2>5, NumberSteps DEF FailNumber
<1>6. wallet'.row => wallet'.current <= onChain' /\ wallet'.confirmed < onChain'
  BY <1>1, <1>2, <1>5 DEF Wallet
<1>7. ASSUME NEW p \in Payout
      PROVE  alloc'[p].seq \in Nat \cup {-1} /\ (HasNumber(p)' => alloc'[p].seq \in Nat)
  <2>1. CASE alloc'[p].seq = alloc[p].seq /\ (HasNumber(p)' <=> HasNumber(p))
    BY <2>1 DEF Order, Row
  <2>2. CASE alloc'[p].seq = Opened.next
    BY <1>1, <2>2 DEF Opened, Wallet, Order, Row
  <2>3. \/ alloc'[p].seq = alloc[p].seq /\ (HasNumber(p)' <=> HasNumber(p))
        \/ alloc'[p].seq = Opened.next
    <3>1. CASE UNCHANGED alloc
      BY <3>1 DEF HasNumber
    <3>2. CASE \E w \in Worker : task[w].at = "claim" /\ Allocate(task[w].p)
      <4>1. PICK q \in Payout : Allocate(q)
        BY <3>2 DEF Inv, Sits
      <4> QED BY <3>1, <4>1 DEF Allocate, NextFree, HasNumber, Inv, Shapes
    <3>3. CASE \E q \in Payout, st \in AllocStatus \ {"NONE"} : HasNumber(q) /\ Mark(q, st)
      BY <3>3, Marking DEF Inv
    <3>4. CASE \E found \in SUBSET Payout : ReconcileSequenceGap(onChain, found)
      <4>1. PICK found \in SUBSET Payout : ReconcileSequenceGap(onChain, found)
        BY <3>4
      <4>2. alloc[p] \in Number
        BY DEF Inv, Shapes
      <4>3. \/ alloc'[p] = alloc[p]
            \/ HasNumber(p) /\ \E st \in {"CONFIRMED", "FAILED", "EXPIRED"} :
                 alloc'[p] = [alloc[p] EXCEPT !.st = st]
        BY <4>1 DEF ReconcileSequenceGap, HasNumber
      <4> QED BY <4>2, <4>3 DEF Number, HasNumber
    <3>5. \A w \in Worker : task[w].at \in Sends => task[w].p \in Payout /\ HasNumber(task[w].p)
      BY DEF Inv, Sits, Sends
    <3>6. \A q \in Payout : status[q] # "RESERVED" => HasNumber(q)
      BY DEF Inv, Numbered
    <3>7. CASE \E w \in Worker, st \in {"BROADCASTED", "FAILED"} :
                 task[w].at \in Sends /\ Mark(task[w].p, st) /\ UNCHANGED wallet
      BY <3>3, <3>5, <3>7 DEF AllocStatus
    <3>8. CASE \/ \E q \in Payout : /\ status[q] \in {"BROADCASTED", "UNKNOWN"}
                                     /\ message[q] = "LANDED" /\ Confirm(q)
               \/ \E q \in Payout : status[q] = "UNKNOWN" /\ FailNumber(q)
      BY <3>3, <3>6, <3>8 DEF AllocStatus, Confirm, FailNumber
    <3> QED BY <3>1, <3>2, <3>4, <3>7, <3>8, NumberSteps DEF SyncOnChain
  <2> QED BY <2>1, <2>2, <2>3
<1> QED BY <1>2, <1>5, <1>6, <1>7 DEF Row

(* Amounts are those of locks, and what is signed carries one. *)
LEMMA FiguresNext ==
  ASSUME Inv, Order, [Next]_vars
  PROVE  Figures'
<1>1. amount' \in [Payout -> Locks]
  <2>1. amount' = amount \/ \E p \in Payout, amt \in Locks : amount' = [amount EXCEPT ![p] = amt]
    BY DEF Next, vars, SignStep, SendStep, SignPrepare, BroadcastGate, ClaimFresh, ClaimAgain,
           ClaimReplayed, ClaimRefused, KmsSigns, KmsFails, Complete, SignRecord, SendFound, SendPost,
           SendFails, BroadcastRecord, MarkUnknown, FailRejected, Moves, Settle, FailUnseen,
           LeaseExpires, ValidityPasses, MessageLands, MessageDropped, LockAnew, ExternalTransfer,
           Crash, SyncOnChain, ReconcileSequenceGap
  <2> QED BY <2>1 DEF Order, Figures
<1>2. sig' \in [Payout -> [seq : Nat \cup {-1}, amt : Locks \cup {0}]]
  <2>1. CASE UNCHANGED sig
    BY <2>1 DEF Order, Figures
  <2>2. CASE \E w \in Worker :
               /\ task[w].at = "record"
               /\ sig' = [sig EXCEPT ![task[w].p] = [seq |-> alloc[task[w].p].seq, amt |-> task[w].amt]]
    <3>1. PICK w \in Worker :
               /\ task[w].at = "record"
               /\ sig' = [sig EXCEPT ![task[w].p] = [seq |-> alloc[task[w].p].seq, amt |-> task[w].amt]]
      BY <2>2
    <3>2. task[w].amt \in Locks /\ task[w].p \in Payout
      BY <3>1 DEF Order, Figures, Signs, Inv, Sits
    <3>3. alloc[task[w].p].seq \in Nat \cup {-1}
      BY <3>2 DEF Order, Row
    <3> QED BY <3>1, <3>2, <3>3 DEF Order, Figures
  <2> QED BY <2>1, <2>2, StatusSteps
<1>3. ASSUME NEW a \in issued' PROVE a.seq \in Nat /\ a.amt \in Locks
  <2>1. issued' = issued \/ \E w \in Worker : task[w].at = "kms" /\ issued' = issued \cup {Signature(task[w])}
    BY DEF Next, vars, SignStep, SendStep, SignPrepare, BroadcastGate, ClaimFresh, ClaimAgain,
           ClaimReplayed, ClaimRefused, KmsSigns, KmsFails, Complete, SignRecord, SendFound, SendPost,
           SendFails, BroadcastRecord, MarkUnknown, FailRejected, Moves, Settle, FailUnseen,
           LeaseExpires, ValidityPasses, MessageLands, MessageDropped, LockAnew, ExternalTransfer,
           Crash, SyncOnChain, ReconcileSequenceGap
  <2>2. CASE a \in issued
    BY <2>2 DEF Order, Figures
  <2>3. CASE \E w \in Worker : task[w].at = "kms" /\ a = Signature(task[w])
    <3>1. PICK w \in Worker : task[w].at = "kms" /\ a = Signature(task[w])
      BY <2>3
    <3>2. task[w].p \in Payout /\ HasNumber(task[w].p) /\ task[w].amt \in Locks
      BY <3>1 DEF Order, Figures, Signs, Inv, Sits
    <3>3. alloc[task[w].p].seq \in Nat
      BY <3>2 DEF Order, Row
    <3> QED BY <3>1, <3>2, <3>3 DEF Signature
  <2> QED BY <2>1, <2>2, <2>3
<1>4. ASSUME NEW w \in Worker, task'[w].at \in Signs PROVE task'[w].amt \in Locks
  <2>1. task \in [Worker -> Errand] /\ task[w] \in Errand
    BY DEF Inv, Shapes
  <2>2. CASE task'[w] = task[w]
    BY <1>4, <2>2 DEF Order, Figures
  <2>3. CASE \E p \in Payout : task'[w] = [at |-> "claim", p |-> p, amt |-> amount[p]]
    BY <2>3 DEF Order, Figures
  <2>4. CASE task[w].at \in Signs /\ task'[w].amt = task[w].amt
    BY <2>4 DEF Order, Figures
  <2>5. \/ task'[w] = task[w]
        \/ \E p \in Payout : task'[w] = [at |-> "claim", p |-> p, amt |-> amount[p]]
        \/ task[w].at \in Signs /\ task'[w].amt = task[w].amt
    <3>1. CASE \E v \in Worker, at \in Signs : task[v].at \in Signs /\ Goto(v, at)
      <4>1. PICK v \in Worker, at \in Signs : task[v].at \in Signs /\ task' = [task EXCEPT ![v].at = at]
        BY <3>1 DEF Goto
      <4>2. CASE v = w
        BY <2>1, <4>1, <4>2 DEF Errand
      <4> QED BY <2>1, <4>1, <4>2
    <3>2. CASE \E v \in Worker, at \in Sends \ {"send"} : task[v].at = "send" /\ Goto(v, at)
      <4>1. PICK v \in Worker, at \in Sends \ {"send"} :
              task[v].at = "send" /\ task' = [task EXCEPT ![v].at = at]
        BY <3>2 DEF Goto
      <4>2. v # w
        BY <1>4, <2>1, <4>1 DEF Errand, Signs, Sends
      <4> QED BY <2>1, <4>1, <4>2
    <3>3. CASE \E v \in Worker : Done(v)
      BY <1>4, <2>1, <3>3 DEF Done, Free, Signs
    <3>4. CASE \E v \in Worker, p \in Payout : task' = [task EXCEPT ![v] = [at |-> "send", p |-> p, amt |-> 0]]
      BY <1>4, <2>1, <3>4 DEF Signs
    <3>5. CASE \E v \in Worker, p \in Payout :
                 task' = [task EXCEPT ![v] = [at |-> "claim", p |-> p, amt |-> amount[p]]]
      BY <2>1, <3>5
    <3> QED BY <3>1, <3>2, <3>3, <3>4, <3>5, TaskSteps
  <2> QED BY <2>2, <2>3, <2>4, <2>5
<1> QED BY <1>1, <1>2, <1>3, <1>4 DEF Figures

LEMMA OrderNext == Inv /\ Order /\ [Next]_vars => Order'
BY FiguresNext, RowNext, EvidenceNext, TurnNext DEF Order

-----------------------------------------------------------------------------
(* The types follow from both invariants. *)
LEMMA TypesAreOK == Inv /\ Order => TypeOK
<1> SUFFICES ASSUME Inv, Order PROVE TypeOK
  OBVIOUS
<1>1. Amt = Locks \cup {0}
  BY LeastLock DEF Amt
<1>2. status \in [Payout -> Committed \cup {"SETTLED", "FAILED"}] /\ amount \in [Payout -> Locks]
  BY DEF Inv, Shapes, Order, Figures
<1>3. wallet \in [row : BOOLEAN, current : Nat, next : Nat, confirmed : Nat \cup {-1}]
  BY DEF Order, Row, Wallet
<1>4. alloc \in [Payout -> [seq : Nat \cup {-1}, st : AllocStatus]]
  <2>1. alloc \in [Payout -> Number]
    BY DEF Inv, Shapes
  <2>2. \A p \in Payout : alloc[p].seq \in Nat \cup {-1}
    BY DEF Order, Row
  <2>3. \A p \in Payout : alloc[p] \in [seq : Nat \cup {-1}, st : AllocStatus]
    BY <2>1, <2>2 DEF Number
  <2> QED BY <2>1, <2>3
<1>5. request \in [Payout -> [st : {"NONE", "CLAIMED", "COMPLETED", "FAILED_RETRYABLE"},
                              amt : Locks \cup {0}, token : Worker \cup {Idle}, lease : BOOLEAN]]
  BY <1>1 DEF Inv, Shapes, Signing
<1>6. issued \subseteq [p : Payout, seq : Nat, amt : Locks]
  <2>1. issued \subseteq [p : Payout, seq : Int, amt : Amt]
    BY DEF Inv, Shapes
  <2>2. \A a \in issued : a.seq \in Nat /\ a.amt \in Locks
    BY DEF Order, Figures
  <2> QED BY <2>1, <2>2
<1>7. task \in [Worker -> [at : {"idle", "claim", "kms", "complete", "record", "send",
                                 "accepted", "ambiguous", "rejected"},
                           p : Payout \cup {Idle}, amt : Locks \cup {0}]]
  BY <1>1 DEF Inv, Shapes, Errand, Stages
<1>8. /\ sig \in [Payout -> [seq : Nat \cup {-1}, amt : Locks \cup {0}]]
      /\ expired \subseteq Payout /\ onChain \in Nat
      /\ message \in [Payout -> {"NONE", "PENDING", "LANDED", "DROPPED"}]
  BY DEF Order, Figures, Row, Evidence
<1> QED BY <1>2, <1>3, <1>4, <1>5, <1>6, <1>7, <1>8 DEF TypeOK

(* A message leaves only when everything numbered before it has landed     *)
(* (TonSeqnoManager.canBroadcast).                                         *)
THEOREM InTurnHolds == Spec => []InTurn
<1>1. Init => Inv /\ Order
  BY InitInv, OrderInit
<1>2. Inv /\ Order /\ [Next]_vars => (Inv /\ Order)'
  BY NextInv, OrderNext
<1>3. Inv /\ Order => InTurn
  BY DEF InTurn, Order, Turn, Clear, Predecessors, HasNumber
<1> QED BY <1>1, <1>2, <1>3, PTL DEF Spec

(* Numbers are kept: types, no number of two payouts, and a row that never *)
(* runs ahead of the contract (TonSeqnoManager).                           *)
THEOREM NumbersAreKeptHolds == Spec => []NumbersAreKept
<1>1. Init => Inv /\ Order
  BY InitInv, OrderInit
<1>2. Inv /\ Order /\ [Next]_vars => (Inv /\ Order)'
  BY NextInv, OrderNext
<1>3. Inv /\ Order => TypeOK /\ RowBehindChain
  BY TypesAreOK DEF RowBehindChain, Order, Row, Evidence
<1>4. Spec => [](TypeOK /\ RowBehindChain)
  BY <1>1, <1>2, <1>3, PTL DEF Spec
<1> QED BY <1>4, NumbersDistinctHolds, PTL DEF NumbersAreKept

-----------------------------------------------------------------------------
(***************************************************************************)
(* The refinement.  That a message carries what its payout was signed for  *)
(* needs the converse of Vouched: what a worker holds after KMS, what a    *)
(* finished request says, and what is recorded with the payout, was signed *)
(* indeed (Backed).                                                        *)
(***************************************************************************)
Recorded(p) == [p |-> p, seq |-> sig[p].seq, amt |-> sig[p].amt]
Requested(p) == [p |-> p, seq |-> alloc[p].seq, amt |-> request[p].amt]

Backed ==
  /\ \A w \in Worker : task[w].at \in {"complete", "record"} => Signature(task[w]) \in issued
  /\ \A p \in Payout : request[p].st = "COMPLETED" => Requested(p) \in issued
  /\ \A p \in Payout : status[p] # "RESERVED" => Recorded(p) \in issued

(* Who comes to hold a signature asked KMS for it or found it stored. *)
LEMMA HoldingSteps ==
  ASSUME Inv, [Next]_vars, NEW w \in Worker, task'[w].at \in {"complete", "record"}
  PROVE  /\ task'[w].p = task[w].p /\ task'[w].amt = task[w].amt
         /\ task[w].at # "idle"
         /\ \/ task[w].at \in {"complete", "record"}
            \/ task[w].at = "kms" /\ issued' = issued \cup {Signature(task[w])}
            \/ /\ task[w].at = "claim" /\ request[task[w].p].st = "COMPLETED"
               /\ request[task[w].p].amt = task[w].amt /\ UNCHANGED alloc
<1>1. task \in [Worker -> Errand] /\ task[w] \in Errand
  BY DEF Inv, Shapes
<1>2. CASE \E v \in Worker, p \in Payout : SignPrepare(v, p) \/ BroadcastGate(v, p)
  BY <1>1, <1>2 DEF SignPrepare, BroadcastGate, Errand
<1>3. CASE \E v \in Worker : ClaimFresh(v) \/ ClaimAgain(v) \/ ClaimRefused(v) \/ KmsFails(v)
  BY <1>1, <1>3 DEF ClaimFresh, ClaimAgain, ClaimRefused, KmsFails, Goto, Done, Free, Errand
<1>4. CASE \E v \in Worker : ClaimReplayed(v)
  BY <1>1, <1>4 DEF ClaimReplayed, SameIntent, Goto, Errand
<1>5. CASE \E v \in Worker : KmsSigns(v)
  BY <1>1, <1>5 DEF KmsSigns, Goto, Errand
<1>6. CASE \E v \in Worker : Complete(v) \/ SignRecord(v)
  BY <1>1, <1>6 DEF Complete, SignRecord, Goto, Done, Free, Errand
<1>7. CASE \E v \in Worker : SendStep(v) \/ Crash(v)
  BY <1>1, <1>7 DEF SendStep, SendFound, SendPost, SendFails, BroadcastRecord, MarkUnknown, FailRejected,
                    Moves, Crash, Goto, Done, Free, Errand
<1>8. CASE UNCHANGED task
  BY <1>1, <1>8 DEF Errand
<1>9. \/ UNCHANGED task \/ \E v \in Worker : SignStep(v) \/ SendStep(v) \/ Crash(v)
      \/ \E v \in Worker, p \in Payout : SignPrepare(v, p) \/ BroadcastGate(v, p)
  BY DEF Next, vars, Settle, FailUnseen, LeaseExpires, ValidityPasses, MessageLands, MessageDropped,
         LockAnew, ExternalTransfer, SyncOnChain, ReconcileSequenceGap
<1> QED BY <1>2, <1>3, <1>4, <1>5, <1>6, <1>7, <1>8, <1>9 DEF SignStep

(* A request is finished by the worker who still holds it. *)
LEMMA FinishingSteps ==
  ASSUME Inv, [Next]_vars, NEW p \in Payout, request'[p].st = "COMPLETED"
  PROVE  /\ request'[p].amt = request[p].amt
         /\ \/ request[p].st = "COMPLETED"
            \/ \E w \in Worker : task[w].at = "complete" /\ task[w].p = p
<1>1. request \in [Payout -> Signing] /\ request[p] \in Signing
  BY DEF Inv, Shapes
<1>2. CASE UNCHANGED request
  BY <1>2
<1>3. CASE \E w \in Worker : ClaimFresh(w) \/ ClaimAgain(w)
  BY <1>1, <1>3 DEF ClaimFresh, ClaimAgain, Claimed
<1>4. CASE \E w \in Worker : KmsFails(w) \/ Complete(w)
  BY <1>1, <1>4 DEF KmsFails, Complete, Store, Signing
<1>5. CASE \E q \in Payout : LeaseExpires(q)
  BY <1>1, <1>5 DEF LeaseExpires, Signing
<1>6. \/ UNCHANGED request \/ \E q \in Payout : LeaseExpires(q)
      \/ \E w \in Worker : ClaimFresh(w) \/ ClaimAgain(w) \/ KmsFails(w) \/ Complete(w)
  BY DEF Next, vars, SignStep, SendStep, SignPrepare, BroadcastGate, ClaimReplayed, ClaimRefused, KmsSigns,
         SignRecord, SendFound, SendPost, SendFails, BroadcastRecord, MarkUnknown, FailRejected, Moves,
         Settle, FailUnseen, ValidityPasses, MessageLands, MessageDropped, LockAnew, ExternalTransfer,
         Crash, SyncOnChain, ReconcileSequenceGap
<1> QED BY <1>2, <1>3, <1>4, <1>5, <1>6

(* Signatures are never taken back. *)
LEMMA IssuedGrows ==
  ASSUME [Next]_vars
  PROVE  issued' = issued \/ \E w \in Worker : KmsSigns(w)
BY DEF Next, vars, SignStep, SendStep, SignPrepare, BroadcastGate, ClaimFresh, ClaimAgain,
       ClaimReplayed, ClaimRefused, KmsFails, Complete, SignRecord, SendFound, SendPost,
       SendFails, BroadcastRecord, MarkUnknown, FailRejected, Moves, Settle, FailUnseen,
       LeaseExpires, ValidityPasses, MessageLands, MessageDropped, LockAnew, ExternalTransfer,
       Crash, SyncOnChain, ReconcileSequenceGap

LEMMA BackedInit == Init => Backed
BY DEF Init, Backed, Free, NoRequest

LEMMA BackedNext ==
  ASSUME Inv, Order, Backed, [Next]_vars
  PROVE  Backed'
<1>0. issued \subseteq issued'
  BY IssuedGrows DEF KmsSigns
<1>1. \A p \in Payout : HasNumber(p) => alloc'[p].seq = alloc[p].seq
  BY NumbersStay
<1>2. ASSUME NEW w \in Worker, task'[w].at \in {"complete", "record"}
      PROVE  Signature(task[w])' \in issued'
  <2>1. /\ task'[w].p = task[w].p /\ task'[w].amt = task[w].amt /\ task[w].at # "idle"
        /\ \/ task[w].at \in {"complete", "record"}
           \/ task[w].at = "kms" /\ issued' = issued \cup {Signature(task[w])}
           \/ /\ task[w].at = "claim" /\ request[task[w].p].st = "COMPLETED"
              /\ request[task[w].p].amt = task[w].amt /\ UNCHANGED alloc
    BY <1>2, HoldingSteps
  <2>2. task[w].p \in Payout
    BY <2>1 DEF Inv, Sits
  <2>3. HasNumber(task[w].p) => [p |-> task'[w].p, seq |-> alloc'[task'[w].p].seq, amt |-> task'[w].amt]
                                  = Signature(task[w])
    BY <1>1, <2>1, <2>2 DEF Signature
  <2>4. CASE task[w].at \in {"complete", "record", "kms"}
    <3>1. HasNumber(task[w].p)
      BY <2>4 DEF Inv, Sits
    <3>2. Signature(task[w]) \in issued'
      BY <1>0, <2>1, <2>4 DEF Backed
    <3> QED BY <2>3, <3>1, <3>2 DEF Signature
  <2>5. CASE task[w].at = "claim"
    <3>1. Requested(task[w].p) \in issued /\ request[task[w].p].amt = task[w].amt /\ UNCHANGED alloc
      BY <2>1, <2>2, <2>5 DEF Backed
    <3> QED BY <1>0, <2>1, <3>1 DEF Requested, Signature
  <2> QED BY <2>1, <2>4, <2>5
<1>3. ASSUME NEW p \in Payout, request'[p].st = "COMPLETED"
      PROVE  Requested(p)' \in issued'
  <2>1. request'[p].amt = request[p].amt
    BY <1>3, FinishingSteps
  <2>2. CASE request[p].st = "COMPLETED"
    <3>1. HasNumber(p) /\ Requested(p) \in issued
      BY <2>2 DEF Inv, Numbered, IsAsked, Backed
    <3> QED BY <1>0, <1>1, <2>1, <3>1 DEF Requested
  <2>3. CASE \E w \in Worker : task[w].at = "complete" /\ task[w].p = p
    <3>1. PICK w \in Worker : task[w].at = "complete" /\ task[w].p = p
      BY <2>3
    <3>2. HasNumber(p) /\ request[p].amt = task[w].amt /\ Signature(task[w]) \in issued
      BY <3>1 DEF Inv, Sits, Backed
    <3>3. Signature(task[w]) = Requested(p)
      BY <3>1, <3>2 DEF Signature, Requested
    <3> QED BY <1>0, <1>1, <2>1, <3>2, <3>3 DEF Requested
  <2> QED BY <1>3, <2>2, <2>3, FinishingSteps
<1>4. ASSUME NEW p \in Payout, status'[p] # "RESERVED"
      PROVE  Recorded(p)' \in issued'
  <2>1. CASE \E w \in Worker :
              /\ task[w].at = "record"
              /\ status' = [status EXCEPT ![task[w].p] = "SIGNED"]
              /\ sig' = [sig EXCEPT ![task[w].p] = [seq |-> alloc[task[w].p].seq, amt |-> task[w].amt]]
    <3>1. PICK w \in Worker :
              /\ task[w].at = "record"
              /\ status' = [status EXCEPT ![task[w].p] = "SIGNED"]
              /\ sig' = [sig EXCEPT ![task[w].p] = [seq |-> alloc[task[w].p].seq, amt |-> task[w].amt]]
      BY <2>1
    <3>2. task[w].p \in Payout /\ Signature(task[w]) \in issued
      BY <3>1 DEF Inv, Sits, Backed
    <3>3. CASE p = task[w].p
      <4>1. sig'[p] = [seq |-> alloc[p].seq, amt |-> task[w].amt]
        BY <3>1, <3>2, <3>3 DEF Order, Figures
      <4> QED BY <1>0, <3>2, <3>3, <4>1 DEF Signature, Recorded
    <3>4. CASE p # task[w].p
      <4>1. sig'[p] = sig[p] /\ status[p] # "RESERVED"
        BY <1>4, <3>1, <3>4 DEF Order, Figures, Inv, Shapes
      <4> QED BY <1>0, <4>1 DEF Backed, Recorded
    <3> QED BY <3>3, <3>4
  <2>2. CASE UNCHANGED sig /\ status[p] # "RESERVED"
    BY <1>0, <2>2 DEF Backed, Recorded
  <2>3. \A w \in Worker : task[w].at \in Sends => task[w].p \in Payout /\ status[task[w].p] # "RESERVED"
    BY DEF Inv, Sits, Order, Turn, Sends
  <2>4. \/ UNCHANGED sig /\ status[p] # "RESERVED"
        \/ \E w \in Worker :
              /\ task[w].at = "record"
              /\ status' = [status EXCEPT ![task[w].p] = "SIGNED"]
              /\ sig' = [sig EXCEPT ![task[w].p] = [seq |-> alloc[task[w].p].seq, amt |-> task[w].amt]]
    BY <1>4, <2>3, StatusSteps DEF Inv, Shapes
  <2> QED BY <2>1, <2>2, <2>4
<1> QED BY <1>2, <1>3, <1>4 DEF Backed

-----------------------------------------------------------------------------
Covered == [p \in Payout |-> SignaturesFor(p)]
Carried == [p \in Payout |-> CarriedOf(p)]
Fate    == [p \in Payout |-> FateOf(p)]
Paid    == {p \in Payout : status[p] = "SETTLED"}

(* All signatures for a payout are one. *)
LEMMA OneCovered ==
  ASSUME Inv, NEW s \in issued
  PROVE  SignaturesFor(s.p) = {s}
<1>1. ASSUME NEW r \in issued, r.p = s.p PROVE r = s
  <2>1. r.seq = s.seq /\ r.amt = s.amt
    BY <1>1 DEF Inv, Vouched
  <2> QED BY <1>1, <2>1 DEF Inv, Shapes
<1> QED BY <1>1 DEF SignaturesFor

LEMMA PromiseInit == Init => Promise!Init
<1> SUFFICES ASSUME Init PROVE Promise!Init
  OBVIOUS
<1>1. Covered = [p \in Payout |-> {}] /\ Carried = [p \in Payout |-> {}]
  BY DEF Init, Covered, Carried, SignaturesFor, CarriedOf
<1>2. Fate = [p \in Payout |-> "NONE"]
  BY DEF Init, Fate, FateOf
<1>3. Paid = {}
  BY DEF Init, Paid
<1> QED BY <1>1, <1>2, <1>3 DEF Promise!Init, Covered, Carried, Fate, Paid

(* Which steps the promise sees: KMS signs, a message is posted, lands or  *)
(* is dropped, and a payout is settled.  What is recorded of a signature   *)
(* is recorded before anything is sent.                                    *)
Unseen ==
  /\ UNCHANGED <<issued, message>>
  /\ \A p \in Payout : status'[p] = "SETTLED" <=> status[p] = "SETTLED"
  /\ \A p \in Payout : sig'[p] = sig[p] \/ status[p] = "RESERVED"

LEMMA SeenSteps ==
  ASSUME Inv, Order, [Next]_vars
  PROVE  \/ Unseen
         \/ \E w \in Worker : KmsSigns(w) \/ \E outcome \in {"accepted", "ambiguous"} : SendPost(w, outcome)
         \/ \E p \in Payout : MessageLands(p) \/ MessageDropped(p) \/ Settle(p)
<1>1. status \in [Payout -> Committed \cup {"SETTLED", "FAILED"}] /\ DOMAIN sig = Payout
  BY DEF Inv, Shapes, Order, Figures
<1>2. CASE \E w \in Worker, p \in Payout : SignPrepare(w, p) \/ BroadcastGate(w, p)
  BY <1>2 DEF SignPrepare, BroadcastGate, Unseen
<1>3. CASE \E w \in Worker : ClaimFresh(w) \/ ClaimAgain(w) \/ ClaimReplayed(w) \/ ClaimRefused(w)
                             \/ KmsFails(w) \/ Complete(w)
  BY <1>3 DEF ClaimFresh, ClaimAgain, ClaimReplayed, ClaimRefused, KmsFails, Complete, Unseen
<1>4. CASE \E w \in Worker : SignRecord(w)
  BY <1>1, <1>4 DEF SignRecord, Unseen
<1>5. CASE \E w \in Worker : SendFound(w) \/ Crash(w) \/ \E outcome \in {"ambiguous", "rejected"} : SendFails(w, outcome)
  BY <1>5 DEF SendFound, Crash, SendFails, Unseen
<1>6. CASE \E w \in Worker : BroadcastRecord(w) \/ MarkUnknown(w) \/ FailRejected(w)
  BY <1>1, <1>6 DEF BroadcastRecord, MarkUnknown, FailRejected, Moves, Committed, Unseen
<1>7. CASE \E p \in Payout : FailUnseen(p)
  BY <1>1, <1>7 DEF FailUnseen, Unseen
<1>8. CASE \/ \E p \in Payout : LeaseExpires(p) \/ ValidityPasses(p)
           \/ \E p \in Payout, amt \in Locks : LockAnew(p, amt)
           \/ ExternalTransfer \/ SyncOnChain(onChain) \/ UNCHANGED vars
           \/ \E found \in SUBSET Payout : ReconcileSequenceGap(onChain, found)
  BY <1>8 DEF LeaseExpires, ValidityPasses, LockAnew, ExternalTransfer, SyncOnChain, ReconcileSequenceGap,
              vars, Unseen
<1> QED BY <1>2, <1>3, <1>4, <1>5, <1>6, <1>7, <1>8 DEF Next, SignStep, SendStep

LEMMA UnseenStutters ==
  ASSUME Inv, Order, Unseen
  PROVE  UNCHANGED Promise!vars
<1>1. Covered' = Covered /\ Fate' = Fate /\ Paid' = Paid
  BY DEF Unseen, Covered, SignaturesFor, Fate, FateOf, Paid
<1>2. ASSUME NEW p \in Payout PROVE CarriedOf(p)' = CarriedOf(p)
  BY DEF Unseen, CarriedOf, Order, Evidence
<1>3. Carried' = Carried
  BY <1>2 DEF Carried
<1> QED BY <1>1, <1>3 DEF Promise!vars, Covered, Carried, Fate, Paid

LEMMA KmsSigning ==
  ASSUME Inv, Inv', NEW w \in Worker, KmsSigns(w)
  PROVE  [Promise!Next]_(Promise!vars)
<1>0. PICK p \in Payout : p = task[w].p
  BY DEF KmsSigns, Inv, Sits
<1>a. Signature(task[w]).p = p
  BY <1>0 DEF Signature
<1>b. PICK s : s = Signature(task[w])
  OBVIOUS
<1>1. p = task[w].p /\ s = Signature(task[w]) /\ s.p = p
  BY <1>0, <1>a, <1>b
<1>2. issued' = issued \cup {s} /\ UNCHANGED <<pipelineVars, message>>
  BY <1>1 DEF KmsSigns
<1>3. Carried' = Carried /\ Fate' = Fate /\ Paid' = Paid
  BY <1>2 DEF Carried, CarriedOf, Fate, FateOf, Paid
<1>4. SignaturesFor(p)' = {s}
  <2>1. \A r \in issued' : r.p = p => r = s
    <3>1. SUFFICES ASSUME NEW r \in issued', r.p = p PROVE r = s
      OBVIOUS
    <3>2. s \in issued' /\ r.amt = s.amt /\ r.seq = s.seq
      BY <1>1, <1>2, <3>1 DEF Inv, Vouched
    <3> QED BY <1>1, <3>1, <3>2 DEF Inv, Shapes
  <2> QED BY <1>1, <1>2, <2>1 DEF SignaturesFor
<1>5. \A q \in Payout \ {p} : SignaturesFor(q)' = SignaturesFor(q)
  BY <1>1, <1>2 DEF SignaturesFor
<1>6. CASE SignaturesFor(p) = {}
  <2>1. Covered[p] = {} /\ s \in Covered'[p] /\ Covered' = [Covered EXCEPT ![p] = {s}]
    BY <1>4, <1>5, <1>6 DEF Covered
  <2>2. Promise!Sign(p)
    BY <1>3, <2>1 DEF Promise!Sign, Covered, Carried, Fate, Paid
  <2> QED BY <2>2 DEF Promise!Next
<1>7. CASE SignaturesFor(p) # {}
  <2>1. SignaturesFor(p) \subseteq SignaturesFor(p)'
    BY <1>2 DEF SignaturesFor
  <2>2. SignaturesFor(p)' = SignaturesFor(p)
    BY <1>4, <1>7, <2>1
  <2>3. Covered' = Covered
    BY <1>5, <2>2 DEF Covered
  <2> QED BY <1>3, <2>3 DEF Promise!vars, Covered, Carried, Fate, Paid
<1> QED BY <1>6, <1>7

LEMMA Sending ==
  ASSUME Inv, Order, Backed, NEW w \in Worker, NEW outcome, SendPost(w, outcome)
  PROVE  [Promise!Next]_(Promise!vars)
<1>1. PICK p \in Payout : p = task[w].p /\ status[p] # "RESERVED"
  BY DEF SendPost, Inv, Sits, Order, Turn, Sends
<1>0. CASE message[p] \notin {"NONE", "DROPPED"}
  <2>1. UNCHANGED <<pipelineVars, issued, message>>
    BY <1>0, <1>1 DEF SendPost
  <2> QED BY <2>1, UnseenStutters DEF Unseen, pipelineVars
<1> SUFFICES ASSUME message[p] \in {"NONE", "DROPPED"} PROVE Promise!Next
  BY <1>0
<1>2. /\ message[p] \in {"NONE", "DROPPED"} /\ message' = [message EXCEPT ![p] = "PENDING"]
      /\ UNCHANGED <<pipelineVars, issued>>
  BY <1>1 DEF SendPost
<1>3. Recorded(p) \in issued /\ Recorded(p).p = p
  BY <1>1 DEF Backed, Recorded
<1>4. SignaturesFor(p) = {Recorded(p)}
  BY <1>3, OneCovered
<1>5. message'[p] = "PENDING" /\ \A q \in Payout \ {p} : message'[q] = message[q]
  BY <1>2 DEF Order, Evidence
<1>6. Carried' = [Carried EXCEPT ![p] = {Recorded(p)}]
  BY <1>2, <1>5 DEF Carried, CarriedOf, Recorded
<1>7. Fate' = [Fate EXCEPT ![p] = "SENT"] /\ Fate[p] \in {"NONE", "LOST"}
  BY <1>2, <1>5 DEF Fate, FateOf
<1>8. Covered' = Covered /\ Paid' = Paid /\ Covered[p] = {Recorded(p)}
  BY <1>2, <1>4 DEF Covered, SignaturesFor, Paid
<1>9. Promise!Send(p)
  BY <1>6, <1>7, <1>8 DEF Promise!Send, Covered, Carried, Fate, Paid
<1> QED BY <1>9 DEF Promise!Next

LEMMA Ending ==
  ASSUME Inv, Order, NEW p \in Payout, MessageLands(p) \/ MessageDropped(p) \/ Settle(p)
  PROVE  Promise!Next
<1>1. UNCHANGED <<sig, issued>> /\ Covered' = Covered
  BY DEF MessageLands, MessageDropped, Settle, Covered, SignaturesFor
<1>2. CASE MessageLands(p) \/ MessageDropped(p)
  <2>1. PICK end \in {"LANDED", "DROPPED"} :
          message[p] = "PENDING" /\ message' = [message EXCEPT ![p] = end] /\ UNCHANGED status
          /\ (end = "LANDED" <=> MessageLands(p))
    BY <1>2 DEF MessageLands, MessageDropped
  <2>2. message'[p] = end /\ \A q \in Payout \ {p} : message'[q] = message[q]
    BY <2>1 DEF Order, Evidence
  <2>3. Carried' = Carried /\ Paid' = Paid
    BY <1>1, <2>1, <2>2 DEF Carried, CarriedOf, Paid
  <2>4. Fate[p] = "SENT" /\ Fate' = [Fate EXCEPT ![p] = IF end = "LANDED" THEN "LANDED" ELSE "LOST"]
    BY <2>1, <2>2 DEF Fate, FateOf
  <2>5. Promise!Land(p) \/ Promise!Lose(p)
    BY <1>1, <2>1, <2>3, <2>4 DEF Promise!Land, Promise!Lose, Covered, Carried, Fate, Paid
  <2> QED BY <2>5 DEF Promise!Next
<1>3. CASE Settle(p)
  <2>1. message[p] = "LANDED" /\ status' = [status EXCEPT ![p] = "SETTLED"] /\ UNCHANGED message
    BY <1>3 DEF Settle
  <2>2. Carried' = Carried /\ Fate' = Fate /\ Fate[p] = "LANDED"
    BY <1>1, <2>1 DEF Carried, CarriedOf, Fate, FateOf
  <2>3. Paid' = Paid \cup {p}
    BY <2>1 DEF Paid, Inv, Shapes
  <2>4. Promise!Pay(p)
    BY <1>1, <2>2, <2>3 DEF Promise!Pay, Covered, Carried, Fate, Paid
  <2> QED BY <2>4 DEF Promise!Next
<1> QED BY <1>2, <1>3

LEMMA NextPromise ==
  ASSUME Inv, Order, Backed, Inv', [Next]_vars
  PROVE  [Promise!Next]_(Promise!vars)
<1>1. CASE Unseen
  BY <1>1, UnseenStutters
<1>2. CASE \E w \in Worker : KmsSigns(w)
  BY <1>2, KmsSigning
<1>3. CASE \E w \in Worker, outcome \in {"accepted", "ambiguous"} : SendPost(w, outcome)
  BY <1>3, Sending
<1>4. CASE \E p \in Payout : MessageLands(p) \/ MessageDropped(p) \/ Settle(p)
  BY <1>4, Ending
<1> QED BY <1>1, <1>2, <1>3, <1>4, SeenSteps

(* Leases, tokens, numbers and the gate implement TransferPromise: what    *)
(* leaves is always the one message the payout was signed for, however     *)
(* often it is signed, whatever is locked anew, and although a lookup that *)
(* fails has it posted again (AwsKmsEd25519Signer, broadcastPayout, send). *)
THEOREM KeepsTransferPromiseHolds == Spec => KeepsTransferPromise
<1>1. Init => Inv /\ Order /\ Backed
  BY InitInv, OrderInit, BackedInit
<1>2. Inv /\ Order /\ Backed /\ [Next]_vars => (Inv /\ Order /\ Backed)'
  BY NextInv, OrderNext, BackedNext
<1>3. Inv /\ Order /\ Backed /\ Inv' /\ [Next]_vars => [Promise!Next]_(Promise!vars)
  BY NextPromise
<1> QED BY <1>1, <1>2, <1>3, PromiseInit, PTL DEF Spec, KeepsTransferPromise, Promise!Spec
=============================================================================
