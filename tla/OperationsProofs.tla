-------------------------- MODULE OperationsProofs --------------------------
(***************************************************************************)
(* Theorems about Operations, for any admins, approvals and deposits,      *)
(* however often roles change, the API stops and the books are out of      *)
(* balance.                                                                *)
(***************************************************************************)
EXTENDS Operations, Sums, TLAPS

USE DEF Funding, Books

(***************************************************************************)
(* The inductive invariant.  A credit has two names because whoever makes  *)
(* it still holds the decision he took (Holds), and a decision always has  *)
(* two names (DecidedByTwo); a decision stands for the same reason: who is *)
(* about to write EXECUTED finds the row APPROVED, by himself.             *)
(***************************************************************************)
Steps == {"idle", "request", "approve", "fund", "execute", "reject", "freeze", "unfreeze",
          "lift", "resolve"}

Row    == [st : Statuses, by : Admin \cup {NoAdmin}, decidedBy : Admin \cup {NoAdmin},
           expired : BOOLEAN]
Errand == [at : Steps, role : Role \cup {"NONE"}, about : Approval \cup {"none"}]

Shapes ==
  /\ role \in [Admin -> Role \cup {"NONE"}]
  /\ approval \in [Approval -> Row]
  /\ credited \in [Hash -> Nat]
  /\ task \in [Admin -> Errand]

(* What an admin in the middle of a request relies on. *)
Holds(a) ==
  LET x == task[a].about
  IN /\ task[a].at \in {"request", "approve", "reject", "fund", "execute"} => x \in Approval
     /\ task[a].at \in {"fund", "execute"} => approval[x].st = "APPROVED" /\ approval[x].decidedBy = a
     /\ task[a].at = "execute" => credited[HashOf[x]] > 0

(* Nobody approves his own request, and a pending one has its first name.  *)
DecidedByTwo ==
  \A x \in Approval :
    /\ approval[x].st # "NONE" => approval[x].by \in Admin
    /\ approval[x].st \in {"APPROVED", "EXECUTED"} =>
         approval[x].decidedBy \in Admin /\ approval[x].by # approval[x].decidedBy

Inv ==
  /\ Shapes
  /\ \A a \in Admin : Holds(a)
  /\ DecidedByTwo
  /\ CreditedByTwo
  /\ ExecutedIsCredited

(* What the other admins see of a step: the row they decided is as it was, *)
(* and what was credited stays credited.                                   *)
Kept(x) ==
  /\ approval'[x].st = approval[x].st /\ approval'[x].decidedBy = approval[x].decidedBy
  /\ approval'[x].by = approval[x].by

-----------------------------------------------------------------------------
LEMMA InitInv == Init => Inv
BY OperationsAssumption, NoAdminAssumption
   DEF Init, OperationsAssumption, NoAdminAssumption, Inv, Shapes, Row, Errand, Holds, DecidedByTwo,
       CreditedByTwo, ExecutedIsCredited, Statuses, Steps, Free, Role

LEMMA FreeIsErrand == Free \in Errand
BY DEF Free, Errand, Steps

(* A decided row that keeps its names vouches for what it vouched for.     *)
LEMMA CreditsKept ==
  ASSUME CreditedByTwo, UNCHANGED credited,
         \A x \in Approval : approval[x].st \in {"APPROVED", "EXECUTED"} =>
           /\ approval'[x].st \in {"APPROVED", "EXECUTED"}
           /\ approval'[x].by = approval[x].by /\ approval'[x].decidedBy = approval[x].decidedBy
  PROVE  CreditedByTwo'
BY DEF CreditedByTwo

(* A step that leaves rows and credits alone, and in which an admin goes   *)
(* on to something that relies on nothing new.                             *)
LEMMA TaskInv ==
  ASSUME Inv, Shapes', UNCHANGED <<approval, credited>>,
         \A a \in Admin : Holds(a)'
  PROVE  Inv'
BY DEF Inv, DecidedByTwo, CreditedByTwo, ExecutedIsCredited

LEMMA AuthenticateInv ==
  ASSUME Inv, NEW a \in Admin, NEW kind \in Kinds, NEW x \in Approval \cup {"none"},
         Authenticate(a, kind, x)
  PROVE  Inv'
<1>1. kind \in Steps /\ kind \notin {"fund", "execute"}
  BY OperationsAssumption DEF OperationsAssumption, Steps
<1>2. task' = [task EXCEPT ![a] = [at |-> kind, role |-> role[a], about |-> x]]
  BY DEF Authenticate
<1>3. Shapes'
  BY <1>1, <1>2 DEF Inv, Shapes, Row, Errand, Authenticate
<1>4. UNCHANGED <<approval, credited>>
  BY DEF Authenticate
<1>5. ASSUME NEW b \in Admin PROVE Holds(b)'
  <2>1. CASE b = a
    BY <2>1, <1>1, <1>2 DEF Inv, Shapes, Row, Errand, Holds, Authenticate
  <2>2. CASE b # a
    BY <2>2, <1>2, <1>4 DEF Inv, Shapes, Row, Errand, Holds
  <2> QED BY <2>1, <2>2
<1> QED BY <1>3, <1>4, <1>5, TaskInv

(* A step of one admin that leaves rows and credits alone.                 *)
LEMMA StepInv ==
  ASSUME Inv, NEW a \in Admin, UNCHANGED <<role, approval, credited>>,
         \/ Done(a)
         \/ /\ Go(a, "lift")
  PROVE  Inv'
<1>1. Shapes'
  BY DEF Inv, Shapes, Row, Errand, Done, Go, Free, Steps
<1>2. ASSUME NEW b \in Admin PROVE Holds(b)'
  <2>1. CASE b = a
    BY <2>1 DEF Inv, Shapes, Row, Errand, Holds, Done, Go, Free
  <2>2. CASE b # a
    BY <2>2 DEF Inv, Shapes, Row, Errand, Holds, Done, Go
  <2> QED BY <2>1, <2>2
<1> QED BY <1>1, <1>2, TaskInv

(* A step in which no row changes its status and no task and credit moves. *)
LEMMA RowsInv ==
  ASSUME Inv, Shapes', UNCHANGED <<task, credited>>, \A x \in Approval : Kept(x)
  PROVE  Inv'
<1>1. \A a \in Admin : Holds(a)'
  BY DEF Inv, Holds, Kept
<1>2. DecidedByTwo'
  BY DEF Inv, DecidedByTwo, Kept
<1>3. CreditedByTwo'
  BY DEF Inv, CreditedByTwo, Kept
<1>4. ExecutedIsCredited'
  BY DEF Inv, ExecutedIsCredited, Kept
<1> QED BY <1>1, <1>2, <1>3, <1>4 DEF Inv

-----------------------------------------------------------------------------
LEMMA RequestInv ==
  ASSUME Inv, NEW a \in Admin, Request(a)
  PROVE  Inv'
<1> DEFINE x == task[a].about
<1>1. /\ x \in Approval /\ approval[x].st = "NONE"
      /\ approval' = [approval EXCEPT ![x].st = "PENDING", ![x].by = a]
      /\ task' = [task EXCEPT ![a] = Free] /\ UNCHANGED <<role, credited>>
  BY DEF Request, Inv, Holds, Done
<1> HIDE DEF x
<1>2. Shapes'
  <2>1. approval' \in [Approval -> Row]
    BY <1>1 DEF Inv, Shapes, Row, Statuses
  <2>2. task' \in [Admin -> Errand]
    BY <1>1, FreeIsErrand DEF Inv, Shapes
  <2> QED BY <1>1, <2>1, <2>2 DEF Inv, Shapes, Row, Errand
<1>3. approval'[x].st = "PENDING" /\ approval'[x].by = a
  BY <1>1 DEF Inv, Shapes, Row, Errand
<1>4. \A y \in Approval : y # x => approval'[y] = approval[y]
  BY <1>1 DEF Inv, Shapes, Row, Errand
<1>5. ASSUME NEW b \in Admin PROVE Holds(b)'
  <2>1. CASE b = a
    BY <2>1, <1>1 DEF Inv, Shapes, Row, Errand, Holds, Free
  <2>2. CASE b # a
    BY <2>2, <1>1, <1>4 DEF Inv, Shapes, Row, Errand, Holds
  <2> QED BY <2>1, <2>2
<1>6. DecidedByTwo'
  BY <1>3, <1>4 DEF Inv, DecidedByTwo
<1>7. CreditedByTwo'
  BY <1>1, <1>4, CreditsKept DEF Inv
<1>8. ExecutedIsCredited'
  BY <1>1, <1>3, <1>4 DEF Inv, ExecutedIsCredited
<1> QED BY <1>2, <1>5, <1>6, <1>7, <1>8 DEF Inv

LEMMA ApproveInv ==
  ASSUME Inv, NEW a \in Admin, ApproveClaim(a)
  PROVE  Inv'
<1> DEFINE x == task[a].about
<1>1. x \in Approval /\ UNCHANGED <<role, credited>>
  BY DEF ApproveClaim, Inv, Holds
<1>2. CASE Done(a) /\ UNCHANGED approval
  BY <1>1, <1>2, StepInv
<1>3. CASE /\ approval[x].st = "PENDING" /\ OtherThan(a, x)
           /\ approval' = [approval EXCEPT ![x].st = "APPROVED", ![x].decidedBy = a]
           /\ Go(a, NextIsFund)
  <2> HIDE DEF x
  <2>1. Shapes'
    <3>1. approval' \in [Approval -> Row]
      BY <1>1, <1>3 DEF Inv, Shapes, Row, Statuses
    <3>2. task' \in [Admin -> Errand]
      BY <1>3 DEF Inv, Shapes, Go, NextIsFund, Errand, Steps
    <3> QED BY <1>1, <3>1, <3>2 DEF Inv, Shapes, Row, Errand
  <2>2. approval'[x].st = "APPROVED" /\ approval'[x].decidedBy = a /\ approval'[x].by = approval[x].by
    BY <1>1, <1>3 DEF Inv, Shapes, Row, Errand
  <2>3. \A y \in Approval : y # x => approval'[y] = approval[y]
    BY <1>1, <1>3 DEF Inv, Shapes, Row, Errand
  <2>4. ASSUME NEW b \in Admin PROVE Holds(b)'
    <3>1. CASE b = a
      <4>1. task'[a].at = "fund" /\ task'[a].about = x
        BY <1>3 DEF Inv, Shapes, Row, Errand, Go, NextIsFund, x
      <4> QED BY <3>1, <4>1, <2>2, <1>1 DEF Holds
    <3>2. CASE b # a
      BY <3>2, <1>1, <1>3, <2>3 DEF Inv, Shapes, Row, Errand, Holds, Go
    <3> QED BY <3>1, <3>2
  <2>5. DecidedByTwo'
    BY <1>1, <1>3, <2>2, <2>3 DEF Inv, DecidedByTwo, OtherThan
  <2>6. CreditedByTwo'
    BY <1>1, <1>3, <2>3, CreditsKept DEF Inv
  <2>7. ExecutedIsCredited'
    BY <1>1, <2>2, <2>3 DEF Inv, ExecutedIsCredited
  <2> QED BY <2>1, <2>4, <2>5, <2>6, <2>7 DEF Inv
<1> QED BY <1>2, <1>3 DEF ApproveClaim

LEMMA FundInv ==
  ASSUME Inv, NEW a \in Admin, Fund(a)
  PROVE  Inv'
<1> DEFINE x == task[a].about
<1>1. /\ x \in Approval /\ approval[x].st = "APPROVED" /\ approval[x].decidedBy = a
      /\ task' = [task EXCEPT ![a].at = "execute"] /\ UNCHANGED <<role, approval>>
  BY DEF Fund, Inv, Holds, Go
<1>2. HashOf[x] \in Hash /\ AmountOf[x] \in Nat /\ AmountOf[x] > 0
  BY <1>1, OperationsAssumption DEF OperationsAssumption
<1>3. credited' = IF Fresh(x) THEN [credited EXCEPT ![HashOf[x]] = AmountOf[x]] ELSE credited
  BY DEF Fund
<1>4. Shapes' /\ credited'[HashOf[x]] > 0
  <2>1. Shapes'
    BY <1>1, <1>2, <1>3 DEF Inv, Shapes, Row, Errand, Steps
  <2>2. credited'[HashOf[x]] > 0
    BY <1>2, <1>3 DEF Inv, Shapes, Row, Errand, Fresh
  <2> QED BY <2>1, <2>2
<1>5. \A h \in Hash : credited[h] > 0 => credited'[h] = credited[h]
  BY <1>2, <1>3 DEF Inv, Shapes, Row, Errand, Fresh
<1>6. \A h \in Hash : credited'[h] # credited[h] => h = HashOf[x] /\ credited'[h] = AmountOf[x]
  BY <1>2, <1>3 DEF Inv, Shapes, Row, Errand, Fresh
<1>7. task'[a].about = x /\ \A b \in Admin : b # a => task'[b] = task[b]
  BY <1>1 DEF Inv, Shapes, Row, Errand
<1> HIDE DEF x
<1>8. ASSUME NEW b \in Admin PROVE Holds(b)'
  <2>1. CASE b = a
    BY <2>1, <1>1, <1>4, <1>7 DEF Holds
  <2>2. CASE b # a
    <3>1. task[b].at = "execute" => HashOf[task[b].about] \in Hash
      BY OperationsAssumption DEF Inv, Holds, OperationsAssumption
    <3> QED BY <2>2, <3>1, <1>1, <1>5, <1>7 DEF Inv, Holds
  <2> QED BY <2>1, <2>2
<1>9. DecidedByTwo'
  BY <1>1 DEF Inv, DecidedByTwo
<1>10. CreditedByTwo'
  <2> SUFFICES ASSUME NEW h \in Hash, credited'[h] > 0
               PROVE  \E y \in Approval :
                        /\ HashOf[y] = h /\ AmountOf[y] = credited'[h]
                        /\ approval'[y].st \in {"APPROVED", "EXECUTED"}
                        /\ approval'[y].by # approval'[y].decidedBy
                        /\ NoAdmin \notin {approval'[y].by, approval'[y].decidedBy}
    BY DEF CreditedByTwo
  <2>1. CASE credited'[h] = credited[h]
    BY <2>1, <1>1 DEF Inv, CreditedByTwo
  <2>2. CASE credited'[h] # credited[h]
    <3>1. h = HashOf[x] /\ credited'[h] = AmountOf[x]
      BY <2>2, <1>6
    <3>2. approval[x].by \in Admin /\ approval[x].by # a
      BY <1>1 DEF Inv, DecidedByTwo
    <3> QED BY <3>1, <3>2, <1>1, NoAdminAssumption DEF NoAdminAssumption
  <2> QED BY <2>1, <2>2
<1>11. ExecutedIsCredited'
  <2>1. \A y \in Approval : HashOf[y] \in Hash
    BY OperationsAssumption DEF OperationsAssumption
  <2> QED BY <2>1, <1>1, <1>5 DEF Inv, ExecutedIsCredited
<1> QED BY <1>4, <1>8, <1>9, <1>10, <1>11 DEF Inv

LEMMA ExecuteInv ==
  ASSUME Inv, NEW a \in Admin, Execute(a)
  PROVE  Inv'
<1> DEFINE x == task[a].about
<1>1. /\ x \in Approval /\ approval[x].st = "APPROVED" /\ approval[x].decidedBy = a
      /\ credited[HashOf[x]] > 0
      /\ approval' = [approval EXCEPT ![x].st = "EXECUTED"]
      /\ task' = [task EXCEPT ![a] = Free] /\ UNCHANGED <<role, credited>>
  BY DEF Execute, Inv, Holds, Done
<1> HIDE DEF x
<1>2. Shapes'
  <2>1. approval' \in [Approval -> Row]
    BY <1>1 DEF Inv, Shapes, Row, Statuses
  <2>2. task' \in [Admin -> Errand]
    BY <1>1, FreeIsErrand DEF Inv, Shapes
  <2> QED BY <1>1, <2>1, <2>2 DEF Inv, Shapes, Row, Errand
<1>3. /\ approval'[x].st = "EXECUTED" /\ approval'[x].by = approval[x].by
      /\ approval'[x].decidedBy = a
  BY <1>1 DEF Inv, Shapes, Row, Errand
<1>4. \A y \in Approval : y # x => approval'[y] = approval[y]
  BY <1>1 DEF Inv, Shapes, Row, Errand
<1>5. ASSUME NEW b \in Admin PROVE Holds(b)'
  <2>1. CASE b = a
    BY <2>1, <1>1 DEF Inv, Shapes, Row, Errand, Holds, Free
  <2>2. CASE b # a
    <3>1. task[b].at \in {"fund", "execute"} => task[b].about # x
      BY <2>2, <1>1 DEF Inv, Holds
    <3> QED BY <2>2, <3>1, <1>1, <1>4 DEF Inv, Shapes, Row, Errand, Holds
  <2> QED BY <2>1, <2>2
<1>6. DecidedByTwo'
  BY <1>1, <1>3, <1>4 DEF Inv, DecidedByTwo
<1>7. CreditedByTwo'
  BY <1>1, <1>3, <1>4, CreditsKept DEF Inv
<1>8. ExecutedIsCredited'
  BY <1>1, <1>3, <1>4 DEF Inv, ExecutedIsCredited
<1> QED BY <1>2, <1>5, <1>6, <1>7, <1>8 DEF Inv

LEMMA RejectInv ==
  ASSUME Inv, NEW a \in Admin, Reject(a)
  PROVE  Inv'
<1> DEFINE x == task[a].about
<1>1. x \in Approval /\ Done(a) /\ UNCHANGED <<role, credited>>
  BY DEF Reject, Inv, Holds
<1>2. CASE UNCHANGED approval
  BY <1>1, <1>2, StepInv
<1>3. CASE /\ approval[x].st = "PENDING"
           /\ approval' = [approval EXCEPT ![x].st = "REJECTED", ![x].decidedBy = a]
  <2> HIDE DEF x
  <2>1. Shapes'
    <3>1. approval' \in [Approval -> Row]
      BY <1>1, <1>3 DEF Inv, Shapes, Row, Statuses
    <3>2. task' \in [Admin -> Errand]
      BY <1>1, FreeIsErrand DEF Inv, Shapes, Done
    <3> QED BY <1>1, <3>1, <3>2 DEF Inv, Shapes, Row, Errand
  <2>2. approval'[x].st = "REJECTED" /\ approval'[x].by = approval[x].by
    BY <1>1, <1>3 DEF Inv, Shapes, Row, Errand
  <2>3. \A y \in Approval : y # x => approval'[y] = approval[y]
    BY <1>1, <1>3 DEF Inv, Shapes, Row, Errand
  <2>4. ASSUME NEW b \in Admin PROVE Holds(b)'
    <3>1. CASE b = a
      BY <3>1, <1>1 DEF Inv, Shapes, Row, Errand, Holds, Done, Free
    <3>2. CASE b # a
      BY <3>2, <1>1, <1>3, <2>3 DEF Inv, Shapes, Row, Errand, Holds, Done
    <3> QED BY <3>1, <3>2
  <2>5. DecidedByTwo'
    BY <1>3, <2>2, <2>3, <1>1 DEF Inv, DecidedByTwo
  <2>6. CreditedByTwo'
    BY <1>1, <1>3, <2>3, CreditsKept DEF Inv
  <2>7. ExecutedIsCredited'
    BY <1>1, <2>2, <2>3 DEF Inv, ExecutedIsCredited
  <2> QED BY <2>1, <2>4, <2>5, <2>6, <2>7 DEF Inv
<1> QED BY <1>2, <1>3 DEF Reject, Rejectable

-----------------------------------------------------------------------------
(* The steps that touch neither rows nor credits.                          *)
LEMMA OtherInv ==
  ASSUME Inv, NEW a \in Admin,
         Freeze(a) \/ UnfreezeCount(a) \/ UnfreezeLift(a) \/ Resolve(a) \/ Crash(a)
  PROVE  Inv'
<1>1. (Done(a) \/ Go(a, "lift")) /\ UNCHANGED <<role, approval, credited>>
  BY DEF Freeze, UnfreezeCount, UnfreezeLift, Resolve, Crash
<1> QED BY <1>1, StepInv

LEMMA WorldInv ==
  ASSUME Inv,
         \/ Sweep \/ Corrupt \/ Correct
         \/ \E a \in Admin, r \in {"SUPER_ADMIN", "NONE"} : Appoint(a, r)
         \/ \E x \in Approval : Expire(x)
         \/ UNCHANGED vars
  PROVE  Inv'
<1>1. CASE Sweep \/ Corrupt \/ Correct \/ UNCHANGED vars
  <2>1. UNCHANGED <<role, approval, credited, task>>
    BY <1>1 DEF Sweep, SweepVerify, SweepRecord, SweepFreeze, Corrupt, Correct, vars
  <2> QED BY <2>1, RowsInv DEF Inv, Shapes, Kept
<1>2. CASE \E a \in Admin, r \in {"SUPER_ADMIN", "NONE"} : Appoint(a, r)
  <2>1. PICK a \in Admin, r \in {"SUPER_ADMIN", "NONE"} : Appoint(a, r)
    BY <1>2
  <2>2. Shapes'
    BY <2>1 DEF Appoint, Inv, Shapes, Row, Errand, Role
  <2> QED BY <2>1, <2>2, RowsInv DEF Appoint, Kept
<1>3. CASE \E x \in Approval : Expire(x)
  <2>1. PICK x \in Approval : Expire(x)
    BY <1>3
  <2>2. Shapes'
    BY <2>1 DEF Expire, Inv, Shapes, Row, Errand
  <2>3. \A y \in Approval : Kept(y)
    BY <2>1 DEF Expire, Kept, Inv, Shapes, Row, Errand
  <2> QED BY <2>1, <2>2, <2>3, RowsInv DEF Expire
<1> QED BY <1>1, <1>2, <1>3

LEMMA NextInv ==
  ASSUME Inv, [Next]_vars
  PROVE  Inv'
<1>1. CASE \E a \in Admin, kind \in Kinds, x \in Approval \cup {"none"} : Authenticate(a, kind, x)
  BY <1>1, AuthenticateInv
<1>2. CASE \E a \in Admin : Request(a) \/ ApproveClaim(a) \/ Fund(a) \/ Execute(a) \/ Reject(a)
  BY <1>2, RequestInv, ApproveInv, FundInv, ExecuteInv, RejectInv
<1>3. CASE \E a \in Admin :
             Freeze(a) \/ UnfreezeCount(a) \/ UnfreezeLift(a) \/ Resolve(a) \/ Crash(a)
  BY <1>3, OtherInv
<1>4. CASE \/ Sweep \/ Corrupt \/ Correct \/ UNCHANGED vars
           \/ \E a \in Admin, r \in {"SUPER_ADMIN", "NONE"} : Appoint(a, r)
           \/ \E x \in Approval : Expire(x)
  BY <1>4, WorldInv
<1> QED BY <1>1, <1>2, <1>3, <1>4 DEF Next

(* The invariant of the four-eyes funding holds. *)
THEOREM InvHolds == Spec => []Inv
<1>1. Inv /\ [Next]_vars => Inv'
  BY NextInv
<1> QED BY <1>1, InitInv, PTL DEF Spec

(* Every credit of the treasury was asked for by one admin and agreed to   *)
(* by another (requestTreasuryFunding, approveTreasuryFunding).            *)
THEOREM CreditedByTwoHolds == Spec => []CreditedByTwo
<1>1. Inv => CreditedByTwo
  BY DEF Inv
<1> QED BY <1>1, InvHolds, PTL

(* An approval that says EXECUTED has brought its deposit in               *)
(* (approveTreasuryFunding, recordManualTreasuryFunding).                  *)
THEOREM ExecutedIsCreditedHolds == Spec => []ExecutedIsCredited
<1>1. Inv => ExecutedIsCredited
  BY DEF Inv
<1> QED BY <1>1, InvHolds, PTL

-----------------------------------------------------------------------------
(* Only who approved a row moves it on.                                    *)
Stands(x) ==
  /\ approval[x].st \in {"REJECTED", "EXECUTED"} => approval'[x] = approval[x]
  /\ approval[x].st = "APPROVED" => /\ approval'[x].st \in {"APPROVED", "EXECUTED"}
                                    /\ approval'[x].decidedBy = approval[x].decidedBy

LEMMA RowsStand ==
  ASSUME Inv, [Next]_vars, NEW x \in Approval
  PROVE  Stands(x)
<1>1. CASE UNCHANGED approval
  BY <1>1 DEF Stands
<1>2. CASE \E a \in Admin : Request(a) \/ ApproveClaim(a) \/ Reject(a)
  <2>1. PICK a \in Admin : Request(a) \/ ApproveClaim(a) \/ Reject(a)
    BY <1>2
  <2>2. CASE x = task[a].about
    <3>1. approval'[x] = approval[x] \/ approval[x].st \in {"NONE", "PENDING"}
      BY <2>1, <2>2 DEF Request, ApproveClaim, Reject, Rejectable
    <3> QED BY <3>1 DEF Stands
  <2>3. CASE x # task[a].about
    <3>1. approval'[x] = approval[x]
      BY <2>1, <2>3 DEF Request, ApproveClaim, Reject, Inv, Shapes, Row, Errand
    <3> QED BY <3>1 DEF Stands
  <2> QED BY <2>2, <2>3
<1>3. CASE \E a \in Admin : Execute(a)
  <2>1. PICK a \in Admin : Execute(a)
    BY <1>3
  <2>2. task[a].about \in Approval /\ approval[task[a].about].st = "APPROVED"
    BY <2>1 DEF Execute, Inv, Holds
  <2>3. approval' = [approval EXCEPT ![task[a].about].st = "EXECUTED"]
    BY <2>1 DEF Execute
  <2> QED BY <2>2, <2>3 DEF Stands, Inv, Shapes, Row, Errand
<1>4. CASE \E y \in Approval : Expire(y)
  <2>1. PICK y \in Approval : Expire(y)
    BY <1>4
  <2>2. approval[y].st = "PENDING" /\ (x # y => approval'[x] = approval[x])
    BY <2>1 DEF Expire, Inv, Shapes, Row, Errand
  <2> QED BY <2>2 DEF Stands
<1>5. UNCHANGED approval
      \/ (\E a \in Admin : Request(a) \/ ApproveClaim(a) \/ Reject(a) \/ Execute(a))
      \/ \E y \in Approval : Expire(y)
  BY DEF Next, vars, Authenticate, Fund, Freeze, UnfreezeCount, UnfreezeLift, Resolve, Crash,
         Appoint, Sweep, SweepVerify, SweepRecord, SweepFreeze, Corrupt, Correct
<1> QED BY <1>1, <1>2, <1>3, <1>4, <1>5

(* Of two admins who decide at the same time one is refused, and what was  *)
(* approved can only become executed (the conditional UPDATE of            *)
(* approveTreasuryFunding and rejectApproval).                             *)
THEOREM DecisionStandsHolds == Spec => DecisionStands
<1>1. Inv /\ [Next]_vars => [\A x \in Approval : Stands(x)]_vars
  BY RowsStand
<1>2. Spec => [][\A x \in Approval : Stands(x)]_vars
  BY <1>1, InvHolds, PTL DEF Spec
<1> QED BY <1>2 DEF DecisionStands, Stands

-----------------------------------------------------------------------------
(***************************************************************************)
(* The money of the treasury.  It is the sum of what its deposits brought, *)
(* because a deposit is credited in the transaction that adds to it, once. *)
(***************************************************************************)
LEMMA MinIsBetween ==
  ASSUME NEW n \in Int, NEW m \in Int
  PROVE  Min({n, m}) \in {n, m} /\ Min({n, m}) <= n /\ Min({n, m}) <= m
<1>1. \E x \in {n, m} : \A y \in {n, m} : x <= y
  <2>1. CASE n <= m
    BY <2>1
  <2>2. CASE m <= n
    BY <2>2
  <2> QED BY <2>1, <2>2
<1>2. Min({n, m}) \in {n, m} /\ \A y \in {n, m} : Min({n, m}) <= y
  BY <1>1 DEF Min
<1> QED BY <1>2

LEMMA MaxIsBetween ==
  ASSUME NEW n \in Int, NEW m \in Int
  PROVE  Max({n, m}) \in {n, m} /\ n <= Max({n, m}) /\ m <= Max({n, m})
<1>1. \E x \in {n, m} : \A y \in {n, m} : y <= x
  <2>1. CASE n <= m
    BY <2>1
  <2>2. CASE m <= n
    BY <2>2
  <2> QED BY <2>1, <2>2
<1>2. Max({n, m}) \in {n, m} /\ \A y \in {n, m} : y <= Max({n, m})
  BY <1>1 DEF Max
<1> QED BY <1>2

LEMMA TreasuryIsSum ==
  /\ TreasuryIsCredited <=> treasury = SumFunctionOnSet(credited, Hash)
  /\ TreasuryIsCredited' <=> treasury' = SumFunctionOnSet(credited', Hash)
<1>1. TreasuryIsCredited <=> treasury = SumFunctionOnSet(credited, Hash)
  BY DEF TreasuryIsCredited, MapThenSumSet, MapThenFoldSet, SumFunctionOnSet, FoldFunctionOnSet
<1>2. TreasuryIsCredited' <=> treasury' = SumFunctionOnSet(credited', Hash)
  BY DEF TreasuryIsCredited, MapThenSumSet, MapThenFoldSet, SumFunctionOnSet, FoldFunctionOnSet
<1> QED BY <1>1, <1>2

LEMMA InitAgrees == Init => TypeOK /\ TreasuryIsCredited
<1> SUFFICES ASSUME Init PROVE TypeOK /\ TreasuryIsCredited
  OBVIOUS
<1>1. Inv
  BY InitInv
<1>2. 0 \in 0 .. Exceptions
  BY OperationsAssumption DEF OperationsAssumption
<1>3. TypeOK
  BY <1>1, <1>2 DEF Init, Inv, Shapes, Row, TypeOK, Free
<1>4. SumFunctionOnSet(credited, Hash) = 0
  BY SumOfZeros, HashAssumption DEF HashAssumption, Init
<1> QED BY <1>3, <1>4, TreasuryIsSum DEF Init

(* Which step touches what: only a request gives a row its first name, only *)
(* funding moves money.                                                    *)
LEMMA NamesKept ==
  ASSUME Inv, TypeOK, [Next]_vars, NEW x \in Approval
  PROVE  (approval[x].st = "NONE" <=> approval[x].by = NoAdmin)'
<1>1. CASE UNCHANGED approval
  BY <1>1 DEF TypeOK
<1>2. CASE \E a \in Admin : Request(a)
  <2>1. PICK a \in Admin : Request(a)
    BY <1>2
  <2>2. a # NoAdmin
    BY NoAdminAssumption DEF NoAdminAssumption
  <2> QED BY <2>1, <2>2 DEF Request, TypeOK
<1>3. CASE \E a \in Admin : ApproveClaim(a) \/ Reject(a) \/ Execute(a)
  <2>1. PICK a \in Admin : ApproveClaim(a) \/ Reject(a) \/ Execute(a)
    BY <1>3
  <2>2. task[a].about \in Approval
    BY <2>1 DEF ApproveClaim, Reject, Execute, Inv, Holds
  <2>3. approval'[x].by = approval[x].by
    BY <2>1, <2>2 DEF ApproveClaim, Reject, Execute, TypeOK
  <2>4. approval[x].st = "NONE" <=> approval'[x].st = "NONE"
    BY <2>1, <2>2 DEF ApproveClaim, Reject, Rejectable, Execute, Inv, Holds, TypeOK
  <2> QED BY <2>3, <2>4 DEF TypeOK
<1>4. CASE \E y \in Approval : Expire(y)
  BY <1>4 DEF Expire, TypeOK
<1>5. \/ UNCHANGED approval
      \/ \E a \in Admin : Request(a) \/ ApproveClaim(a) \/ Reject(a) \/ Execute(a)
      \/ \E y \in Approval : Expire(y)
  BY DEF Next, vars, Authenticate, Fund, Freeze, UnfreezeCount, UnfreezeLift, Resolve, Crash,
         Appoint, Sweep, SweepVerify, SweepRecord, SweepFreeze, Corrupt, Correct
<1> QED BY <1>1, <1>2, <1>3, <1>4, <1>5

LEMMA FundAgrees ==
  ASSUME Inv, TreasuryIsCredited, NEW a \in Admin, Fund(a), treasury \in Nat
  PROVE  TreasuryIsCredited' /\ treasury' \in Nat
<1> DEFINE x == task[a].about  h == HashOf[x]
<1>1. h \in Hash /\ AmountOf[x] \in Nat
  BY OperationsAssumption DEF OperationsAssumption, Inv, Holds, Fund
<1>2. CASE ~Fresh(x)
  <2>1. UNCHANGED <<credited, treasury>>
    BY <1>2 DEF Fund
  <2> QED BY <2>1, TreasuryIsSum
<1>3. CASE Fresh(x)
  <2>1. /\ credited' = [credited EXCEPT ![h] = AmountOf[x]]
        /\ treasury' = treasury + AmountOf[x] /\ credited[h] = 0
    BY <1>3 DEF Fund, Fresh
  <2>2. /\ \A y \in Hash : credited[y] \in Int /\ credited'[y] \in Int
        /\ \A y \in Hash \ {h} : credited'[y] = credited[y]
        /\ credited'[h] = AmountOf[x]
    BY <1>1, <2>1 DEF Inv, Shapes
  <2>3. IsFiniteSet(Hash)
    BY HashAssumption DEF HashAssumption
  <2>4. SumFunctionOnSet(credited', Hash)
          = SumFunctionOnSet(credited, Hash) + (credited'[h] - credited[h])
    <3> HIDE DEF h
    <3> QED BY <1>1, <2>2, <2>3, SumChange
  <2>5. treasury = SumFunctionOnSet(credited, Hash)
    BY TreasuryIsSum
  <2> HIDE DEF h, x
  <2>6. credited'[h] - credited[h] = AmountOf[x]
    BY <1>1, <2>1, <2>2
  <2>7. treasury' = SumFunctionOnSet(credited', Hash) /\ treasury' \in Nat
    BY <1>1, <2>1, <2>4, <2>5, <2>6
  <2> QED BY <2>7, TreasuryIsSum
<1> QED BY <1>2, <1>3

LEMMA OthersAgree ==
  ASSUME Inv, TypeOK, [Next]_vars
  PROVE  /\ {frozen, balanced}' \subseteq BOOLEAN
         /\ sweep' \in {"idle", "record", "freeze"}
         /\ critical' \in 0 .. Exceptions
<1>1. critical \in Nat /\ critical <= Exceptions /\ Exceptions \in Nat
  BY OperationsAssumption DEF OperationsAssumption, TypeOK
<1>2. CASE \E a \in Admin : Resolve(a)
  <2>1. Max({0, critical - 1}) \in {0, critical - 1} /\ 0 <= Max({0, critical - 1})
    BY <1>1, MaxIsBetween
  <2> HIDE DEF Max
  <2>2. OneResolved \in 0 .. Exceptions
    BY <1>1, <2>1 DEF OneResolved
  <2>3. critical' = OneResolved /\ UNCHANGED <<frozen, balanced, sweep>>
    BY <1>2 DEF Resolve
  <2> QED BY <2>2, <2>3 DEF TypeOK
<1>3. CASE SweepRecord
  <2>1. Min({critical + 1, Exceptions}) \in {critical + 1, Exceptions}
        /\ Min({critical + 1, Exceptions}) <= Exceptions
    BY <1>1, MinIsBetween
  <2>2. critical' \in 0 .. Exceptions
    BY <1>1, <1>3, <2>1 DEF SweepRecord
  <2> QED BY <1>3, <2>2 DEF SweepRecord, TypeOK
<1>4. CASE ~SweepRecord /\ ~\E a \in Admin : Resolve(a)
  <2>1. UNCHANGED critical
    BY <1>4 DEF Next, vars, Authenticate, Request, ApproveClaim, Fund, Execute, Reject, Freeze,
           UnfreezeCount, UnfreezeLift, Crash, Appoint, Expire, Sweep, SweepVerify, SweepFreeze,
           Corrupt, Correct
  <2>2. frozen' \in BOOLEAN /\ balanced' \in BOOLEAN
    BY <1>4 DEF Next, vars, Authenticate, Request, ApproveClaim, Fund, Execute, Reject, Freeze,
           UnfreezeCount, UnfreezeLift, Crash, Appoint, Expire, Sweep, SweepVerify, SweepFreeze,
           Freezes, Corrupt, Correct, TypeOK
  <2>3. sweep' \in {"idle", "record", "freeze"}
    BY <1>4 DEF Next, vars, Authenticate, Request, ApproveClaim, Fund, Execute, Reject, Freeze,
           UnfreezeCount, UnfreezeLift, Crash, Appoint, Expire, Sweep, SweepVerify, SweepFreeze,
           Corrupt, Correct, TypeOK
  <2> QED BY <2>1, <2>2, <2>3 DEF TypeOK
<1> QED BY <1>2, <1>3, <1>4

(* An admin is idle exactly when he holds nothing.                         *)
LEMMA IdleIsFree ==
  ASSUME Inv, TypeOK, [Next]_vars, NEW b \in Admin
  PROVE  (task[b].at = "idle" <=> task[b] = Free)'
<1>0. task \in [Admin -> Errand]
  BY DEF Inv, Shapes
<1>1. ASSUME NEW a \in Admin, Done(a)
      PROVE  task'[b] \in {task[b], Free}
  BY <1>0, <1>1 DEF Done
<1>2. ASSUME NEW a \in Admin, NEW s \in Steps, Go(a, s)
      PROVE  task'[b] = task[b] \/ task'[b].at = s
  BY <1>0, <1>2 DEF Go, Errand
<1>3. \A a \in Admin, kind \in Kinds, y \in Approval \cup {"none"} : Authenticate(a, kind, y) =>
        \/ b = a /\ task'[b].at = kind
        \/ b # a /\ task'[b] = task[b]
  BY DEF Authenticate, Inv, Shapes
<1>4. "idle" \notin Kinds
  BY OperationsAssumption DEF OperationsAssumption
<1>5. \/ task'[b] \in {task[b], Free} \/ task'[b].at \in {"fund", "execute", "lift"} \cup Kinds
  <2>1. CASE \E a \in Admin, kind \in Kinds, y \in Approval \cup {"none"} : Authenticate(a, kind, y)
    BY <1>3, <2>1
  <2>2. CASE \E a \in Admin : Done(a)
    BY <1>1, <2>2
  <2>3. CASE \E a \in Admin, s \in {"fund", "execute", "lift"} : Go(a, s)
    BY <1>2, <2>3 DEF Steps
  <2>4. CASE UNCHANGED task
    BY <2>4
  <2> QED BY <2>1, <2>2, <2>3, <2>4
      DEF Next, vars, Request, ApproveClaim, NextIsFund, Fund, Execute, Reject, Freeze,
          UnfreezeCount, UnfreezeLift, Resolve, Crash, Appoint, Expire, Sweep, SweepVerify,
          SweepRecord, SweepFreeze, Corrupt, Correct
<1> QED BY <1>4, <1>5 DEF TypeOK, Free

LEMMA NextAgrees ==
  ASSUME Inv, TypeOK, TreasuryIsCredited, [Next]_vars
  PROVE  TypeOK' /\ TreasuryIsCredited'
<1>1. TreasuryIsCredited' /\ treasury' \in Nat
  <2>1. CASE \E a \in Admin : Fund(a)
    BY <2>1, FundAgrees DEF TypeOK
  <2>2. CASE UNCHANGED <<credited, treasury>>
    BY <2>2, TreasuryIsSum DEF TypeOK
  <2> QED BY <2>1, <2>2
      DEF Next, vars, Authenticate, Request, ApproveClaim, Execute, Reject, Freeze,
          UnfreezeCount, UnfreezeLift, Resolve, Crash, Appoint, Expire, Sweep, SweepVerify,
          SweepRecord, SweepFreeze, Corrupt, Correct
<1>2. Shapes'
  BY NextInv DEF Inv
<1> QED BY <1>1, <1>2, NamesKept, OthersAgree, IdleIsFree DEF TypeOK, Shapes, Row

(* Approvals, deposits and the treasury agree: the treasury holds the sum  *)
(* of what its deposits brought, each counted once however many approvals  *)
(* name it and wherever the API stopped (approveTreasuryFunding,           *)
(* recordManualTreasuryFunding).                                           *)
THEOREM CreditsAgreeHolds == Spec => []CreditsAgree
<1>1. Init => Inv /\ TypeOK /\ TreasuryIsCredited
  BY InitInv, InitAgrees
<1>2. Inv /\ TypeOK /\ TreasuryIsCredited /\ [Next]_vars
        => Inv' /\ TypeOK' /\ TreasuryIsCredited'
  BY NextInv, NextAgrees
<1>3. Inv /\ TypeOK /\ TreasuryIsCredited => CreditsAgree
  BY DEF Inv, CreditsAgree
<1> QED BY <1>1, <1>2, <1>3, PTL DEF Spec
=============================================================================
