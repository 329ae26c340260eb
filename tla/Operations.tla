---------------------------- MODULE Operations -----------------------------
(***************************************************************************)
(* The back office: four-eyes funding of the treasury, the financial       *)
(* freeze and reconciliation exceptions of packages/core/src/admin         *)
(* (operations.ts, rbac.ts) behind apps/api/src/admin-routes.ts, and the   *)
(* integrity sweep of apps/scheduler/src/main.ts that freezes the platform *)
(* by itself.                                                              *)
(*                                                                         *)
(* Every admin has one request at a time.  It is authenticated first, with *)
(* the role he has then, and acts later, one transaction after the other.  *)
(***************************************************************************)
EXTENDS Integers, FiniteSets, FiniteSetsExt

CONSTANTS
  Admin,
  Approval,    \* rows of core.admin_approvals
  Hash,        \* transaction hashes of the deposits they name
  HashOf, AmountOf, \* payload.txHash and payload.amountAtomic
  FirstRole,   \* role of every admin at the start
  Appointments,\* how often a role changes (no route does it, the database may)
  Exceptions,  \* how many CRITICAL exceptions can be open
  Corruptions, \* how often the books come to be out of balance
  Crashes,     \* how often the API stops in the middle of a request
  Kinds        \* the requests admins make

Role == {"SUPER_ADMIN", "FINANCE_ADMIN", "OPERATIONS_ADMIN", "SUPPORT_AGENT", "RISK_AGENT",
         "DEVELOPER_SUPPORT", "READ_ONLY"}

(* There are finitely many deposits, so that they have a sum.              *)
ASSUME HashAssumption == IsFiniteSet(Hash)

ASSUME OperationsAssumption ==
  /\ HashOf \in [Approval -> Hash] /\ AmountOf \in [Approval -> Nat \ {0}]
  /\ FirstRole \in [Admin -> Role]
  /\ Kinds \subseteq {"request", "approve", "reject", "freeze", "unfreeze", "resolve"}
  /\ {Appointments, Exceptions, Corruptions, Crashes} \subseteq Nat

VARIABLES
  role,      \* core.admin_users.role; a disabled admin has "NONE"
  approval,  \* core.admin_approvals
  credited,  \* finance.treasury_transactions: what a hash was credited with
  treasury,  \* confirmed_balance_atomic
  frozen,    \* system.platform_state.financial_freeze
  critical,  \* unresolved CRITICAL reconciliation exceptions
  balanced,  \* whether the journal's debits are its credits
  task,      \* the request of an admin
  sweep,     \* where the integrity sweep is
  used       \* the bounds used up

vars == <<role, approval, credited, treasury, frozen, critical, balanced, task, sweep, used>>

NoAdmin == "nobody"
ASSUME NoAdminAssumption == NoAdmin \notin Admin
Free == [at |-> "idle", role |-> "NONE", about |-> "none"]

Init ==
  /\ role = FirstRole
  /\ approval = [x \in Approval |->
       [st |-> "NONE", by |-> NoAdmin, decidedBy |-> NoAdmin, expired |-> FALSE]]
  /\ credited = [h \in Hash |-> 0] /\ treasury = 0
  /\ frozen = FALSE /\ critical = 0 /\ balanced = TRUE
  /\ task = [a \in Admin |-> Free] /\ sweep = "idle"
  /\ used = [appointments |-> 0, corruptions |-> 0, crashes |-> 0]

-----------------------------------------------------------------------------
(* ROLE_PERMISSIONS, as far as these requests go.                          *)
Allowed ==
  [request  |-> {"FINANCE_ADMIN"},
   approve  |-> {"SUPER_ADMIN"},
   reject   |-> {"SUPER_ADMIN"},
   freeze   |-> {"SUPER_ADMIN", "FINANCE_ADMIN", "RISK_AGENT"},
   unfreeze |-> {"SUPER_ADMIN"},
   resolve  |-> {"SUPER_ADMIN", "FINANCE_ADMIN", "OPERATIONS_ADMIN"}]

Funding == <<credited, treasury>>
Books == <<frozen, critical, balanced, sweep>>
Go(a, step) == task' = [task EXCEPT ![a].at = step]
Done(a) == task' = [task EXCEPT ![a] = Free]

(* authenticateAdmin, then assertPermission with the role it found.        *)
Authenticate(a, kind, x) ==
  /\ task[a] = Free /\ role[a] \in Allowed[kind]
  /\ x \in (IF kind \in {"request", "approve", "reject"} THEN Approval ELSE {"none"})
  /\ task' = [task EXCEPT ![a] = [at |-> kind, role |-> role[a], about |-> x]]
  /\ UNCHANGED <<role, approval, used>> /\ UNCHANGED Funding /\ UNCHANGED Books

-----------------------------------------------------------------------------
(* requestTreasuryFunding records the intent and who had it.               *)
Request(a) ==
  LET x == task[a].about
  IN /\ task[a].at = "request" /\ approval[x].st = "NONE"
     /\ approval' = [approval EXCEPT ![x].st = "PENDING", ![x].by = a]
     /\ Done(a)
     /\ UNCHANGED <<role, used>> /\ UNCHANGED Funding /\ UNCHANGED Books

(* The code's own comparison, and ck_approval_four_eyes behind it.         *)
OtherThanAnyone(a, x) == TRUE                                    \* mutant: four eyes by role alone
OtherThan(a, x) == approval[x].by # a

NextIsExecute == "execute"                                       \* mutant: the row first, then the money
NextIsFund == "fund"

(* One conditional UPDATE decides; an approval found to have expired stays *)
(* PENDING, as the error that says so rolls its own UPDATE back.           *)
ApproveClaim(a) ==
  LET x == task[a].about
  IN /\ task[a].at = "approve"
     /\ IF approval[x].st = "PENDING" /\ ~approval[x].expired /\ OtherThan(a, x)
          THEN /\ approval' = [approval EXCEPT ![x].st = "APPROVED", ![x].decidedBy = a]
               /\ Go(a, NextIsFund)
          ELSE Done(a) /\ UNCHANGED approval
     /\ UNCHANGED <<role, used>> /\ UNCHANGED Funding /\ UNCHANGED Books

(* recordManualTreasuryFunding: ON CONFLICT (external_tx_hash) DO NOTHING. *)
Fresh(x) == credited[HashOf[x]] = 0

Fund(a) ==
  LET x == task[a].about
  IN /\ task[a].at = "fund"
     /\ IF Fresh(x)
          THEN /\ credited' = [credited EXCEPT ![HashOf[x]] = AmountOf[x]]
               /\ treasury' = treasury + AmountOf[x]
          ELSE UNCHANGED Funding
     /\ Go(a, "execute")
     /\ UNCHANGED <<role, approval, used>> /\ UNCHANGED Books

Execute(a) ==
  /\ task[a].at = "execute"
  /\ approval' = [approval EXCEPT ![task[a].about].st = "EXECUTED"]
  /\ Done(a)
  /\ UNCHANGED <<role, used>> /\ UNCHANGED Funding /\ UNCHANGED Books

RejectableAnyTime(x) == approval[x].st \in {"PENDING", "APPROVED"} \* mutant: no status = 'PENDING'
Rejectable(x) == approval[x].st = "PENDING"

Reject(a) ==
  LET x == task[a].about
  IN /\ task[a].at = "reject"
     /\ approval' = IF Rejectable(x) /\ OtherThan(a, x)
          THEN [approval EXCEPT ![x].st = "REJECTED", ![x].decidedBy = a] ELSE approval
     /\ Done(a)
     /\ UNCHANGED <<role, used>> /\ UNCHANGED Funding /\ UNCHANGED Books

-----------------------------------------------------------------------------
Freeze(a) ==
  /\ task[a].at = "freeze"
  /\ frozen' = TRUE /\ Done(a)
  /\ UNCHANGED <<role, approval, critical, balanced, sweep, used>> /\ UNCHANGED Funding

(* unfreezeFinancialOperations counts, then lifts: nothing keeps the sweep *)
(* from recording an exception in between.                                 *)
UnfreezeCount(a) ==
  /\ task[a].at = "unfreeze"
  /\ IF critical = 0 THEN Go(a, "lift") ELSE Done(a)
  /\ UNCHANGED <<role, approval, used>> /\ UNCHANGED Funding /\ UNCHANGED Books

UnfreezeLift(a) ==
  /\ task[a].at = "lift"
  /\ frozen' = FALSE /\ Done(a)
  /\ UNCHANGED <<role, approval, critical, balanced, sweep, used>> /\ UNCHANGED Funding

OneResolved == Max({0, critical - 1})

(* resolveException asks for words, not for balanced books.                *)
Resolve(a) ==
  /\ task[a].at = "resolve"
  /\ critical' = OneResolved /\ Done(a)
  /\ UNCHANGED <<role, approval, frozen, balanced, sweep, used>> /\ UNCHANGED Funding

-----------------------------------------------------------------------------
(* runIntegritySweep: three statements of their own.                       *)
SweepVerify ==
  /\ sweep = "idle" /\ ~balanced
  /\ sweep' = "record"
  /\ UNCHANGED <<role, approval, frozen, critical, balanced, task, used>> /\ UNCHANGED Funding

SweepRecord ==
  /\ sweep = "record"
  /\ critical' = Min({critical + 1, Exceptions})
  /\ sweep' = "freeze"
  /\ UNCHANGED <<role, approval, frozen, balanced, task, used>> /\ UNCHANGED Funding

FreezesOnce == critical <= 1                                     \* mutant: once per imbalance
Freezes == TRUE

SweepFreeze ==
  /\ sweep = "freeze"
  /\ frozen' = (frozen \/ Freezes)
  /\ sweep' = "idle"
  /\ UNCHANGED <<role, approval, critical, balanced, task, used>> /\ UNCHANGED Funding

-----------------------------------------------------------------------------
(* The surroundings.                                                       *)
Corrupt ==
  /\ balanced /\ used.corruptions < Corruptions
  /\ balanced' = FALSE /\ used' = [used EXCEPT !.corruptions = @ + 1]
  /\ UNCHANGED <<role, approval, frozen, critical, task, sweep>> /\ UNCHANGED Funding

Correct ==
  /\ ~balanced /\ balanced' = TRUE
  /\ UNCHANGED <<role, approval, frozen, critical, task, sweep, used>> /\ UNCHANGED Funding

Appoint(a, r) ==
  /\ r # role[a] /\ used.appointments < Appointments
  /\ role' = [role EXCEPT ![a] = r] /\ used' = [used EXCEPT !.appointments = @ + 1]
  /\ UNCHANGED <<approval, task>> /\ UNCHANGED Funding /\ UNCHANGED Books

Expire(x) ==
  /\ approval[x].st = "PENDING" /\ ~approval[x].expired
  /\ approval' = [approval EXCEPT ![x].expired = TRUE]
  /\ UNCHANGED <<role, task, used>> /\ UNCHANGED Funding /\ UNCHANGED Books

Crash(a) ==
  /\ task[a].at \in {"fund", "execute"} /\ used.crashes < Crashes
  /\ Done(a) /\ used' = [used EXCEPT !.crashes = @ + 1]
  /\ UNCHANGED <<role, approval>> /\ UNCHANGED Funding /\ UNCHANGED Books

Sweep == SweepVerify \/ SweepRecord \/ SweepFreeze

Next ==
  \/ \E a \in Admin :
       \/ \E kind \in Kinds, x \in Approval \cup {"none"} : Authenticate(a, kind, x)
       \/ Request(a) \/ ApproveClaim(a) \/ Fund(a) \/ Execute(a) \/ Reject(a)
       \/ Freeze(a) \/ UnfreezeCount(a) \/ UnfreezeLift(a) \/ Resolve(a) \/ Crash(a)
       \/ \E r \in {"SUPER_ADMIN", "NONE"} : Appoint(a, r)
  \/ Sweep \/ Corrupt \/ Correct
  \/ \E x \in Approval : Expire(x)

Spec == Init /\ [][Next]_vars
(* The scheduler sweeps every minute, whatever the platform's state.       *)
FairSpec == Spec /\ WF_vars(Sweep)

-----------------------------------------------------------------------------
Statuses == {"NONE", "PENDING", "APPROVED", "REJECTED", "EXPIRED", "EXECUTED"}

TypeOK ==
  /\ role \in [Admin -> Role \cup {"NONE"}]
  /\ approval \in [Approval -> [st : Statuses, by : Admin \cup {NoAdmin},
                                decidedBy : Admin \cup {NoAdmin}, expired : BOOLEAN]]
  /\ \A x \in Approval : approval[x].st = "NONE" <=> approval[x].by = NoAdmin
  /\ credited \in [Hash -> Nat] /\ treasury \in Nat
  /\ {frozen, balanced} \subseteq BOOLEAN /\ critical \in 0 .. Exceptions
  /\ sweep \in {"idle", "record", "freeze"}
  /\ \A a \in Admin : task[a].at = "idle" <=> task[a] = Free

(* What the treasury was credited with was asked for by one admin and      *)
(* agreed to by another, also when the roles changed hands in between.     *)
CreditedByTwo ==
  \A h \in Hash : credited[h] > 0 =>
    \E x \in Approval :
      /\ HashOf[x] = h /\ AmountOf[x] = credited[h] /\ approval[x].st \in {"APPROVED", "EXECUTED"}
      /\ approval[x].by # approval[x].decidedBy /\ NoAdmin \notin {approval[x].by, approval[x].decidedBy}

(* The treasury holds what its deposits brought, each counted once however *)
(* many approvals name it and wherever the API stopped.                    *)
TreasuryIsCredited == treasury = MapThenSumSet(LAMBDA h : credited[h], Hash)

(* An approval that says EXECUTED has brought its deposit in.              *)
ExecutedIsCredited == \A x \in Approval : approval[x].st = "EXECUTED" => credited[HashOf[x]] > 0

(* Approvals, deposits and the treasury agree (approveTreasuryFunding,     *)
(* recordManualTreasuryFunding).                                           *)
CreditsAgree == TypeOK /\ TreasuryIsCredited /\ ExecutedIsCredited

(* A decision stands: of two admins who decide at the same time one is     *)
(* refused, and what was approved can only become executed.                *)
DecisionStands ==
  [][\A x \in Approval :
       /\ approval[x].st \in {"REJECTED", "EXECUTED"} => approval'[x] = approval[x]
       /\ approval[x].st = "APPROVED" => /\ approval'[x].st \in {"APPROVED", "EXECUTED"}
                                         /\ approval'[x].decidedBy = approval[x].decidedBy]_vars

(* As long as the books do not balance the platform is frozen again and    *)
(* again, whatever admins resolve and lift.                                *)
ImbalanceFreezes == ~balanced ~> frozen \/ balanced
=============================================================================
