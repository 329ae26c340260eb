------------------------------- MODULE Ledger -------------------------------
(***************************************************************************)
(* The double-entry ledger of packages/ledger/src: post and its projection *)
(* of balances (ledger-service.ts), the journal numbers and blocks of      *)
(* ledger-blocks.ts, and the checks scripts/ledger-verify.ts makes of      *)
(* them, under the transactions of packages/database/src/client.ts.        *)
(*                                                                         *)
(* A process runs its transactions one after the other (DatabaseImpl's     *)
(* #lock); those of two processes interleave, with the row locks, the      *)
(* unique index and the sequence of PostgreSQL between them.               *)
(***************************************************************************)
EXTENDS Integers, Sequences, FiniteSets, FiniteSetsExt

CONSTANTS
  Process,
  Operation,   \* operation ids
  Account,     \* accounts of the ledger, one bucket each
  TypeOf,      \* account_type
  LinesOf,     \* the lines of an operation, in order
  Posts,       \* how many posts are begun
  Retries,     \* TransactionOptions.retries
  Blocks,      \* how many blocks are sealed
  Faults       \* how often a transaction fails or its process stops

Side == {"debit", "credit"}

(* post refuses a draft that does not balance before it writes anything.   *)
Amount(o, side) ==
  MapThenSumSet(LAMBDA i : IF LinesOf[o][i].side = side THEN LinesOf[o][i].amount ELSE 0,
                DOMAIN LinesOf[o])

ASSUME LedgerAssumption ==
  /\ TypeOf \in [Account -> {"ASSET", "LIABILITY", "REVENUE", "EXPENSE", "EQUITY"}]
  /\ \A o \in Operation :
       /\ LinesOf[o] \in Seq([account : Account, side : Side, amount : Nat \ {0}])
       /\ Amount(o, "debit") = Amount(o, "credit") /\ LinesOf[o] # <<>>
  /\ {Posts, Retries, Blocks, Faults} \subseteq Nat

VARIABLES
  next,      \* the sequence behind journal_sequence
  journals,  \* committed journals: their operation, by number
  balance,   \* finance.balances
  holder,    \* which transaction has an account's balance locked
  tx,        \* the transaction of a process
  blocks,    \* finance.ledger_blocks
  sealing,   \* the block a transaction is about to insert
  begun, faults

vars == <<next, journals, balance, holder, tx, blocks, sealing, begun, faults>>

NoOne == "nobody"
NoOp == "none"
Idle == [at |-> "idle", op |-> NoOp, number |-> 0, line |-> 0, tries |-> 0]
NoRange == [start |-> 0, end |-> 0, prev |-> 0]

ASSUME NobodyAssumption == NoOne \notin Process

Init ==
  /\ next = 1 /\ journals = [n \in {} |-> NoOp]
  /\ balance = [a \in Account |-> 0] /\ holder = [a \in Account |-> NoOne]
  /\ tx = [p \in Process |-> Idle]
  /\ blocks = <<>> /\ sealing = NoRange
  /\ begun = 0 /\ faults = 0

Committed(o) == \E n \in DOMAIN journals : journals[n] = o
Sealer == <<blocks, sealing>>

-----------------------------------------------------------------------------
Begin(p, o) ==
  /\ tx[p] = Idle /\ begun < Posts
  /\ tx' = [tx EXCEPT ![p] = [Idle EXCEPT !.at = "insert", !.op = o]]
  /\ begun' = begun + 1
  /\ UNCHANGED <<next, journals, balance, holder, faults>> /\ UNCHANGED Sealer

(* A journal of the operation that another transaction has not committed.  *)
HeldByNone(p) == FALSE                                           \* mutant: a SELECT instead of the index
Held(p) == \E q \in Process \ {p} : tx[q].at = "lines" /\ tx[q].op = tx[p].op

(* INSERT ... ON CONFLICT (operation_id) DO NOTHING: it takes its number   *)
(* before it looks for a conflict, and waits for one that is undecided.    *)
Insert(p) ==
  /\ tx[p].at = "insert"
  /\ next' = next + 1
  /\ tx' = [tx EXCEPT ![p] =
       IF Committed(tx[p].op) THEN Idle
       ELSE IF Held(p) THEN [@ EXCEPT !.at = "wait", !.number = next]
       ELSE [@ EXCEPT !.at = "lines", !.number = next, !.line = 1]]
  /\ UNCHANGED <<journals, balance, holder, begun, faults>> /\ UNCHANGED Sealer

ReadyIfPosted(p) == ~Held(p) /\ Committed(tx[p].op)               \* mutant: the other is taken to commit
Ready(p) == ~Held(p)

WaitOver(p) ==
  /\ tx[p].at = "wait" /\ Ready(p)
  /\ tx' = [tx EXCEPT ![p] =
       IF Committed(tx[p].op) THEN Idle ELSE [@ EXCEPT !.at = "lines", !.line = 1]]
  /\ UNCHANGED <<next, journals, balance, holder, begun, faults>> /\ UNCHANGED Sealer

(* applyToProjection: liabilities grow on credit, assets grow on debit.    *)
Projected(a) == TypeOf[a] \in {"LIABILITY", "ASSET"}
DeltaUnsigned(l) == l.amount                                     \* mutant: the side is forgotten
Delta(l) == IF (TypeOf[l.account] = "LIABILITY") = (l.side = "credit") THEN l.amount ELSE -l.amount

Line(p) == LinesOf[tx[p].op][tx[p].line]
AtLine(p) == tx[p].at = "lines" /\ tx[p].line <= Len(LinesOf[tx[p].op])
Locked(p) == AtLine(p) /\ Projected(Line(p).account) /\ holder[Line(p).account] \notin {NoOne, p}
Overdraws(p) == Projected(Line(p).account) /\ balance[Line(p).account] + Delta(Line(p)) < 0

ApplyLine(p) ==
  LET l == Line(p)
  IN /\ AtLine(p) /\ ~Locked(p) /\ ~Overdraws(p)
     /\ IF Projected(l.account)
          THEN /\ balance' = [balance EXCEPT ![l.account] = @ + Delta(l)]
               /\ holder' = [holder EXCEPT ![l.account] = p]
          ELSE UNCHANGED <<balance, holder>>
     /\ tx' = [tx EXCEPT ![p].line = @ + 1]
     /\ UNCHANGED <<next, journals, begun, faults>> /\ UNCHANGED Sealer

Release(p) == holder' = [a \in Account |-> IF holder[a] = p THEN NoOne ELSE holder[a]]

Commit(p) ==
  /\ tx[p].at = "lines" /\ tx[p].line > Len(LinesOf[tx[p].op])
  /\ journals' = [n \in DOMAIN journals \cup {tx[p].number} |->
                    IF n = tx[p].number THEN tx[p].op ELSE journals[n]]
  /\ Release(p)
  /\ tx' = [tx EXCEPT ![p] = Idle]
  /\ UNCHANGED <<next, balance, begun, faults>> /\ UNCHANGED Sealer

(* ROLLBACK gives everything back but the numbers.                         *)
Applied(p, a) ==
  IF Projected(a)
    THEN MapThenSumSet(LAMBDA i : Delta(LinesOf[tx[p].op][i]),
           {i \in 1 .. tx[p].line - 1 : LinesOf[tx[p].op][i].account = a})
    ELSE 0

RollBack(p, after) ==
  /\ balance' = [a \in Account |-> balance[a] - (IF tx[p].at = "lines" THEN Applied(p, a) ELSE 0)]
  /\ Release(p)
  /\ tx' = [tx EXCEPT ![p] = after]
  /\ UNCHANGED <<next, journals, begun>> /\ UNCHANGED Sealer

Overdraw(p) == AtLine(p) /\ ~Locked(p) /\ Overdraws(p) /\ RollBack(p, Idle) /\ UNCHANGED faults

Fail(p) ==
  /\ tx[p].at \in {"insert", "wait", "lines"} /\ faults < Faults
  /\ faults' = faults + 1
  /\ RollBack(p, Idle)

(* A deadlock ends one of its transactions with 40P01, and transaction()   *)
(* runs that one again from the start, a few times.                        *)
Awaits(p, q) ==
  \/ Locked(p) /\ holder[Line(p).account] = q
  \/ tx[p].at = "wait" /\ q # p /\ tx[q].at = "lines" /\ tx[q].op = tx[p].op

InDeadlock(p) ==
  \E S \in SUBSET Process :
    p \in S /\ \A q \in S : (\E r \in S : Awaits(q, r)) /\ (\E r \in S : Awaits(r, q))

Deadlock(p) ==
  /\ InDeadlock(p)
  /\ RollBack(p, IF tx[p].tries < Retries
                   THEN [Idle EXCEPT !.at = "insert", !.op = tx[p].op, !.tries = tx[p].tries + 1]
                   ELSE Idle)
  /\ UNCHANGED faults

-----------------------------------------------------------------------------
(* sealLedgerBlock, by one process at a time: the range, then its entries. *)
LastEnd == IF blocks = <<>> THEN 0 ELSE blocks[Len(blocks)].end
FromLast == {n \in DOMAIN journals : n >= LastEnd}               \* mutant: >= $1
Unsealed == {n \in DOMAIN journals : n > LastEnd}
InBlock(s, e) == {n \in DOMAIN journals : s <= n /\ n <= e}

SealRange ==
  /\ sealing = NoRange /\ Len(blocks) < Blocks /\ Unsealed # {}
  /\ sealing' = [start |-> Min(Unsealed), end |-> Max(Unsealed), prev |-> Len(blocks)]
  /\ UNCHANGED <<next, journals, balance, holder, tx, blocks, begun, faults>>

SealInsert ==
  /\ sealing # NoRange
  /\ blocks' = Append(blocks, [start |-> sealing.start, end |-> sealing.end, prev |-> sealing.prev,
                               sealed |-> InBlock(sealing.start, sealing.end)])
  /\ sealing' = NoRange
  /\ UNCHANGED <<next, journals, balance, holder, tx, begun, faults>>

Step(p) == Insert(p) \/ WaitOver(p) \/ ApplyLine(p) \/ Commit(p) \/ Overdraw(p) \/ Deadlock(p)

Next ==
  \/ \E p \in Process : (\E o \in Operation : Begin(p, o)) \/ Step(p) \/ Fail(p)
  \/ SealRange \/ SealInsert

Spec == Init /\ [][Next]_vars
(* A transaction that can go on does: nothing in it waits for a person.    *)
FairSpec == Spec /\ \A p \in Process : WF_vars(Step(p))

-----------------------------------------------------------------------------
TypeOK ==
  /\ next \in Nat \ {0} /\ DOMAIN journals \subseteq 1 .. next - 1
  /\ \A n \in DOMAIN journals : journals[n] \in Operation
  /\ balance \in [Account -> Nat] /\ holder \in [Account -> Process \cup {NoOne}]
  /\ \A p \in Process :
       /\ tx[p].at \in {"idle", "insert", "wait", "lines"} /\ tx[p].tries \in 0 .. Retries
       /\ tx[p].at = "lines" => tx[p].number \in (1 .. next - 1) \ DOMAIN journals
  /\ Len(blocks) <= Blocks /\ begun \in 0 .. Posts /\ faults \in 0 .. Faults

(* An operation moves money once, however many processes post it at once.  *)
PostedOnce == \A m, n \in DOMAIN journals : journals[m] = journals[n] => m = n

(* verifyProjection: the sum of an account's entries in its natural        *)
(* direction, which is the projection whenever no transaction is at it.    *)
Natural(ls, i, a) ==
  IF ls[i].account # a THEN 0
  ELSE IF TypeOf[a] \in {"LIABILITY", "REVENUE", "EQUITY"}
    THEN (IF ls[i].side = "credit" THEN ls[i].amount ELSE -ls[i].amount)
    ELSE (IF ls[i].side = "debit" THEN ls[i].amount ELSE -ls[i].amount)
MovedBy(ls, a) == MapThenSumSet(LAMBDA i : Natural(ls, i, a), DOMAIN ls)
NaturalSum(a) == MapThenSumSet(LAMBDA n : MovedBy(LinesOf[journals[n]], a), DOMAIN journals)

ProjectionIsJournal ==
  \A a \in Account : Projected(a) /\ holder[a] = NoOne => balance[a] = NaturalSum(a)

(* The books agree: types, an operation has one journal however often it   *)
(* is posted, and every balance is the sum of the entries of the journal   *)
(* (ledger-service.ts).                                                    *)
BooksAgree == TypeOK /\ PostedOnce /\ ProjectionIsJournal

(* Blocks follow one another and no journal is in two of them, though      *)
(* journals commit out of their order while blocks are sealed.             *)
SealedInOrder ==
  \A i \in DOMAIN blocks :
    /\ blocks[i].prev = i - 1 /\ blocks[i].start <= blocks[i].end
    /\ \A j \in DOMAIN blocks : i < j => blocks[i].end < blocks[j].start
    /\ blocks[i].sealed \subseteq DOMAIN journals

(* Two posts that lock accounts in opposite orders, or wait for each       *)
(* other's journal, do not hang: every post ends.                          *)
PostEnds == \A p \in Process : tx[p].at # "idle" ~> tx[p].at = "idle"

(***************************************************************************)
(* The ledger keeps the promise of LedgerPromise: what is not committed is *)
(* nobody else's business, so a balance is the projection less the lines   *)
(* its holder has applied to it so far.                                    *)
(***************************************************************************)
Undecided(a) == IF holder[a] = NoOne THEN 0 ELSE Applied(holder[a], a)
WithBalance  == {a \in Account : Projected(a)}

Promise == INSTANCE LedgerPromise WITH
  Account <- WithBalance,
  Effect  <- [o \in Operation |-> [a \in WithBalance |-> MovedBy(LinesOf[o], a)]],
  posted  <- {journals[n] : n \in DOMAIN journals},
  balance <- [a \in WithBalance |-> balance[a] - Undecided(a)]

(* However the lines of several transactions interleave, and whatever is   *)
(* rolled back, deadlocks or is tried again, a commit is the only step that*)
(* moves money, and it moves all of one operation at once, as its entries  *)
(* say (post, DatabaseImpl.transaction).                                   *)
KeepsLedgerPromise == Promise!Spec
=============================================================================
