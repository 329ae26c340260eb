---------------------------- MODULE LedgerProofs ----------------------------
(***************************************************************************)
(* Theorems about Ledger, for any processes, operations, accounts and      *)
(* lines, however often transactions fail, deadlock and start again.       *)
(***************************************************************************)
EXTENDS Ledger, Sums, TLAPS

USE DEF Sealer

(***************************************************************************)
(* The inductive invariant.  An operation is posted once because of those  *)
(* who write its lines there is one at a time, and none once it is         *)
(* committed (OneWriter); and no journal replaces another, because nobody  *)
(* else has the number of one that is not decided yet (OwnNumber).         *)
(***************************************************************************)
Stages == {"idle", "insert", "wait", "lines"}
Transaction == [at : Stages, op : Operation \cup {NoOp},
                number : Int, line : Int, tries : Int]

Shapes ==
  /\ next \in Int
  /\ \A n \in DOMAIN journals : n \in Int /\ n < next
  /\ tx \in [Process -> Transaction]

OneWriter ==
  /\ \A p, q \in Process : tx[p].at = "lines" /\ tx[q].at = "lines" /\ tx[p].op = tx[q].op => p = q
  /\ \A p \in Process : tx[p].at = "lines" => ~Committed(tx[p].op)

Numbered(p) == tx[p].at \in {"wait", "lines"}
OwnNumber ==
  /\ \A p \in Process : Numbered(p) => tx[p].number < next /\ tx[p].number \notin DOMAIN journals
  /\ \A p, q \in Process : Numbered(p) /\ Numbered(q) /\ tx[p].number = tx[q].number => p = q

Inv == Shapes /\ OneWriter /\ OwnNumber /\ PostedOnce

-----------------------------------------------------------------------------
LEMMA IdleIsTransaction == Idle \in Transaction /\ Idle.at \notin {"wait", "lines"}
BY DEF Idle, Transaction, Stages

LEMMA StagesAre == "insert" \in Stages /\ "wait" \in Stages /\ "lines" \in Stages
BY DEF Stages

(* A transaction that starts writing its lines, or starts over.            *)
LEMMA Lining ==
  ASSUME NEW t \in Transaction, NEW n \in Int
  PROVE  /\ [t EXCEPT !.at = "lines", !.number = n, !.line = 1] \in Transaction
         /\ [t EXCEPT !.at = "lines", !.line = 1] \in Transaction
<1>1. ASSUME NEW s \in Stages, NEW l \in Int
      PROVE  /\ [t EXCEPT !.at = s, !.number = n, !.line = l] \in Transaction
             /\ [t EXCEPT !.at = s, !.line = l] \in Transaction
  <2>1. [t EXCEPT !.at = s, !.number = n, !.line = l] \in Transaction
    BY DEF Transaction
  <2>2. [t EXCEPT !.at = s, !.line = l] \in Transaction
    BY DEF Transaction
  <2> QED BY <2>1, <2>2
<1>2. "lines" \in Stages /\ 1 \in Int
  BY StagesAre
<1> QED BY <1>1, <1>2, Zenon

LEMMA Restarting ==
  ASSUME NEW o \in Operation \cup {NoOp}, NEW k \in Int
  PROVE  [Idle EXCEPT !.at = "insert", !.op = o, !.tries = k] \in Transaction
<1>1. "insert" \in Stages
  BY DEF Stages
<1> QED BY <1>1, IdleIsTransaction DEF Transaction

LEMMA InitInv == Init => Inv
<1> SUFFICES ASSUME Init PROVE Inv
  OBVIOUS
<1>1. Shapes
  BY IdleIsTransaction DEF Init, Shapes
<1>2. OneWriter /\ OwnNumber /\ PostedOnce
  BY IdleIsTransaction DEF Init, OneWriter, OwnNumber, Numbered, PostedOnce
<1> QED BY <1>1, <1>2 DEF Inv

(* A transaction that goes back to a stage without a number, or is not     *)
(* touched, cannot disturb the others.                                     *)
LEMMA BackInv ==
  ASSUME Inv, NEW p \in Process, NEW t \in Transaction, t.at \notin {"wait", "lines"},
         tx' = [tx EXCEPT ![p] = t], UNCHANGED journals, next' = next \/ next' = next + 1
  PROVE  Inv'
<1>1. tx'[p] = t /\ \A q \in Process : q # p => tx'[q] = tx[q]
  BY DEF Inv, Shapes
<1>2. Shapes'
  BY DEF Inv, Shapes
<1>3. OneWriter'
  BY <1>1 DEF Inv, OneWriter, Committed
<1>4. OwnNumber'
  BY <1>1 DEF Inv, Shapes, Transaction, OwnNumber, Numbered
<1>5. PostedOnce'
  BY DEF Inv, PostedOnce
<1> QED BY <1>2, <1>3, <1>4, <1>5 DEF Inv

LEMMA BeginInv ==
  ASSUME Inv, NEW p \in Process, NEW o \in Operation, Begin(p, o)
  PROVE  Inv'
<1> DEFINE t == [Idle EXCEPT !.at = "insert", !.op = o]
<1>2. tx' = [tx EXCEPT ![p] = t] /\ UNCHANGED <<journals, next>>
  BY DEF Begin
<1>3. t \in Transaction /\ t.at = "insert"
  BY IdleIsTransaction, StagesAre DEF Transaction
<1> QED BY <1>2, <1>3, BackInv

LEMMA InsertInv ==
  ASSUME Inv, NEW p \in Process, Insert(p)
  PROVE  Inv'
<1>1. /\ next' = next + 1 /\ UNCHANGED journals /\ tx[p] \in Transaction
      /\ next \in Int
  BY DEF Insert, Inv, Shapes
<1>2. CASE Committed(tx[p].op)
  BY <1>1, <1>2, IdleIsTransaction, BackInv DEF Insert
<1>3. CASE ~Committed(tx[p].op)
  <2>1. PICK t \in Transaction :
          /\ tx' = [tx EXCEPT ![p] = t] /\ t.op = tx[p].op /\ t.number = next
          /\ t.at = "wait" \/ (t.at = "lines" /\ ~Held(p))
    <3>1. CASE Held(p)
      <4> DEFINE t == [tx[p] EXCEPT !.at = "wait", !.number = next]
      <4>1. t \in Transaction /\ t.op = tx[p].op /\ t.number = next /\ t.at = "wait"
        BY <1>1, StagesAre DEF Transaction
      <4>2. tx' = [tx EXCEPT ![p] = t]
        BY <1>3, <3>1 DEF Insert, Inv, Shapes
      <4> QED BY <4>1, <4>2
    <3>2. CASE ~Held(p)
      <4> DEFINE t == [tx[p] EXCEPT !.at = "lines", !.number = next, !.line = 1]
      <4>1. t \in Transaction /\ t.op = tx[p].op /\ t.number = next /\ t.at = "lines"
        BY <1>1, Lining DEF Transaction
      <4>2. tx' = [tx EXCEPT ![p] = t]
        BY <1>3, <3>2 DEF Insert, Inv, Shapes
      <4> QED BY <3>2, <4>1, <4>2
    <3> QED BY <3>1, <3>2
  <2>2. tx'[p] = t /\ \A q \in Process : q # p => tx'[q] = tx[q]
    BY <2>1 DEF Inv, Shapes
  <2>3. Shapes'
    BY <1>1, <2>1 DEF Inv, Shapes
  <2>4. OneWriter'
    BY <1>1, <1>3, <2>1, <2>2 DEF Inv, OneWriter, Committed, Held
  <2>5. OwnNumber'
    <3>1. \A n \in DOMAIN journals : n < next
      BY DEF Inv, Shapes
    <3>2. \A q \in Process : q # p /\ Numbered(q) => tx[q].number < next /\ tx[q].number \in Int
      BY DEF Inv, Shapes, OwnNumber, Transaction
    <3>3. \A q \in Process : q # p => (Numbered(q)' <=> Numbered(q))
      BY <2>2 DEF Numbered
    <3>4. ASSUME NEW q \in Process, Numbered(q)'
          PROVE  tx'[q].number < next' /\ tx'[q].number \notin DOMAIN journals'
      <4>1. CASE q = p
        BY <4>1, <1>1, <2>1, <2>2, <3>1
      <4>2. CASE q # p
        BY <4>2, <1>1, <2>2, <3>2, <3>3, <3>4 DEF Inv, OwnNumber
      <4> QED BY <4>1, <4>2
    <3>5. ASSUME NEW q \in Process, NEW r \in Process, Numbered(q)', Numbered(r)',
                 tx'[q].number = tx'[r].number
          PROVE  q = r
      <4>1. CASE q # p /\ r # p
        BY <4>1, <2>2, <3>3, <3>5 DEF Inv, OwnNumber
      <4>2. CASE q = p \/ r = p
        BY <4>2, <1>1, <2>1, <2>2, <3>2, <3>3, <3>5
      <4> QED BY <4>1, <4>2
    <3> QED BY <3>4, <3>5 DEF OwnNumber
  <2>6. PostedOnce'
    BY <1>1 DEF Inv, PostedOnce
  <2> QED BY <2>3, <2>4, <2>5, <2>6 DEF Inv
<1> QED BY <1>2, <1>3

(* A transaction that has its number keeps it while it goes on.            *)
LEMMA OnwardInv ==
  ASSUME Inv, NEW p \in Process, NEW t \in Transaction, Numbered(p),
         tx' = [tx EXCEPT ![p] = t], t.op = tx[p].op, t.number = tx[p].number, t.at = "lines",
         tx[p].at = "lines" \/ (~Held(p) /\ ~Committed(tx[p].op)),
         UNCHANGED <<journals, next>>
  PROVE  Inv'
<1>1. tx'[p] = t /\ \A q \in Process : q # p => tx'[q] = tx[q]
  BY DEF Inv, Shapes
<1>2. Shapes'
  BY DEF Inv, Shapes
<1>3. OneWriter'
  BY <1>1 DEF Inv, OneWriter, Committed, Held
<1>4. OwnNumber'
  BY <1>1 DEF Inv, OwnNumber, Numbered
<1>5. PostedOnce'
  BY DEF Inv, PostedOnce
<1> QED BY <1>2, <1>3, <1>4, <1>5 DEF Inv

LEMMA WaitOverInv ==
  ASSUME Inv, NEW p \in Process, WaitOver(p)
  PROVE  Inv'
<1>1. tx[p] \in Transaction /\ Numbered(p) /\ ~Held(p) /\ UNCHANGED <<journals, next>>
  BY DEF WaitOver, Ready, Numbered, Inv, Shapes
<1>2. CASE Committed(tx[p].op)
  BY <1>1, <1>2, IdleIsTransaction, BackInv DEF WaitOver
<1>3. CASE ~Committed(tx[p].op)
  <2> DEFINE t == [tx[p] EXCEPT !.at = "lines", !.line = 1]
  <2>1. t \in Transaction /\ t.op = tx[p].op /\ t.number = tx[p].number /\ t.at = "lines"
    BY <1>1, Lining DEF Transaction
  <2>2. tx' = [tx EXCEPT ![p] = t]
    BY <1>3 DEF WaitOver, Inv, Shapes
  <2> QED BY <1>1, <1>3, <2>1, <2>2, OnwardInv
<1> QED BY <1>2, <1>3

LEMMA ApplyLineInv ==
  ASSUME Inv, NEW p \in Process, ApplyLine(p)
  PROVE  Inv'
<1> DEFINE t == [tx[p] EXCEPT !.line = @ + 1]
<1>1. /\ tx[p] \in Transaction /\ tx[p].at = "lines" /\ Numbered(p)
      /\ UNCHANGED <<journals, next>>
  BY DEF ApplyLine, AtLine, Numbered, Inv, Shapes
<1>2. t \in Transaction /\ t.op = tx[p].op /\ t.number = tx[p].number /\ t.at = "lines"
  BY <1>1 DEF Transaction
<1>3. tx' = [tx EXCEPT ![p] = t]
  BY DEF ApplyLine, Inv, Shapes
<1> QED BY <1>1, <1>2, <1>3, OnwardInv

LEMMA CommitInv ==
  ASSUME Inv, NEW p \in Process, Commit(p)
  PROVE  Inv'
<1> DEFINE n == tx[p].number  o == tx[p].op
<1>1. /\ tx[p].at = "lines" /\ n \in Int /\ n < next /\ n \notin DOMAIN journals /\ ~Committed(o)
  BY DEF Commit, Inv, Shapes, Transaction, OneWriter, OwnNumber, Numbered
<1>2. /\ UNCHANGED next
      /\ tx'[p] = Idle /\ \A q \in Process : q # p => tx'[q] = tx[q]
      /\ tx' \in [Process -> Transaction]
  BY IdleIsTransaction DEF Commit, Inv, Shapes
<1>3. PICK i, d : i = n /\ d = o
  OBVIOUS
<1>4. /\ DOMAIN journals' = DOMAIN journals \cup {i}
      /\ journals'[i] = d /\ \A m \in DOMAIN journals : journals'[m] = journals[m]
  BY <1>1, <1>3 DEF Commit
<1> HIDE DEF n, o
<1>5. Shapes'
  BY <1>1, <1>2, <1>3, <1>4 DEF Inv, Shapes
<1>6. \A e : Committed(e)' => Committed(e) \/ e = d
  BY <1>4 DEF Committed
<1>7. OneWriter'
  <2>1. \A q \in Process : q # p /\ tx[q].at = "lines" => tx[q].op # d
    BY <1>1, <1>3 DEF Inv, OneWriter, o
  <2>2. \A q \in Process : tx'[q].at = "lines" => q # p
    BY <1>2 DEF Idle
  <2> QED BY <1>2, <1>6, <2>1, <2>2 DEF Inv, OneWriter
<1>8. OwnNumber'
  <2>1. \A q \in Process : q # p /\ Numbered(q) => tx[q].number # i
    BY <1>1, <1>3 DEF Inv, OwnNumber, Numbered, n
  <2>2. \A q \in Process : Numbered(q)' => q # p /\ Numbered(q)
    BY <1>2 DEF Numbered, Idle
  <2> QED BY <1>2, <1>4, <2>1, <2>2 DEF Inv, OwnNumber
<1>9. PostedOnce'
  <2>1. \A m \in DOMAIN journals : journals[m] # d
    BY <1>1, <1>3 DEF Committed
  <2> QED BY <1>4, <2>1 DEF Inv, PostedOnce
<1> QED BY <1>5, <1>7, <1>8, <1>9 DEF Inv

LEMMA RollBackInv ==
  ASSUME Inv, NEW p \in Process, Overdraw(p) \/ Fail(p) \/ Deadlock(p), Retries \in Int
  PROVE  Inv'
<1>1. PICK t \in Transaction : RollBack(p, t) /\ t.at \notin {"wait", "lines"}
  <2>1. CASE Overdraw(p) \/ Fail(p)
    BY <2>1, IdleIsTransaction DEF Overdraw, Fail
  <2>2. CASE Deadlock(p)
    <3> DEFINE t == [Idle EXCEPT !.at = "insert", !.op = tx[p].op, !.tries = tx[p].tries + 1]
    <3>0. tx[p].op \in Operation \cup {NoOp} /\ tx[p].tries + 1 \in Int
      BY DEF Transaction, Inv, Shapes
    <3>1. t \in Transaction /\ t.at = "insert"
      BY <3>0, Restarting, IdleIsTransaction DEF Transaction
    <3>2. RollBack(p, t) \/ RollBack(p, Idle)
      BY <2>2 DEF Deadlock
    <3> QED BY <3>1, <3>2, IdleIsTransaction
  <2> QED BY <2>1, <2>2
<1> QED BY <1>1, BackInv DEF RollBack

LEMMA NextInv ==
  ASSUME Inv, [Next]_vars
  PROVE  Inv'
<1>0. Retries \in Int
  BY LedgerAssumption DEF LedgerAssumption
<1>1. CASE \E p \in Process, o \in Operation : Begin(p, o)
  BY <1>1, BeginInv
<1>2. CASE \E p \in Process : Insert(p) \/ WaitOver(p) \/ ApplyLine(p) \/ Commit(p)
  BY <1>2, InsertInv, WaitOverInv, ApplyLineInv, CommitInv
<1>3. CASE \E p \in Process : Overdraw(p) \/ Fail(p) \/ Deadlock(p)
  BY <1>0, <1>3, RollBackInv
<1>4. CASE SealRange \/ SealInsert \/ UNCHANGED vars
  <2>1. UNCHANGED <<next, journals, tx>>
    BY <1>4 DEF SealRange, SealInsert, vars
  <2> QED BY <2>1 DEF Inv, Shapes, OneWriter, Committed, OwnNumber, Numbered, PostedOnce
<1> QED BY <1>1, <1>2, <1>3, <1>4 DEF Next, Step

(* The invariant of the writers of journals holds. *)
THEOREM InvHolds == Spec => []Inv
<1>1. Inv /\ [Next]_vars => Inv'
  BY NextInv
<1> QED BY <1>1, InitInv, PTL DEF Spec

(* An operation has one journal, however many processes post it at once    *)
(* and however often they are rolled back and tried again (post).          *)
THEOREM PostedOnceHolds == Spec => []PostedOnce
<1>1. Inv => PostedOnce
  BY DEF Inv
<1> QED BY <1>1, InvHolds, PTL

-----------------------------------------------------------------------------
(***************************************************************************)
(* The sums of entries, as sums over functions.                            *)
(***************************************************************************)
Lines(o) == 1 .. Len(LinesOf[o])
Before(o, l, a) == {i \in 1 .. l - 1 : LinesOf[o][i].account = a}
Deltas(o) == [i \in Lines(o) |-> Delta(LinesOf[o][i])]
SumTo(o, l, a) == SumFunctionOnSet(Deltas(o), Before(o, l, a))

Naturals(o, a) == [i \in Lines(o) |-> Natural(LinesOf[o], i, a)]
NaturalOf(o, a) == SumFunctionOnSet(Naturals(o, a), Lines(o))
Booked(js, a) == [n \in DOMAIN js |-> NaturalOf(js[n], a)]

Entry == [account : Account, side : Side, amount : Nat \ {0}]

LEMMA LinesAre ==
  ASSUME NEW o \in Operation
  PROVE  /\ DOMAIN LinesOf[o] = Lines(o) /\ Len(LinesOf[o]) \in Nat /\ IsFiniteSet(Lines(o))
         /\ \A i \in Lines(o) : LinesOf[o][i] \in Entry
<1>1. LinesOf[o] \in Seq(Entry)
  BY LedgerAssumption DEF LedgerAssumption, Entry
<1>2. Len(LinesOf[o]) \in Nat /\ DOMAIN LinesOf[o] = 1 .. Len(LinesOf[o])
      /\ \A i \in 1 .. Len(LinesOf[o]) : LinesOf[o][i] \in Entry
  BY <1>1
<1> QED BY <1>2, FS_Interval DEF Lines

AppliedAdds(o, S, g) ==
  g = [s \in SUBSET S |-> IF s = {} THEN 0 ELSE Delta(LinesOf[o][Pick(s)]) + g[s \ {Pick(s)}]]
NaturalAdds(o, a, S, g) ==
  g = [s \in SUBSET S |-> IF s = {} THEN 0 ELSE Natural(LinesOf[o], Pick(s), a) + g[s \ {Pick(s)}]]
JournalAdds(js, a, S, g) ==
  g = [s \in SUBSET S |->
         IF s = {} THEN 0 ELSE MovedBy(LinesOf[js[Pick(s)]], a) + g[s \ {Pick(s)}]]

(* NaturalSum of the journals js.                                          *)
NaturalAt(js, a) == SumFunctionOnSet(Booked(js, a), DOMAIN js)

LEMMA MovedByIs ==
  ASSUME NEW o \in Operation, NEW a
  PROVE  MovedBy(LinesOf[o], a) = NaturalOf(o, a)
<1> DEFINE S == Lines(o)
<1>0. DOMAIN LinesOf[o] = S
  BY LinesAre
<1>1. MovedBy(LinesOf[o], a) = (CHOOSE g : NaturalAdds(o, a, S, g))[S]
  BY <1>0 DEF MovedBy, MapThenSumSet, MapThenFoldSet, Pick, NaturalAdds
<1>2. ASSUME NEW g PROVE NaturalAdds(o, a, S, g) <=> Adds(Naturals(o, a), S, g)
  <2>1. \A s \in SUBSET S : s # {} => Naturals(o, a)[Pick(s)] = Natural(LinesOf[o], Pick(s), a)
    BY PickIsIn DEF Naturals
  <2> QED BY <2>1 DEF Adds, NaturalAdds
<1>3. (CHOOSE g : NaturalAdds(o, a, S, g)) = CHOOSE g : Adds(Naturals(o, a), S, g)
  BY <1>2
<1> QED BY <1>1, <1>3, SumIsChosen DEF NaturalOf

LEMMA NaturalAddsIs ==
  ASSUME NEW js, NEW a, \A n \in DOMAIN js : js[n] \in Operation
  PROVE  (CHOOSE g : JournalAdds(js, a, DOMAIN js, g))[DOMAIN js] = NaturalAt(js, a)
<1> DEFINE S == DOMAIN js
<1>2. ASSUME NEW g PROVE JournalAdds(js, a, S, g) <=> Adds(Booked(js, a), S, g)
  <2>1. \A s \in SUBSET S : s # {} => Booked(js, a)[Pick(s)] = MovedBy(LinesOf[js[Pick(s)]], a)
    BY PickIsIn, MovedByIs DEF Booked
  <2> QED BY <2>1 DEF Adds, JournalAdds
<1>3. (CHOOSE g : JournalAdds(js, a, S, g)) = CHOOSE g : Adds(Booked(js, a), S, g)
  BY <1>2
<1> QED BY <1>3, SumIsChosen DEF NaturalAt

LEMMA NaturalSumIs ==
  ASSUME NEW a, \A n \in DOMAIN journals : journals[n] \in Operation
  PROVE  NaturalSum(a) = NaturalAt(journals, a)
<1>1. NaturalSum(a) = (CHOOSE g : JournalAdds(journals, a, DOMAIN journals, g))[DOMAIN journals]
  BY DEF NaturalSum, MapThenSumSet, MapThenFoldSet, Pick, JournalAdds
<1> QED BY <1>1, NaturalAddsIs

LEMMA AppliedAddsIs ==
  ASSUME NEW o \in Operation, NEW l \in Int, l <= Len(LinesOf[o]) + 1, NEW a
  PROVE  (CHOOSE g : AppliedAdds(o, Before(o, l, a), g))[Before(o, l, a)] = SumTo(o, l, a)
<1> DEFINE S == Before(o, l, a)
<1>1. S \subseteq Lines(o)
  BY LinesAre DEF Lines, Before
<1>2. ASSUME NEW g PROVE AppliedAdds(o, S, g) <=> Adds(Deltas(o), S, g)
  <2>1. \A s \in SUBSET S : s # {} => Deltas(o)[Pick(s)] = Delta(LinesOf[o][Pick(s)])
    BY <1>1, PickIsIn DEF Deltas
  <2> QED BY <2>1 DEF Adds, AppliedAdds
<1>3. (CHOOSE g : AppliedAdds(o, S, g)) = CHOOSE g : Adds(Deltas(o), S, g)
  BY <1>2
<1> QED BY <1>3, SumIsChosen DEF SumTo

LEMMA AppliedIs ==
  ASSUME NEW p \in Process, NEW a, Projected(a), tx[p].op \in Operation,
         tx[p].line \in Int, tx[p].line <= Len(LinesOf[tx[p].op]) + 1
  PROVE  Applied(p, a) = SumTo(tx[p].op, tx[p].line, a)
<1>1. Applied(p, a) = (CHOOSE g : AppliedAdds(tx[p].op, Before(tx[p].op, tx[p].line, a), g))
                        [Before(tx[p].op, tx[p].line, a)]
  BY DEF Applied, MapThenSumSet, MapThenFoldSet, Pick, AppliedAdds, Before
<1> QED BY <1>1, AppliedAddsIs

LEMMA DeltasAre ==
  ASSUME NEW o \in Operation
  PROVE  \A i \in Lines(o) : Deltas(o)[i] = Delta(LinesOf[o][i]) /\ Deltas(o)[i] \in Int
<1> SUFFICES ASSUME NEW i \in Lines(o) PROVE Deltas(o)[i] = Delta(LinesOf[o][i]) /\ Deltas(o)[i] \in Int
  OBVIOUS
<1>1. LinesOf[o][i].amount \in Nat
  BY LinesAre DEF Entry
<1> QED BY <1>1 DEF Deltas, Delta

LEMMA BeforeIs ==
  ASSUME NEW o \in Operation, NEW l \in Int, l <= Len(LinesOf[o]) + 1, NEW a
  PROVE  Before(o, l, a) \in SUBSET Lines(o) /\ IsFiniteSet(Before(o, l, a)) /\ SumTo(o, l, a) \in Int
<1>1. Before(o, l, a) \in SUBSET Lines(o)
  BY LinesAre DEF Before, Lines
<1>2. IsFiniteSet(Before(o, l, a))
  BY <1>1, LinesAre, FS_Subset
<1>3. \A i \in Before(o, l, a) : Deltas(o)[i] \in Int
  BY <1>1, DeltasAre
<1> QED BY <1>1, <1>2, <1>3, SumIsInt DEF SumTo

(* Before the first line nothing has moved; a line moves its own account.  *)
LEMMA SumToStart ==
  ASSUME NEW o \in Operation, NEW l \in Int, NEW a, \A i \in 1 .. l - 1 : LinesOf[o][i].account # a
  PROVE  SumTo(o, l, a) = 0
<1>1. Before(o, l, a) = {}
  BY DEF Before
<1> QED BY <1>1, SumOfNone DEF SumTo

LEMMA SumToStep ==
  ASSUME NEW o \in Operation, NEW l \in Int, 1 <= l, l <= Len(LinesOf[o]), NEW a
  PROVE  SumTo(o, l + 1, a) =
           SumTo(o, l, a) + (IF LinesOf[o][l].account = a THEN Delta(LinesOf[o][l]) ELSE 0)
<1>0. l \in Lines(o) /\ l + 1 \in Int /\ l + 1 <= Len(LinesOf[o]) + 1 /\ l <= Len(LinesOf[o]) + 1
  BY LinesAre DEF Lines
<1>1. IsFiniteSet(Before(o, l, a)) /\ SumTo(o, l, a) \in Int
  BY <1>0, BeforeIs
<1>2. CASE LinesOf[o][l].account # a
  <2>1. Before(o, l + 1, a) = Before(o, l, a)
    BY <1>0, <1>2 DEF Before
  <2> QED BY <1>1, <1>2, <2>1 DEF SumTo
<1>3. CASE LinesOf[o][l].account = a
  <2>1. Before(o, l + 1, a) = Before(o, l, a) \cup {l} /\ l \notin Before(o, l, a)
    BY <1>0, <1>3 DEF Before
  <2>2. \A i \in Before(o, l, a) \cup {l} : Deltas(o)[i] \in Int
    <3>1. Before(o, l, a) \in SUBSET Lines(o)
      BY <1>0, BeforeIs
    <3> QED BY <1>0, <3>1, DeltasAre
  <2>3. SumFunctionOnSet(Deltas(o), Before(o, l, a) \cup {l})
          = SumFunctionOnSet(Deltas(o), Before(o, l, a)) + Deltas(o)[l]
    BY <1>1, <2>1, <2>2, SumAdd
  <2>4. Deltas(o)[l] = Delta(LinesOf[o][l])
    BY <1>0, DeltasAre
  <2> QED BY <1>3, <2>1, <2>3, <2>4 DEF SumTo
<1> QED BY <1>2, <1>3

(* What a whole operation moves is what its journal says.                  *)
LEMMA NaturalIsSum ==
  ASSUME NEW o \in Operation, NEW a \in Account, Projected(a)
  PROVE  NaturalOf(o, a) = SumTo(o, Len(LinesOf[o]) + 1, a) /\ NaturalOf(o, a) \in Int
<1> DEFINE T == Before(o, Len(LinesOf[o]) + 1, a)
<1>0. Len(LinesOf[o]) \in Nat
  BY LinesAre
<1>1. T \in SUBSET Lines(o) /\ SumTo(o, Len(LinesOf[o]) + 1, a) \in Int
  BY <1>0, BeforeIs
<1>2. \A i \in T : Deltas(o)[i] \in Int /\ Naturals(o, a)[i] = Deltas(o)[i]
  <2> SUFFICES ASSUME NEW i \in T PROVE Deltas(o)[i] \in Int /\ Naturals(o, a)[i] = Deltas(o)[i]
    OBVIOUS
  <2>1. /\ i \in Lines(o) /\ LinesOf[o][i].account = a /\ LinesOf[o][i].side \in Side
        /\ Deltas(o)[i] = Delta(LinesOf[o][i]) /\ Deltas(o)[i] \in Int
    BY <1>1, LinesAre, DeltasAre DEF Before, Entry
  <2>2. Naturals(o, a)[i] = Natural(LinesOf[o], i, a)
    BY <2>1 DEF Naturals
  <2> QED BY <2>1, <2>2 DEF Natural, Delta, Side, Projected
<1>3. \A i \in Lines(o) \ T : Naturals(o, a)[i] = 0
  BY <1>0 DEF Naturals, Natural, Before, Lines
<1>4. IsFiniteSet(Lines(o))
  BY LinesAre
<1> HIDE DEF T
<1>5. SumFunctionOnSet(Deltas(o), T) = SumFunctionOnSet(Naturals(o, a), Lines(o))
  BY <1>1, <1>2, <1>3, <1>4, SumOfSome
<1> QED BY <1>1, <1>5 DEF T, SumTo, NaturalOf

-----------------------------------------------------------------------------
(***************************************************************************)
(* The invariant of the balances.  Between transactions a balance is the   *)
(* sum of the committed entries; the one transaction that has it locked    *)
(* has moved it by the lines it has applied, and all others have applied   *)
(* none to that account (Untouched).  The committed sum is never negative, *)
(* so that a rollback does not make a balance negative.                    *)
(***************************************************************************)
Posting(p) == tx[p].at = "lines"

MoneyTypes ==
  /\ balance \in [Account -> Nat] /\ holder \in [Account -> Process \cup {NoOne}]
  /\ \A n \in DOMAIN journals : journals[n] \in Operation
  /\ IsFiniteSet(DOMAIN journals)
  /\ \A p \in Process : tx[p].at # "idle" => tx[p].op \in Operation
  /\ \A p \in Process : Posting(p) => 1 <= tx[p].line /\ tx[p].line <= Len(LinesOf[tx[p].op]) + 1

HoldersPost == \A a \in Account : holder[a] # NoOne => Posting(holder[a]) /\ Projected(a)

Untouched ==
  \A p \in Process, a \in Account :
    Posting(p) /\ Projected(a) /\ holder[a] # p =>
      \A i \in 1 .. tx[p].line - 1 : LinesOf[tx[p].op][i].account # a

Balanced ==
  \A a \in Account : Projected(a) =>
    /\ NaturalAt(journals, a) \in Nat
    /\ holder[a] = NoOne => balance[a] = NaturalAt(journals, a)
    /\ \A p \in Process : holder[a] = p =>
         balance[a] = NaturalAt(journals, a) + SumTo(tx[p].op, tx[p].line, a)

MoneyInv == MoneyTypes /\ HoldersPost /\ Untouched /\ Balanced

Adding(js, n, o, ks) ==
  /\ IsFiniteSet(DOMAIN js) /\ \A m \in DOMAIN js : js[m] \in Operation
  /\ n \notin DOMAIN js /\ DOMAIN ks = DOMAIN js \cup {n}
  /\ ks[n] = o /\ \A m \in DOMAIN js : ks[m] = js[m]

LEMMA OneJournalMore ==
  ASSUME NEW js, NEW n, NEW o \in Operation, NEW ks, Adding(js, n, o, ks), NEW a \in Account, Projected(a)
  PROVE  NaturalAt(ks, a) = NaturalAt(js, a) + NaturalOf(o, a)
<1> DEFINE f == Booked(js, a)  g == Booked(ks, a)
<1>1. /\ \A m \in DOMAIN js : f[m] = NaturalOf(js[m], a) /\ g[m] = f[m] /\ f[m] \in Int
      /\ g[n] = NaturalOf(o, a) /\ g[n] \in Int
  BY NaturalIsSum DEF Booked, Adding
<1> HIDE DEF f, g
<1>2. SumFunctionOnSet(g, DOMAIN js \cup {n}) = SumFunctionOnSet(g, DOMAIN js) + g[n]
  BY <1>1, SumAdd DEF Adding
<1>3. SumFunctionOnSet(g, DOMAIN js) = SumFunctionOnSet(f, DOMAIN js)
  BY <1>1, SumSame DEF Adding
<1> QED BY <1>1, <1>2, <1>3 DEF NaturalAt, Adding, f, g

LEMMA MoneyInit == Init => MoneyInv
<1> SUFFICES ASSUME Init PROVE MoneyInv
  OBVIOUS
<1>1. DOMAIN journals = {} /\ IsFiniteSet(DOMAIN journals)
  BY FS_EmptySet DEF Init
<1>2. \A p \in Process : tx[p].at = "idle"
  BY DEF Init, Idle
<1>3. MoneyTypes /\ HoldersPost /\ Untouched
  BY <1>1, <1>2 DEF Init, MoneyTypes, HoldersPost, Untouched, Posting
<1>4. \A a \in Account : NaturalAt(journals, a) = 0
  BY <1>1, SumOfNone DEF NaturalAt
<1>5. Balanced
  BY <1>4, NobodyAssumption DEF Init, Balanced, NobodyAssumption
<1> QED BY <1>3, <1>5 DEF MoneyInv

(* A transaction that holds nothing goes on and applies nothing.           *)
LEMMA QuietMoney ==
  ASSUME MoneyInv, Inv, NEW p \in Process, NEW t \in Transaction, tx' = [tx EXCEPT ![p] = t],
         ~Posting(p), t.at # "idle" => t.op \in Operation, t.at = "lines" => t.line = 1,
         UNCHANGED <<journals, balance, holder>>
  PROVE  MoneyInv'
<1>1. tx'[p] = t /\ \A q \in Process : q # p => tx'[q] = tx[q]
  BY DEF Inv, Shapes
<1>2. t.at = "lines" => Len(LinesOf[t.op]) \in Nat
  BY LinesAre
<1>3. MoneyTypes'
  BY <1>1, <1>2 DEF MoneyInv, MoneyTypes, Posting
<1>4. HoldersPost'
  BY <1>1 DEF MoneyInv, MoneyTypes, HoldersPost, Posting, Projected
<1>5. Untouched'
  BY <1>1 DEF MoneyInv, Untouched, Posting, Projected
<1>6. \A a \in Account : holder[a] # p
  BY NobodyAssumption DEF NobodyAssumption, MoneyInv, HoldersPost
<1>7. Balanced'
  BY <1>1, <1>6 DEF MoneyInv, Balanced, Projected
<1> QED BY <1>3, <1>4, <1>5, <1>7 DEF MoneyInv

LEMMA BeginMoney ==
  ASSUME MoneyInv, Inv, NEW p \in Process, NEW o \in Operation, Begin(p, o)
  PROVE  MoneyInv'
<1> DEFINE t == [Idle EXCEPT !.at = "insert", !.op = o]
<1>1. t \in Transaction /\ t.at = "insert" /\ t.op = o
  BY IdleIsTransaction, StagesAre DEF Transaction, Idle
<1>2. tx' = [tx EXCEPT ![p] = t] /\ ~Posting(p) /\ UNCHANGED <<journals, balance, holder>>
  BY DEF Begin, Posting, Idle
<1> QED BY <1>1, <1>2, QuietMoney

LEMMA InsertMoney ==
  ASSUME MoneyInv, Inv, NEW p \in Process, Insert(p) \/ WaitOver(p)
  PROVE  MoneyInv'
<1>1. /\ tx[p].at \in {"insert", "wait"} /\ tx[p].op \in Operation /\ tx[p] \in Transaction
      /\ UNCHANGED <<journals, balance, holder>> /\ next \in Int
  BY DEF Insert, WaitOver, MoneyInv, MoneyTypes, Inv, Shapes
<1>2. PICK t \in Transaction : /\ tx' = [tx EXCEPT ![p] = t]
                               /\ t.at # "idle" => t.op = tx[p].op
                               /\ t.at = "lines" => t.line = 1
  <2>1. CASE Committed(tx[p].op)
    <3>1. tx' = [tx EXCEPT ![p] = Idle] /\ Idle.at = "idle"
      BY <2>1 DEF Insert, WaitOver, Idle
    <3> QED BY <3>1, IdleIsTransaction
  <2>2. CASE ~Committed(tx[p].op) /\ Insert(p) /\ Held(p)
    <3> DEFINE t == [tx[p] EXCEPT !.at = "wait", !.number = next]
    <3>1. t \in Transaction /\ t.op = tx[p].op /\ t.at = "wait"
      BY <1>1, StagesAre DEF Transaction
    <3>2. tx' = [tx EXCEPT ![p] = t]
      BY <2>2 DEF Insert, Inv, Shapes
    <3> QED BY <3>1, <3>2
  <2>3. CASE ~Committed(tx[p].op) /\ Insert(p) /\ ~Held(p)
    <3> DEFINE t == [tx[p] EXCEPT !.at = "lines", !.number = next, !.line = 1]
    <3>1. t \in Transaction /\ t.op = tx[p].op /\ t.line = 1
      BY <1>1, Lining DEF Transaction
    <3>2. tx' = [tx EXCEPT ![p] = t]
      BY <2>3 DEF Insert, Inv, Shapes
    <3> QED BY <3>1, <3>2
  <2>4. CASE ~Committed(tx[p].op) /\ WaitOver(p)
    <3> DEFINE t == [tx[p] EXCEPT !.at = "lines", !.line = 1]
    <3>1. t \in Transaction /\ t.op = tx[p].op /\ t.line = 1
      BY <1>1, Lining DEF Transaction
    <3>2. tx' = [tx EXCEPT ![p] = t]
      BY <2>4 DEF WaitOver, Inv, Shapes
    <3> QED BY <3>1, <3>2
  <2> QED BY <2>1, <2>2, <2>3, <2>4
<1>3. ~Posting(p)
  BY <1>1 DEF Posting
<1> QED BY <1>1, <1>2, <1>3, QuietMoney

(* A line moves the balance of its account, which nobody else has locked.  *)
LEMMA ApplyLineMoney ==
  ASSUME MoneyInv, Inv, NEW p \in Process, ApplyLine(p)
  PROVE  MoneyInv'
<1>1. PICK o \in Operation, k \in Int : o = tx[p].op /\ k = tx[p].line
  BY DEF ApplyLine, AtLine, MoneyInv, MoneyTypes, Inv, Shapes, Transaction
<1>2. /\ Posting(p) /\ 1 <= k /\ k <= Len(LinesOf[o]) /\ tx[p] \in Transaction
      /\ Len(LinesOf[o]) \in Nat /\ UNCHANGED journals
  BY <1>1, LinesAre DEF ApplyLine, AtLine, Posting, MoneyInv, MoneyTypes, Inv, Shapes
<1>3. PICK l \in Entry : l = LinesOf[o][k] /\ l = Line(p)
  BY <1>1, <1>2, LinesAre DEF Lines, Line
<1>4. /\ tx'[p].at = "lines" /\ tx'[p].op = o /\ tx'[p].line = k + 1
      /\ \A q \in Process : q # p => tx'[q] = tx[q]
  BY <1>1, <1>2 DEF ApplyLine, Posting, Inv, Shapes, Transaction
<1>5. l.account \in Account /\ Delta(l) \in Int
  BY DEF Entry, Delta
<1>8. \A q \in Process :
        /\ tx'[q].at # "idle" => tx'[q].op \in Operation
        /\ Posting(q)' => 1 <= tx'[q].line /\ tx'[q].line <= Len(LinesOf[tx'[q].op]) + 1
  <2>1. ASSUME NEW q \in Process, q # p
        PROVE  /\ tx'[q].at # "idle" => tx'[q].op \in Operation
               /\ Posting(q)' => 1 <= tx'[q].line /\ tx'[q].line <= Len(LinesOf[tx'[q].op]) + 1
    BY <1>4, <2>1 DEF MoneyInv, MoneyTypes, Posting
  <2>2. 1 <= k + 1 /\ k + 1 <= Len(LinesOf[o]) + 1
    BY <1>2
  <2> QED BY <1>4, <2>1, <2>2
<1>6. CASE Projected(l.account)
  <2>0. PICK a \in Account, d \in Int : a = l.account /\ d = Delta(l)
    BY <1>5
  <2>1. /\ balance' = [balance EXCEPT ![a] = @ + d] /\ holder' = [holder EXCEPT ![a] = p]
        /\ holder[a] \in {NoOne, p} /\ balance[a] + d >= 0
    BY <1>1, <1>2, <1>3, <1>5, <1>6, <2>0
       DEF ApplyLine, Locked, Overdraws, AtLine, Posting, MoneyInv, MoneyTypes
  <2>2. /\ balance'[a] = balance[a] + d /\ holder'[a] = p
        /\ balance' \in [Account -> Nat] /\ holder' \in [Account -> Process \cup {NoOne}]
        /\ \A b \in Account : b # a => balance'[b] = balance[b] /\ holder'[b] = holder[b]
    BY <2>1 DEF MoneyInv, MoneyTypes
  <2>3. MoneyTypes'
    BY <1>2, <1>8, <2>2 DEF MoneyInv, MoneyTypes
  <2>4. HoldersPost'
    BY <1>2, <1>4, <1>6, <2>0, <2>2 DEF MoneyInv, HoldersPost, Posting, Projected
  <2>5. Untouched'
    <3> SUFFICES ASSUME NEW q \in Process, NEW b \in Account, Posting(q)', Projected(b), holder'[b] # q
                 PROVE  \A i \in 1 .. tx'[q].line - 1 : LinesOf[tx'[q].op][i].account # b
      BY DEF Untouched, Projected
    <3>1. CASE q = p
      <4>1. b # a /\ holder[b] # p
        BY <2>2, <3>1
      <4>2. \A i \in 1 .. k - 1 : LinesOf[o][i].account # b
        BY <1>1, <1>2, <3>1, <4>1 DEF MoneyInv, Untouched
      <4>3. LinesOf[o][k].account # b
        BY <1>3, <2>0, <4>1
      <4> QED BY <1>4, <3>1, <4>2, <4>3
    <3>2. CASE q # p
      <4>1. Posting(q) /\ tx'[q] = tx[q]
        BY <1>4, <3>2 DEF Posting
      <4>2. holder[b] # q
        BY <2>1, <2>2, <3>2, NobodyAssumption DEF NobodyAssumption
      <4> QED BY <4>1, <4>2 DEF MoneyInv, Untouched
    <3> QED BY <3>1, <3>2
  <2>6. Balanced'
    <3> SUFFICES ASSUME NEW b \in Account, Projected(b)
                 PROVE  /\ NaturalAt(journals, b) \in Nat
                        /\ holder'[b] = NoOne => balance'[b] = NaturalAt(journals, b)
                        /\ \A q \in Process : holder'[b] = q =>
                             balance'[b] = NaturalAt(journals, b) + SumTo(tx'[q].op, tx'[q].line, b)
      BY <1>2 DEF Balanced, Projected
    <3>0. NaturalAt(journals, b) \in Nat
      BY DEF MoneyInv, Balanced
    <3>1. CASE b = a
      <4>1. SumTo(o, k + 1, a) = SumTo(o, k, a) + d
        BY <1>2, <1>3, <2>0, SumToStep
      <4>2. balance[a] = NaturalAt(journals, a) + SumTo(o, k, a)
        <5>1. CASE holder[a] = p
          BY <1>1, <1>6, <2>0, <5>1 DEF MoneyInv, Balanced
        <5>2. CASE holder[a] # p
          <6>1. balance[a] = NaturalAt(journals, a)
            BY <1>6, <2>0, <2>1, <5>2 DEF MoneyInv, Balanced
          <6>2. \A i \in 1 .. k - 1 : LinesOf[o][i].account # a
            BY <1>1, <1>2, <1>6, <2>0, <5>2 DEF MoneyInv, Untouched
          <6>3. SumTo(o, k, a) = 0
            BY <6>2, SumToStart
          <6> QED BY <3>0, <3>1, <6>1, <6>3
        <5> QED BY <5>1, <5>2
      <4>3. SumTo(o, k, a) \in Int
        BY <1>2, BeforeIs
      <4>4. balance'[a] = NaturalAt(journals, a) + SumTo(o, k + 1, a)
        BY <2>2, <3>0, <3>1, <4>1, <4>2, <4>3
      <4> QED BY <1>4, <2>2, <3>0, <3>1, <4>4, NobodyAssumption DEF NobodyAssumption
    <3>2. CASE b # a
      <4>1. balance'[b] = balance[b] /\ holder'[b] = holder[b]
        BY <2>2, <3>2
      <4>2. ASSUME NEW q \in Process, holder[b] = q
            PROVE  SumTo(tx'[q].op, tx'[q].line, b) = SumTo(tx[q].op, tx[q].line, b)
        <5>1. CASE q # p
          BY <1>4, <5>1
        <5>2. CASE q = p
          <6>0. LinesOf[o][k].account # b
            BY <1>3, <2>0, <3>2
          <6>1. SumTo(o, k + 1, b) = SumTo(o, k, b) + 0
            BY <1>2, <6>0, SumToStep
          <6>2. SumTo(o, k, b) \in Int
            BY <1>2, BeforeIs
          <6> QED BY <1>1, <1>4, <5>2, <6>1, <6>2
        <5> QED BY <5>1, <5>2
      <4> QED BY <3>0, <4>1, <4>2 DEF MoneyInv, Balanced
    <3> QED BY <3>1, <3>2
  <2> QED BY <2>3, <2>4, <2>5, <2>6 DEF MoneyInv
<1>7. CASE ~Projected(l.account)
  <2>1. UNCHANGED <<balance, holder>>
    BY <1>3, <1>7 DEF ApplyLine
  <2>2. MoneyTypes'
    BY <1>2, <1>8, <2>1 DEF MoneyInv, MoneyTypes
  <2>3. HoldersPost'
    BY <1>4, <2>1 DEF MoneyInv, MoneyTypes, HoldersPost, Posting, Projected
  <2>4. Untouched'
    <3> SUFFICES ASSUME NEW q \in Process, NEW b \in Account, Posting(q)', Projected(b), holder'[b] # q
                 PROVE  \A i \in 1 .. tx'[q].line - 1 : LinesOf[tx'[q].op][i].account # b
      BY DEF Untouched, Projected
    <3>1. CASE q = p
      <4>2. \A i \in 1 .. k - 1 : LinesOf[o][i].account # b
        BY <1>1, <1>2, <2>1, <3>1 DEF MoneyInv, Untouched
      <4>3. LinesOf[o][k].account # b
        BY <1>3, <1>7
      <4> QED BY <1>4, <3>1, <4>2, <4>3
    <3>2. CASE q # p
      BY <1>4, <2>1, <3>2 DEF MoneyInv, Untouched, Posting
    <3> QED BY <3>1, <3>2
  <2>5. Balanced'
    <3>1. ASSUME NEW b \in Account, Projected(b), NEW q \in Process
          PROVE  SumTo(tx'[q].op, tx'[q].line, b) = SumTo(tx[q].op, tx[q].line, b)
      <4>1. CASE q # p
        BY <1>4, <4>1
      <4>2. CASE q = p
        <5>1. SumTo(o, k + 1, b) = SumTo(o, k, b) + 0
          BY <1>2, <1>3, <1>7, <3>1, SumToStep
        <5>2. SumTo(o, k, b) \in Int
          BY <1>2, BeforeIs
        <5> QED BY <1>1, <1>4, <4>2, <5>1, <5>2
      <4> QED BY <4>1, <4>2
    <3> QED BY <1>2, <2>1, <3>1 DEF MoneyInv, Balanced, Projected
  <2> QED BY <2>2, <2>3, <2>4, <2>5 DEF MoneyInv
<1> QED BY <1>6, <1>7

(* Whoever ends lets go of his locks; the others keep theirs.              *)
LEMMA ReleaseIs ==
  ASSUME MoneyTypes, NEW p \in Process, Release(p)
  PROVE  /\ holder' \in [Account -> Process \cup {NoOne}]
         /\ \A a \in Account : holder'[a] = IF holder[a] = p THEN NoOne ELSE holder[a]
BY DEF Release, MoneyTypes

(* With a commit the lines that were applied become those of a journal.    *)
LEMMA CommitMoney ==
  ASSUME MoneyInv, Inv, NEW p \in Process, Commit(p)
  PROVE  MoneyInv'
<1>0. PICK n \in Int, o \in Operation, k \in Int : n = tx[p].number /\ o = tx[p].op /\ k = tx[p].line
  BY DEF Commit, MoneyInv, MoneyTypes, Inv, Shapes, Transaction
<1>1. /\ Posting(p) /\ k = Len(LinesOf[o]) + 1 /\ n \notin DOMAIN journals /\ UNCHANGED balance
      /\ Len(LinesOf[o]) \in Nat
  <2>1. /\ Posting(p) /\ n \notin DOMAIN journals /\ UNCHANGED balance /\ k > Len(LinesOf[o])
    BY <1>0 DEF Commit, Posting, Inv, OwnNumber, Numbered
  <2>2. Len(LinesOf[o]) \in Nat /\ k <= Len(LinesOf[o]) + 1
    BY <1>0, <2>1, LinesAre DEF MoneyInv, MoneyTypes
  <2> QED BY <2>1, <2>2
<1>2. /\ DOMAIN journals' = DOMAIN journals \cup {n} /\ journals'[n] = o
      /\ \A m \in DOMAIN journals : journals'[m] = journals[m]
  BY <1>0, <1>1 DEF Commit
<1>3. /\ tx'[p] = Idle /\ Idle.at = "idle" /\ \A q \in Process : q # p => tx'[q] = tx[q]
  BY DEF Commit, Inv, Shapes, Idle
<1>4. /\ holder' \in [Account -> Process \cup {NoOne}]
      /\ \A a \in Account : holder'[a] = IF holder[a] = p THEN NoOne ELSE holder[a]
  BY ReleaseIs DEF Commit, MoneyInv
<1>5. IsFiniteSet(DOMAIN journals')
  BY <1>2, FS_AddElement DEF MoneyInv, MoneyTypes
<1>6. MoneyTypes'
  BY <1>1, <1>2, <1>3, <1>4, <1>5 DEF MoneyInv, MoneyTypes, Posting
<1>7. HoldersPost'
  BY <1>3, <1>4 DEF MoneyInv, HoldersPost, Posting, Projected
<1>8. Untouched'
  <2> SUFFICES ASSUME NEW q \in Process, NEW b \in Account, Posting(q)', Projected(b), holder'[b] # q
               PROVE  \A i \in 1 .. tx'[q].line - 1 : LinesOf[tx'[q].op][i].account # b
    BY DEF Untouched, Projected
  <2>1. q # p /\ tx'[q] = tx[q] /\ Posting(q) /\ holder[b] # q
    BY <1>3, <1>4 DEF Posting
  <2> QED BY <2>1 DEF MoneyInv, Untouched
<1>9. Balanced'
  <2> SUFFICES ASSUME NEW a \in Account, Projected(a)
               PROVE  /\ NaturalAt(journals', a) \in Nat
                      /\ holder'[a] = NoOne => balance[a] = NaturalAt(journals', a)
                      /\ \A q \in Process : holder'[a] = q =>
                           balance[a] = NaturalAt(journals', a) + SumTo(tx'[q].op, tx'[q].line, a)
    BY <1>1 DEF Balanced, Projected
  <2>1. NaturalAt(journals', a) = NaturalAt(journals, a) + NaturalOf(o, a)
    <3>1. IsFiniteSet(DOMAIN journals) /\ \A m \in DOMAIN journals : journals[m] \in Operation
      BY DEF MoneyInv, MoneyTypes
    <3>2. PICK ks : ks = journals'
      OBVIOUS
    <3>3. DOMAIN ks = DOMAIN journals \cup {n} /\ ks[n] = o /\ \A m \in DOMAIN journals : ks[m] = journals[m]
      BY <1>2, <3>2
    <3>4. Adding(journals, n, o, ks)
      BY <1>1, <3>1, <3>3 DEF Adding
    <3>5. NaturalAt(ks, a) = NaturalAt(journals, a) + NaturalOf(o, a)
      BY <3>4, OneJournalMore
    <3> QED BY <3>2, <3>5
  <2>2. NaturalOf(o, a) = SumTo(o, k, a)
    BY <1>1, NaturalIsSum
  <2>3. NaturalAt(journals, a) \in Nat /\ balance[a] \in Nat
    BY DEF MoneyInv, Balanced, MoneyTypes
  <2>4. CASE holder[a] = p
    <3>1. balance[a] = NaturalAt(journals', a)
      BY <1>0, <2>1, <2>2, <2>4 DEF MoneyInv, Balanced
    <3>2. holder'[a] = NoOne
      BY <1>4, <2>4
    <3> QED BY <2>3, <3>1, <3>2, NobodyAssumption DEF NobodyAssumption
  <2>5. CASE holder[a] # p
    <3>1. SumTo(o, k, a) = 0
      <4>1. \A i \in 1 .. k - 1 : LinesOf[o][i].account # a
        BY <1>0, <1>1, <2>5 DEF MoneyInv, Untouched
      <4> QED BY <4>1, SumToStart
    <3>2. NaturalAt(journals', a) = NaturalAt(journals, a)
      BY <2>1, <2>2, <2>3, <3>1
    <3>3. holder'[a] = holder[a]
      BY <1>4, <2>5
    <3> QED BY <1>3, <2>3, <2>5, <3>2, <3>3 DEF MoneyInv, Balanced
  <2> QED BY <2>4, <2>5
<1> QED BY <1>6, <1>7, <1>8, <1>9 DEF MoneyInv

(* A rollback takes back the lines that were applied, no more and no less. *)
LEMMA RollBackMoney ==
  ASSUME MoneyInv, Inv, NEW p \in Process, NEW t \in Transaction, RollBack(p, t),
         t.at # "lines", t.at # "idle" => t.op \in Operation
  PROVE  MoneyInv'
<1>1. /\ tx'[p] = t /\ \A q \in Process : q # p => tx'[q] = tx[q]
      /\ UNCHANGED journals
  BY DEF RollBack, Inv, Shapes
<1>2. /\ holder' \in [Account -> Process \cup {NoOne}]
      /\ \A a \in Account : holder'[a] = IF holder[a] = p THEN NoOne ELSE holder[a]
  BY ReleaseIs DEF RollBack, MoneyInv
<1>3. ASSUME NEW a \in Account
      PROVE  balance'[a] = IF holder[a] = p THEN NaturalAt(journals, a) ELSE balance[a]
  <2>1. balance'[a] = balance[a] - (IF Posting(p) THEN Applied(p, a) ELSE 0) /\ balance[a] \in Nat
    BY DEF RollBack, Posting, MoneyInv, MoneyTypes
  <2>2. CASE ~Posting(p) \/ ~Projected(a)
    <3>1. holder[a] # p
      BY <2>2, NobodyAssumption DEF NobodyAssumption, MoneyInv, HoldersPost
    <3>2. Posting(p) => Applied(p, a) = 0
      BY <2>2 DEF Applied
    <3> QED BY <2>1, <3>1, <3>2
  <2>3. CASE Posting(p) /\ Projected(a)
    <3>0. PICK o \in Operation, k \in Int :
            o = tx[p].op /\ k = tx[p].line /\ k <= Len(LinesOf[o]) + 1 /\ 1 <= k
      BY <2>3 DEF Posting, MoneyInv, MoneyTypes, Inv, Shapes, Transaction
    <3>1. Applied(p, a) = SumTo(o, k, a) /\ SumTo(o, k, a) \in Int
      BY <2>3, <3>0, AppliedIs, BeforeIs
    <3>2. CASE holder[a] = p
      <4>1. balance[a] = NaturalAt(journals, a) + SumTo(o, k, a) /\ NaturalAt(journals, a) \in Nat
        BY <2>3, <3>0, <3>2 DEF MoneyInv, Balanced
      <4> QED BY <2>1, <2>3, <3>1, <3>2, <4>1
    <3>3. CASE holder[a] # p
      <4>1. \A i \in 1 .. k - 1 : LinesOf[o][i].account # a
        BY <2>3, <3>0, <3>3 DEF MoneyInv, Untouched
      <4>2. SumTo(o, k, a) = 0
        BY <4>1, SumToStart
      <4> QED BY <2>1, <2>3, <3>1, <3>3, <4>2
    <3> QED BY <3>2, <3>3
  <2> QED BY <2>2, <2>3
<1>4. MoneyTypes'
  <2>1. ASSUME NEW a \in Account PROVE balance'[a] \in Nat
    <3>1. CASE holder[a] = p
      <4>1. Projected(a)
        BY <3>1, NobodyAssumption DEF NobodyAssumption, MoneyInv, HoldersPost
      <4>2. NaturalAt(journals, a) \in Nat
        BY <4>1 DEF MoneyInv, Balanced
      <4> QED BY <1>3, <3>1, <4>2
    <3>2. CASE holder[a] # p
      BY <1>3, <3>2 DEF MoneyInv, MoneyTypes
    <3> QED BY <3>1, <3>2
  <2>2. balance' \in [Account -> Nat]
    BY <2>1 DEF RollBack
  <2> QED BY <1>1, <1>2, <2>2 DEF MoneyInv, MoneyTypes, Posting
<1>5. HoldersPost'
  BY <1>1, <1>2 DEF MoneyInv, HoldersPost, Posting, Projected
<1>6. Untouched'
  <2> SUFFICES ASSUME NEW q \in Process, NEW b \in Account, Posting(q)', Projected(b), holder'[b] # q
               PROVE  \A i \in 1 .. tx'[q].line - 1 : LinesOf[tx'[q].op][i].account # b
    BY DEF Untouched, Projected
  <2>1. q # p /\ tx'[q] = tx[q] /\ Posting(q) /\ holder[b] # q
    BY <1>1, <1>2 DEF Posting
  <2> QED BY <2>1 DEF MoneyInv, Untouched
<1>7. Balanced'
  <2> SUFFICES ASSUME NEW a \in Account, Projected(a)
               PROVE  /\ NaturalAt(journals, a) \in Nat
                      /\ holder'[a] = NoOne => balance'[a] = NaturalAt(journals, a)
                      /\ \A q \in Process : holder'[a] = q =>
                           balance'[a] = NaturalAt(journals, a) + SumTo(tx'[q].op, tx'[q].line, a)
    BY <1>1 DEF Balanced, Projected
  <2>1. CASE holder[a] = p
    BY <1>2, <1>3, <2>1, NobodyAssumption DEF NobodyAssumption, MoneyInv, Balanced
  <2>2. CASE holder[a] # p
    BY <1>1, <1>2, <1>3, <2>2 DEF MoneyInv, Balanced
  <2> QED BY <2>1, <2>2
<1> QED BY <1>4, <1>5, <1>6, <1>7 DEF MoneyInv

LEMMA BackMoney ==
  ASSUME MoneyInv, Inv, NEW p \in Process, Overdraw(p) \/ Fail(p) \/ Deadlock(p), Retries \in Int
  PROVE  MoneyInv'
<1>1. tx[p].at # "idle"
  <2>1. CASE Overdraw(p) \/ Fail(p)
    BY <2>1 DEF Overdraw, Fail, AtLine
  <2>2. CASE Deadlock(p)
    BY <2>2 DEF Deadlock, InDeadlock, Awaits, Locked, AtLine
  <2> QED BY <2>1, <2>2
<1>2. PICK t \in Transaction : RollBack(p, t) /\ t.at # "lines" /\ (t.at # "idle" => t.op = tx[p].op)
  <2>1. CASE RollBack(p, Idle)
    BY <2>1, IdleIsTransaction DEF Idle
  <2>2. CASE Deadlock(p)
    <3> DEFINE t == [Idle EXCEPT !.at = "insert", !.op = tx[p].op, !.tries = tx[p].tries + 1]
    <3>0. tx[p].op \in Operation \cup {NoOp} /\ tx[p].tries + 1 \in Int
      BY DEF Transaction, Inv, Shapes
    <3>1. t \in Transaction /\ t.at = "insert" /\ t.op = tx[p].op
      BY <3>0, Restarting DEF Idle
    <3>2. RollBack(p, t) \/ RollBack(p, Idle)
      BY <2>2 DEF Deadlock
    <3> QED BY <2>1, <3>1, <3>2
  <2> QED BY <2>1, <2>2 DEF Overdraw, Fail
<1>3. tx[p].op \in Operation
  BY <1>1 DEF MoneyInv, MoneyTypes
<1> QED BY <1>2, <1>3, RollBackMoney

LEMMA NextMoney ==
  ASSUME MoneyInv, Inv, [Next]_vars
  PROVE  MoneyInv'
<1>0. Retries \in Int
  BY LedgerAssumption DEF LedgerAssumption
<1>1. CASE \E p \in Process, o \in Operation : Begin(p, o)
  BY <1>1, BeginMoney
<1>2. CASE \E p \in Process : Insert(p) \/ WaitOver(p) \/ ApplyLine(p) \/ Commit(p)
  BY <1>2, InsertMoney, ApplyLineMoney, CommitMoney
<1>3. CASE \E p \in Process : Overdraw(p) \/ Fail(p) \/ Deadlock(p)
  BY <1>0, <1>3, BackMoney
<1>4. CASE SealRange \/ SealInsert \/ UNCHANGED vars
  <2>1. UNCHANGED <<journals, balance, holder, tx>>
    BY <1>4 DEF SealRange, SealInsert, vars
  <2> QED BY <2>1 DEF MoneyInv, MoneyTypes, HoldersPost, Untouched, Balanced, Posting, Projected
<1> QED BY <1>1, <1>2, <1>3, <1>4 DEF Next, Step

LEMMA BalancesAreSums == MoneyInv => ProjectionIsJournal
BY NaturalSumIs DEF MoneyInv, MoneyTypes, Balanced, ProjectionIsJournal

-----------------------------------------------------------------------------
(***************************************************************************)
(* Types and bounds.                                                       *)
(***************************************************************************)
CountTypes ==
  /\ next \in Nat \ {0} /\ \A n \in DOMAIN journals : n \in Nat \ {0}
  /\ \A p \in Process :
       /\ 0 <= tx[p].tries /\ tx[p].tries <= Retries
       /\ Numbered(p) => 1 <= tx[p].number
  /\ begun \in 0 .. Posts /\ faults \in 0 .. Faults

LEMMA BoundsAreNat == Posts \in Nat /\ Retries \in Nat /\ Blocks \in Nat /\ Faults \in Nat
BY LedgerAssumption DEF LedgerAssumption

LEMMA CountInit == Init => CountTypes
BY BoundsAreNat DEF Init, CountTypes, Numbered, Idle

(* How a step changes the transaction of its process.                      *)
LEMMA TriesAre ==
  ASSUME Inv, CountTypes, NEW p \in Process, Step(p) \/ Fail(p) \/ \E o \in Operation : Begin(p, o)
  PROVE  /\ \A q \in Process : q # p => tx'[q] = tx[q]
         /\ 0 <= tx'[p].tries /\ tx'[p].tries <= Retries
         /\ Numbered(p)' => 1 <= tx'[p].number
<1>0. /\ tx[p] \in Transaction /\ 0 <= tx[p].tries /\ tx[p].tries <= Retries /\ next \in Nat \ {0}
      /\ Numbered(p) => 1 <= tx[p].number
      /\ Idle.tries = 0 /\ Idle.at = "idle" /\ Retries \in Nat
  BY BoundsAreNat DEF Inv, Shapes, CountTypes, Idle
<1>1. \A q \in Process : q # p => tx'[q] = tx[q]
  BY DEF Step, Fail, Begin, Insert, WaitOver, ApplyLine, Commit, Overdraw, Deadlock, RollBack,
         Inv, Shapes
<1>7. \A t : tx' = [tx EXCEPT ![p] = t] => tx'[p] = t
  BY DEF Inv, Shapes
<1>2. CASE tx' = [tx EXCEPT ![p] = Idle]
  <2>1. tx'[p] = Idle
    BY <1>2, <1>7
  <2> QED BY <1>0, <1>1, <2>1 DEF Numbered
<1>3. CASE \E o \in Operation : Begin(p, o)
  <2>1. PICK o \in Operation : Begin(p, o)
    BY <1>3
  <2> DEFINE t == [Idle EXCEPT !.at = "insert", !.op = o]
  <2>2. t.tries = 0 /\ t.at = "insert" /\ tx' = [tx EXCEPT ![p] = t]
    BY <2>1 DEF Begin, Idle
  <2> HIDE DEF t
  <2>3. tx'[p] = t
    BY <2>2, <1>7
  <2> QED BY <1>0, <1>1, <2>2, <2>3 DEF Numbered
<1>4. CASE (Insert(p) \/ WaitOver(p)) /\ ~Committed(tx[p].op)
  <2>1. PICK t : /\ tx' = [tx EXCEPT ![p] = t] /\ t.tries = tx[p].tries
                 /\ t.number = next \/ (t.number = tx[p].number /\ Numbered(p))
    <3>1. CASE Insert(p) /\ Held(p)
      <4> DEFINE t == [tx[p] EXCEPT !.at = "wait", !.number = next]
      <4>1. tx' = [tx EXCEPT ![p] = t]
        BY <1>4, <3>1 DEF Insert, Inv, Shapes
      <4>2. t.tries = tx[p].tries /\ t.number = next
        BY <1>0 DEF Transaction
      <4> QED BY <4>1, <4>2
    <3>2. CASE Insert(p) /\ ~Held(p)
      <4> DEFINE t == [tx[p] EXCEPT !.at = "lines", !.number = next, !.line = 1]
      <4>1. tx' = [tx EXCEPT ![p] = t]
        BY <1>4, <3>2 DEF Insert, Inv, Shapes
      <4>2. t.tries = tx[p].tries /\ t.number = next
        BY <1>0 DEF Transaction
      <4> QED BY <4>1, <4>2
    <3>3. CASE WaitOver(p)
      <4> DEFINE t == [tx[p] EXCEPT !.at = "lines", !.line = 1]
      <4>1. tx' = [tx EXCEPT ![p] = t] /\ Numbered(p)
        BY <1>4, <3>3 DEF WaitOver, Inv, Shapes, Numbered
      <4>2. t.tries = tx[p].tries /\ t.number = tx[p].number
        BY <1>0 DEF Transaction
      <4> QED BY <4>1, <4>2
    <3> QED BY <1>4, <3>1, <3>2, <3>3
  <2>2. tx'[p] = t
    BY <2>1, <1>7
  <2>3. 1 <= t.number
    BY <1>0, <2>1
  <2> QED BY <1>0, <1>1, <2>1, <2>2, <2>3 DEF Numbered
<1>5. CASE ApplyLine(p)
  <2> DEFINE t == [tx[p] EXCEPT !.line = @ + 1]
  <2>1. t.tries = tx[p].tries /\ t.number = tx[p].number /\ Numbered(p)
    BY <1>0, <1>5 DEF Transaction, ApplyLine, AtLine, Numbered
  <2>2. tx' = [tx EXCEPT ![p] = t]
    BY <1>5 DEF ApplyLine, Inv, Shapes
  <2> HIDE DEF t
  <2>3. tx'[p] = t
    BY <2>2, <1>7
  <2> QED BY <1>0, <1>1, <2>1, <2>3 DEF Numbered
<1>6. CASE Deadlock(p) /\ tx[p].tries < Retries
  <2> DEFINE t == [Idle EXCEPT !.at = "insert", !.op = tx[p].op, !.tries = tx[p].tries + 1]
  <2>1. t.tries = tx[p].tries + 1 /\ t.at = "insert"
    BY DEF Idle
  <2>2. tx' = [tx EXCEPT ![p] = t]
    BY <1>6 DEF Deadlock, RollBack
  <2>3. tx[p].tries \in Int
    BY <1>0 DEF Transaction
  <2> HIDE DEF t
  <2>4. tx'[p] = t
    BY <2>2, <1>7
  <2> QED BY <1>0, <1>1, <1>6, <2>1, <2>3, <2>4 DEF Numbered
<1> QED BY <1>2, <1>3, <1>4, <1>5, <1>6
        DEF Step, Insert, WaitOver, Commit, Overdraw, Fail, Deadlock, RollBack

LEMMA NextCount ==
  ASSUME Inv, CountTypes, [Next]_vars
  PROVE  CountTypes'
<1>1. ASSUME NEW p \in Process, Step(p) \/ Fail(p) \/ \E o \in Operation : Begin(p, o)
      PROVE  CountTypes'
  <2>1. next' = next \/ next' = next + 1
    BY <1>1 DEF Step, Fail, Begin, Insert, WaitOver, ApplyLine, Commit, Overdraw, Deadlock, RollBack
  <2>2. \A n \in DOMAIN journals' : n \in DOMAIN journals \/ (n = tx[p].number /\ tx[p].at = "lines")
    BY <1>1 DEF Step, Fail, Begin, Insert, WaitOver, ApplyLine, Commit, Overdraw, Deadlock, RollBack
  <2>3. \/ begun' = begun \/ (begun < Posts /\ begun' = begun + 1)
    BY <1>1 DEF Step, Fail, Begin, Insert, WaitOver, ApplyLine, Commit, Overdraw, Deadlock, RollBack
  <2>4. \/ faults' = faults \/ (faults < Faults /\ faults' = faults + 1)
    BY <1>1 DEF Step, Fail, Begin, Insert, WaitOver, ApplyLine, Commit, Overdraw, Deadlock, RollBack
  <2>5. begun' \in 0 .. Posts /\ faults' \in 0 .. Faults /\ next' \in Nat \ {0}
    BY <2>1, <2>3, <2>4, BoundsAreNat DEF CountTypes
  <2>6. tx[p].at = "lines" => tx[p].number \in Nat \ {0}
    BY DEF CountTypes, Numbered, Inv, Shapes, Transaction
  <2>7. ASSUME NEW q \in Process
        PROVE  /\ 0 <= tx'[q].tries /\ tx'[q].tries <= Retries
               /\ Numbered(q)' => 1 <= tx'[q].number
    <3>1. CASE q = p
      BY <1>1, <3>1, TriesAre
    <3>2. CASE q # p
      <4>1. tx'[q] = tx[q]
        BY <1>1, <3>2, TriesAre
      <4> QED BY <4>1 DEF CountTypes, Numbered
    <3> QED BY <3>1, <3>2
  <2> QED BY <2>2, <2>5, <2>6, <2>7 DEF CountTypes
<1>2. CASE SealRange \/ SealInsert \/ UNCHANGED vars
  <2>1. UNCHANGED <<next, journals, tx, begun, faults>>
    BY <1>2 DEF SealRange, SealInsert, vars
  <2> QED BY <2>1 DEF CountTypes, Numbered
<1> QED BY <1>1, <1>2 DEF Next

-----------------------------------------------------------------------------
(***************************************************************************)
(* Blocks.  The range that is about to be sealed lies above every block,   *)
(* and stays there: nothing else seals, and journals that commit below the *)
(* end of a block change no range.                                         *)
(***************************************************************************)
Ranges == [start : Int, end : Int, prev : Int]
SealedBlocks == [start : Int, end : Int, prev : Int, sealed : SUBSET Int]

SealInv ==
  /\ blocks \in Seq(SealedBlocks)
  /\ sealing \in Ranges /\ Len(blocks) <= Blocks
  /\ SealedInOrder
  /\ sealing # NoRange =>
       /\ sealing.start <= sealing.end /\ sealing.prev = Len(blocks) /\ Len(blocks) < Blocks
       /\ \A i \in DOMAIN blocks : blocks[i].end < sealing.start

LEMMA SealInit == Init => SealInv
<1> SUFFICES ASSUME Init PROVE SealInv
  OBVIOUS
<1>1. blocks = <<>> /\ sealing = NoRange
  BY DEF Init
<1>2. sealing \in Ranges
  BY <1>1 DEF NoRange, Ranges
<1> QED BY <1>1, <1>2, BoundsAreNat DEF SealInv, SealedInOrder

LEMMA RangeSeal ==
  ASSUME SealInv, Inv, MoneyInv, SealRange
  PROVE  SealInv'
<1>0. UNCHANGED <<blocks, journals>> /\ sealing = NoRange /\ Len(blocks) < Blocks /\ Unsealed # {}
  BY DEF SealRange
<1> DEFINE U == Unsealed
<1>1. IsFiniteSet(U) /\ U # {} /\ \A n \in U : n \in Int /\ n > LastEnd
  <2>1. U \in SUBSET DOMAIN journals
    BY DEF Unsealed
  <2> QED BY <1>0, <2>1, FS_Subset DEF MoneyInv, MoneyTypes, Inv, Shapes, Unsealed
<1>2. sealing' = [start |-> Min(U), end |-> Max(U), prev |-> Len(blocks)]
  BY DEF SealRange
<1> HIDE DEF U
<1>3. Min(U) \in U /\ Max(U) \in U /\ Min(U) <= Max(U)
  <2>1. (\E x \in U : \A y \in U : x <= y) /\ \E x \in U : \A y \in U : x >= y
    BY <1>1, HasLeast, HasGreatest
  <2>2. Min(U) \in U /\ \A y \in U : Min(U) <= y
    BY <2>1 DEF Min
  <2>3. Max(U) \in U
    BY <2>1 DEF Max
  <2> QED BY <2>2, <2>3
<1>4. Len(blocks) \in Nat /\ DOMAIN blocks = 1 .. Len(blocks)
  BY DEF SealInv
<1>5. sealing' \in Ranges
  BY <1>1, <1>2, <1>3, <1>4 DEF Ranges
<1>6. \A i \in DOMAIN blocks : blocks[i].end <= LastEnd /\ blocks[i].end \in Int /\ LastEnd \in Int
  <2> SUFFICES ASSUME NEW i \in DOMAIN blocks
               PROVE  blocks[i].end <= LastEnd /\ blocks[i].end \in Int /\ LastEnd \in Int
    OBVIOUS
  <2>1. LastEnd = blocks[Len(blocks)].end /\ Len(blocks) \in DOMAIN blocks
    BY <1>4 DEF LastEnd
  <2>2. blocks[i].end \in Int /\ blocks[Len(blocks)].end \in Int /\ blocks[Len(blocks)].start \in Int
    <3>1. \A j \in DOMAIN blocks : blocks[j].end \in Int /\ blocks[j].start \in Int
      <4>1. \A j \in DOMAIN blocks : blocks[j] \in SealedBlocks
        BY <1>4 DEF SealInv
      <4> QED BY <4>1 DEF SealedBlocks
    <3> QED BY <2>1, <3>1
  <2>3. CASE i = Len(blocks)
    BY <2>1, <2>2, <2>3
  <2>4. CASE i # Len(blocks)
    <3>1. i < Len(blocks)
      BY <1>4, <2>4
    <3>2. blocks[i].end < blocks[Len(blocks)].start /\ blocks[Len(blocks)].start <= blocks[Len(blocks)].end
      BY <2>1, <3>1 DEF SealInv, SealedInOrder
    <3> QED BY <2>1, <2>2, <3>2
  <2> QED BY <2>3, <2>4
<1>7. \A i \in DOMAIN blocks : blocks[i].end < Min(U)
  BY <1>1, <1>3, <1>6
<1>8. sealing'.start = Min(U) /\ sealing'.end = Max(U) /\ sealing'.prev = Len(blocks)
  BY <1>2
<1> QED BY <1>0, <1>3, <1>5, <1>7, <1>8 DEF SealInv, SealedInOrder

LEMMA InsertSeal ==
  ASSUME SealInv, Inv, SealInsert
  PROVE  SealInv'
<1> DEFINE b == [start |-> sealing.start, end |-> sealing.end, prev |-> sealing.prev,
                 sealed |-> InBlock(sealing.start, sealing.end)]
<1>1. blocks' = Append(blocks, b) /\ sealing' = NoRange /\ UNCHANGED journals /\ sealing # NoRange
  BY DEF SealInsert
<1>2. b.sealed \subseteq DOMAIN journals /\ b.sealed \subseteq Int
  BY DEF InBlock, Inv, Shapes
<1>3. b \in SealedBlocks /\ b.start <= b.end /\ b.prev = Len(blocks)
      /\ \A i \in DOMAIN blocks : blocks[i].end < b.start
  BY <1>1, <1>2 DEF SealInv, Ranges, SealedBlocks
<1> HIDE DEF b
<1>4. /\ blocks' \in Seq(SealedBlocks) /\ Len(blocks') = Len(blocks) + 1 /\ Len(blocks) \in Nat
      /\ DOMAIN blocks = 1 .. Len(blocks) /\ DOMAIN blocks' = 1 .. Len(blocks) + 1
      /\ blocks'[Len(blocks) + 1] = b /\ \A i \in DOMAIN blocks : blocks'[i] = blocks[i]
  BY <1>1, <1>3 DEF SealInv
<1>5. sealing' \in Ranges
  BY <1>1 DEF NoRange, Ranges
<1>6. ASSUME NEW i \in DOMAIN blocks'
      PROVE  /\ blocks'[i].prev = i - 1 /\ blocks'[i].start <= blocks'[i].end
             /\ \A j \in DOMAIN blocks' : i < j => blocks'[i].end < blocks'[j].start
             /\ blocks'[i].sealed \subseteq DOMAIN journals
  <2>1. CASE i = Len(blocks) + 1
    BY <1>2, <1>3, <1>4, <2>1
  <2>2. CASE i # Len(blocks) + 1
    <3>1. i \in DOMAIN blocks
      BY <1>4, <2>2
    <3>2. ASSUME NEW j \in DOMAIN blocks', i < j PROVE blocks'[i].end < blocks'[j].start
      <4>1. CASE j = Len(blocks) + 1
        BY <1>3, <1>4, <3>1, <4>1
      <4>2. CASE j # Len(blocks) + 1
        <5>1. j \in DOMAIN blocks
          BY <1>4, <4>2
        <5> QED BY <1>4, <3>1, <3>2, <5>1 DEF SealInv, SealedInOrder
      <4> QED BY <4>1, <4>2
    <3> QED BY <1>4, <3>1, <3>2 DEF SealInv, SealedInOrder
  <2> QED BY <2>1, <2>2
<1>7. SealedInOrder'
  BY <1>1, <1>6 DEF SealedInOrder
<1>8. Len(blocks') <= Blocks
  BY <1>1, <1>4, BoundsAreNat DEF SealInv
<1> QED BY <1>1, <1>4, <1>5, <1>7, <1>8 DEF SealInv

LEMMA NextSeal ==
  ASSUME SealInv, Inv, MoneyInv, [Next]_vars
  PROVE  SealInv'
<1>1. CASE SealRange \/ SealInsert
  BY <1>1, RangeSeal, InsertSeal
<1>2. CASE ~(SealRange \/ SealInsert)
  <2>1. UNCHANGED <<blocks, sealing>> /\ DOMAIN journals \subseteq DOMAIN journals'
    BY <1>2 DEF Next, Step, Fail, Begin, Insert, WaitOver, ApplyLine, Commit, Overdraw, Deadlock,
                RollBack, vars
  <2> QED BY <2>1 DEF SealInv, SealedInOrder
<1> QED BY <1>1, <1>2

-----------------------------------------------------------------------------
LEMMA TypesAreOK == Inv /\ MoneyInv /\ CountTypes /\ SealInv => TypeOK
<1> SUFFICES ASSUME Inv, MoneyInv, CountTypes, SealInv PROVE TypeOK
  OBVIOUS
<1>1. next \in Nat \ {0} /\ DOMAIN journals \subseteq 1 .. next - 1
  BY DEF CountTypes, Inv, Shapes
<1>2. \A n \in DOMAIN journals : journals[n] \in Operation
  BY DEF MoneyInv, MoneyTypes
<1>3. balance \in [Account -> Nat] /\ holder \in [Account -> Process \cup {NoOne}]
  BY DEF MoneyInv, MoneyTypes
<1>4. ASSUME NEW p \in Process
      PROVE  /\ tx[p].at \in {"idle", "insert", "wait", "lines"} /\ tx[p].tries \in 0 .. Retries
             /\ tx[p].at = "lines" => tx[p].number \in (1 .. next - 1) \ DOMAIN journals
  <2>1. tx[p].at \in {"idle", "insert", "wait", "lines"} /\ tx[p].tries \in Int /\ tx[p].number \in Int
    BY DEF Inv, Shapes, Transaction, Stages
  <2>2. tx[p].tries \in 0 .. Retries
    BY <2>1, BoundsAreNat DEF CountTypes
  <2>3. tx[p].at = "lines" => tx[p].number \in (1 .. next - 1) \ DOMAIN journals
    BY <1>1, <2>1 DEF CountTypes, Inv, OwnNumber, Numbered
  <2> QED BY <2>1, <2>2, <2>3
<1>5. Len(blocks) <= Blocks /\ begun \in 0 .. Posts /\ faults \in 0 .. Faults
  BY DEF CountTypes, SealInv
<1> QED BY <1>1, <1>2, <1>3, <1>4, <1>5 DEF TypeOK

LEMMA AllInit == Init => Inv /\ MoneyInv /\ CountTypes /\ SealInv
BY InitInv, MoneyInit, CountInit, SealInit

LEMMA AllNext ==
  Inv /\ MoneyInv /\ CountTypes /\ SealInv /\ [Next]_vars => (Inv /\ MoneyInv /\ CountTypes /\ SealInv)'
BY NextInv, NextMoney, NextCount, NextSeal

(* Every balance is the sum of the committed entries, and is not negative, *)
(* whatever rolls back, deadlocks or is tried again (applyToProjection,    *)
(* verifyProjection).                                                      *)
THEOREM BooksAgreeHolds == Spec => []BooksAgree
<1>1. Inv /\ MoneyInv /\ CountTypes /\ SealInv => BooksAgree
  BY TypesAreOK, BalancesAreSums DEF BooksAgree, Inv
<1> QED BY <1>1, AllInit, AllNext, PTL DEF Spec

(* Blocks are numbered one after the other, no journal is in two of them,  *)
(* though journals commit out of order while a block is sealed             *)
(* (sealLedgerBlock).                                                      *)
THEOREM SealedInOrderHolds == Spec => []SealedInOrder
<1>1. Inv /\ MoneyInv /\ CountTypes /\ SealInv => SealedInOrder
  BY DEF SealInv
<1> QED BY <1>1, AllInit, AllNext, PTL DEF Spec

-----------------------------------------------------------------------------
(***************************************************************************)
(* The refinement.  What LedgerPromise calls the balance of an account is  *)
(* the sum of its committed entries, whoever is posting to it meanwhile;   *)
(* so a step that commits nothing is none of the promise, and a commit     *)
(* adds the entries of its operation to every account at once.             *)
(***************************************************************************)
Decided(a) == balance[a] - Undecided(a)
PostedNow == {journals[n] : n \in DOMAIN journals}
Shown == [a \in WithBalance |-> Decided(a)]

LEMMA DecidedIs ==
  ASSUME MoneyInv, Inv, NEW a \in WithBalance
  PROVE  Decided(a) = NaturalAt(journals, a) /\ NaturalAt(journals, a) \in Nat
<1>1. a \in Account /\ Projected(a) /\ balance[a] \in Nat /\ NaturalAt(journals, a) \in Nat
  BY DEF WithBalance, MoneyInv, MoneyTypes, Balanced
<1>2. CASE holder[a] = NoOne
  BY <1>1, <1>2 DEF Decided, Undecided, MoneyInv, Balanced
<1>3. CASE holder[a] # NoOne
  <2>1. PICK p \in Process : holder[a] = p
    BY <1>1, <1>3 DEF MoneyInv, MoneyTypes
  <2>2. Posting(p)
    BY <1>1, <1>3, <2>1 DEF MoneyInv, HoldersPost
  <2>3. PICK o \in Operation, k \in Int :
          o = tx[p].op /\ k = tx[p].line /\ k <= Len(LinesOf[o]) + 1
    BY <2>2 DEF Posting, MoneyInv, MoneyTypes, Inv, Shapes, Transaction
  <2>4. Applied(p, a) = SumTo(o, k, a) /\ SumTo(o, k, a) \in Int
    BY <1>1, <2>3, AppliedIs, BeforeIs
  <2>5. balance[a] = NaturalAt(journals, a) + SumTo(o, k, a)
    BY <1>1, <2>1, <2>3 DEF MoneyInv, Balanced
  <2> QED BY <1>1, <1>3, <2>1, <2>4, <2>5 DEF Decided, Undecided
<1> QED BY <1>2, <1>3

Settled == \A a \in WithBalance : Decided(a) = NaturalAt(journals, a) /\ NaturalAt(journals, a) \in Nat

LEMMA AllDecided == MoneyInv /\ Inv => Settled
BY DecidedIs DEF Settled

LEMMA PromiseInit == Init => Promise!Init
<1> SUFFICES ASSUME Init PROVE PostedNow = {} /\ Shown = [a \in WithBalance |-> 0]
  BY DEF Promise!Init, PostedNow, Shown, Decided
<1>1. DOMAIN journals = {}
  BY DEF Init
<1>2. \A a \in WithBalance : Decided(a) = 0
  BY DEF Init, Decided, Undecided, WithBalance
<1> QED BY <1>1, <1>2 DEF PostedNow, Shown

LEMMA PromiseStutters ==
  ASSUME Settled, Settled', UNCHANGED journals
  PROVE  UNCHANGED Promise!vars
<1>1. WithBalance' = WithBalance
  BY DEF WithBalance, Projected
<1>2. \A a \in WithBalance : Decided(a)' = Decided(a)
  BY <1>1 DEF Settled
<1>3. PostedNow' = PostedNow /\ Shown' = Shown
  BY <1>1, <1>2 DEF PostedNow, Shown
<1> QED BY <1>3 DEF Promise!vars, PostedNow, Shown, Decided

Moves(o) == [a \in WithBalance |-> MovedBy(LinesOf[o], a)]
Effects  == [o \in Operation |-> Moves(o)]

LEMMA CommitPosts ==
  ASSUME MoneyInv, Inv, Settled, Settled', NEW p \in Process, Commit(p)
  PROVE  Promise!Next
<1>0. PICK o \in Operation : o = tx[p].op
  BY DEF Commit, MoneyInv, MoneyTypes
<1>1. PICK n : n = tx[p].number /\ o = tx[p].op
  BY <1>0
<1>2. /\ DOMAIN journals' = DOMAIN journals \cup {n} /\ journals'[n] = o
      /\ n \notin DOMAIN journals /\ \A m \in DOMAIN journals : journals'[m] = journals[m]
  BY <1>1 DEF Commit, Inv, OwnNumber, Numbered
<1>3. o \notin PostedNow
  BY <1>1 DEF PostedNow, Commit, Inv, OneWriter, Committed
<1>4. PostedNow' = PostedNow \cup {o}
  BY <1>2 DEF PostedNow
<1>5. WithBalance' = WithBalance
  BY DEF WithBalance, Projected
<1>6. ASSUME NEW a \in WithBalance
      PROVE  /\ Decided(a)' = Decided(a) + Effects[o][a]
             /\ Decided(a) + Effects[o][a] >= 0
  <2>1. a \in Account /\ Projected(a)
    BY DEF WithBalance
  <2>2. PICK ks : ks = journals'
    OBVIOUS
  <2>3. Adding(journals, n, o, ks)
    BY <1>2, <2>2 DEF Adding, MoneyInv, MoneyTypes
  <2>4. NaturalAt(ks, a) = NaturalAt(journals, a) + NaturalOf(o, a)
    BY <2>1, <2>3, OneJournalMore
  <2>5. Effects[o][a] = NaturalOf(o, a)
    BY MovedByIs DEF Effects, Moves
  <2>6. Decided(a) = NaturalAt(journals, a)
    BY DEF Settled
  <2>7. Decided(a)' = NaturalAt(ks, a) /\ NaturalAt(ks, a) \in Nat
    BY <1>5, <2>2 DEF Settled
  <2> QED BY <2>4, <2>5, <2>6, <2>7
<1>7. Shown' = [a \in WithBalance |-> Shown[a] + Effects[o][a]]
  BY <1>5, <1>6 DEF Shown
<1>8. \A a \in WithBalance : Shown[a] + Effects[o][a] >= 0
  BY <1>6 DEF Shown
<1>9. Promise!Post(o)
  BY <1>3, <1>4, <1>7, <1>8 DEF Promise!Post, PostedNow, Shown, Decided, Effects, Moves
<1> QED BY <1>9 DEF Promise!Next

LEMMA NextPromise ==
  ASSUME MoneyInv, Inv, Settled, Settled', [Next]_vars
  PROVE  [Promise!Next]_(Promise!vars)
<1>1. CASE \E p \in Process : Commit(p)
  BY <1>1, CommitPosts
<1>2. CASE ~\E p \in Process : Commit(p)
  <2>1. UNCHANGED journals
    BY <1>2 DEF Next, Step, Begin, Insert, WaitOver, ApplyLine, RollBack, Overdraw, Fail, Deadlock,
                SealRange, SealInsert, vars
  <2> QED BY <2>1, PromiseStutters
<1> QED BY <1>1, <1>2

(* However transactions interleave, fail, deadlock and start again, money  *)
(* moves only with a commit, with all lines of one operation and once, and *)
(* never below zero: the ledger implements LedgerPromise, for any          *)
(* processes, operations, accounts and lines (post, transaction).          *)
THEOREM KeepsLedgerPromiseHolds == Spec => KeepsLedgerPromise
<1>1. Spec => [](Inv /\ MoneyInv /\ CountTypes /\ SealInv)
  BY AllInit, AllNext, PTL DEF Spec
<1>2. Inv /\ MoneyInv /\ CountTypes /\ SealInv => Settled
  BY AllDecided
<1>3. MoneyInv /\ Inv /\ Settled /\ Settled' /\ [Next]_vars => [Promise!Next]_(Promise!vars)
  BY NextPromise
<1> QED BY <1>1, <1>2, <1>3, PromiseInit, PTL DEF Spec, KeepsLedgerPromise, Promise!Spec
=============================================================================
