--------------------------- MODULE RequestsProofs ---------------------------
(***************************************************************************)
(* Theorems about Requests, for any calls, keys and messages, any clocks   *)
(* of the clients, and whatever fails, lapses or is purged.                *)
(***************************************************************************)
EXTENDS Requests, Sums, TLAPS

(***************************************************************************)
(* A message handled already is refused ever after: its nonce is there and *)
(* outlives its window, or the window is over (Spent).  Its timestamp does *)
(* not change, because the attempts of a call are counted (Counted).       *)
(***************************************************************************)
Counted ==
  /\ now \in Int /\ call \in [Call -> Int] /\ handled \in [Message -> Int]
  /\ \A m \in DOMAIN stamp : stamp[m] \in Int /\ m[1] \in Call /\ m[2] \in Int /\ m[2] <= call[m[1]]
  /\ \A m \in DOMAIN nonce : nonce[m] \in Int

Shut(m) ==
  /\ m \in DOMAIN stamp
  /\ \/ m \in DOMAIN nonce /\ nonce[m] >= stamp[m] + Window
     \/ now > stamp[m] + Window

Spent == \A m \in Message : handled[m] = 0 \/ (handled[m] = 1 /\ Shut(m))

NonceInv == Counted /\ Spent

LEMMA WindowIsInt == Window \in Int /\ NonceTtl \in Int /\ NonceTtl >= 2 * Window /\ Ahead \in [Call -> Int]
BY RequestsAssumption DEF RequestsAssumption

LEMMA NonceInit == Init => NonceInv
BY DEF Init, NonceInv, Counted, Spent

LEMMA SendNonceInv ==
  ASSUME NonceInv, NEW c \in Call, Send(c)
  PROVE  NonceInv'
<1> DEFINE new == <<c, call[c] + 1>>
<1>1. /\ call' = [call EXCEPT ![c] = @ + 1] /\ UNCHANGED <<now, nonce, handled>>
      /\ new \notin DOMAIN stamp
      /\ new[1] = c /\ new[2] = call[c] + 1 /\ call[c] \in Int
  BY DEF Send, server, NonceInv, Counted
<1>2. PICK n : n = new
  OBVIOUS
<1>3. /\ DOMAIN stamp' = DOMAIN stamp \cup {n} /\ stamp'[n] = now + Ahead[c]
      /\ \A m \in DOMAIN stamp : stamp'[m] = stamp[m]
  BY <1>1, <1>2 DEF Send, With
<1>4. n \notin DOMAIN stamp /\ n[1] = c /\ n[2] = call[c] + 1
  BY <1>1, <1>2
<1> HIDE DEF new
<1>5. Counted'
  <2>1. /\ call' \in [Call -> Int] /\ call'[c] = call[c] + 1
        /\ \A d \in Call : d # c => call'[d] = call[d]
    BY <1>1 DEF NonceInv, Counted
  <2>2. stamp'[n] \in Int /\ n[1] \in Call /\ n[2] \in Int /\ n[2] <= call'[n[1]]
    BY <1>1, <1>3, <1>4, <2>1, WindowIsInt DEF NonceInv, Counted
  <2>3. \A m \in DOMAIN stamp :
          stamp'[m] \in Int /\ m[1] \in Call /\ m[2] \in Int /\ m[2] <= call'[m[1]]
    BY <1>1, <1>3, <2>1 DEF NonceInv, Counted
  <2> QED BY <1>1, <1>3, <2>1, <2>2, <2>3 DEF NonceInv, Counted
<1>6. Spent'
  BY <1>1, <1>3 DEF NonceInv, Spent, Shut
<1> QED BY <1>5, <1>6 DEF NonceInv

LEMMA AuthenticateNonceInv ==
  ASSUME NonceInv, NEW m \in Message, Authenticate(m)
  PROVE  NonceInv'
<1>1. /\ m \in DOMAIN stamp /\ m \notin DOMAIN nonce /\ now - stamp[m] \in (-Window) .. Window
      /\ handled' = [handled EXCEPT ![m] = @ + 1] /\ UNCHANGED <<now, call, stamp>>
      /\ now \in Int /\ stamp[m] \in Int
  BY DEF Authenticate, InWindow, client, NonceInv, Counted
<1>2. /\ DOMAIN nonce' = DOMAIN nonce \cup {m} /\ nonce'[m] = now + NonceTtl
      /\ \A o \in DOMAIN nonce : nonce'[o] = nonce[o]
  BY DEF Authenticate, Spend, With
<1>3. Counted'
  BY <1>1, <1>2, WindowIsInt DEF NonceInv, Counted
<1>4. handled[m] = 0
  BY <1>1, WindowIsInt DEF NonceInv, Spent, Shut
<1>5. nonce'[m] >= stamp[m] + Window
  BY <1>1, <1>2, WindowIsInt
<1>6. Spent'
  BY <1>1, <1>2, <1>4, <1>5 DEF NonceInv, Counted, Spent, Shut
<1> QED BY <1>3, <1>6 DEF NonceInv

LEMMA PurgeNonceInv ==
  ASSUME NonceInv, PurgeExpired
  PROVE  NonceInv'
<1>1. /\ UNCHANGED <<now, call, stamp, handled>>
      /\ DOMAIN nonce' = {x \in DOMAIN nonce : nonce[x] >= now}
      /\ \A m \in DOMAIN nonce' : nonce'[m] = nonce[m]
  BY DEF PurgeExpired, client
<1>2. Counted'
  BY <1>1 DEF NonceInv, Counted
<1>3. \A m \in Message : Shut(m) => Shut(m)'
  BY <1>1, WindowIsInt DEF NonceInv, Counted, Shut
<1> QED BY <1>1, <1>2, <1>3 DEF NonceInv, Spent

LEMMA TickNonceInv ==
  ASSUME NonceInv, Tick
  PROVE  NonceInv'
<1>1. now' = now + 1 /\ UNCHANGED <<call, stamp, nonce, handled>> /\ now \in Int
  BY DEF Tick, NonceInv, Counted
<1>2. \A m \in Message : Shut(m) => Shut(m)'
  BY <1>1, WindowIsInt DEF NonceInv, Counted, Shut
<1> QED BY <1>1, <1>2 DEF NonceInv, Counted, Spent

LEMMA NextNonceInv ==
  ASSUME NonceInv, [Next]_vars
  PROVE  NonceInv'
<1>1. CASE \E c \in Call : Start(c) \/ TryAgain(c)
  BY <1>1, SendNonceInv DEF Start, TryAgain
<1>2. CASE \E m \in Message : Authenticate(m)
  BY <1>2, AuthenticateNonceInv
<1>3. CASE PurgeExpired
  BY <1>3, PurgeNonceInv
<1>4. CASE Tick
  BY <1>4, TickNonceInv
<1>5. CASE UNCHANGED <<now, call, stamp, nonce, handled>>
  BY <1>5 DEF NonceInv, Counted, Spent, Shut
<1>6. ASSUME NEW m \in Message, Handle(m) \/ Throw(m) \/ Crash(m), ~Authenticate(m)
      PROVE  UNCHANGED <<now, call, stamp, nonce, handled>>
  BY <1>6 DEF Handle, Refuse, Claim, Look, Reclaim, Create, Complete, FailKey, CheckRefund,
              InsertRefund, CommitRefund, Throw, Crash, Keep, Outside, client
<1> QED BY <1>1, <1>2, <1>3, <1>4, <1>5, <1>6 DEF Next, vars

(* A message gets past authentication once, whatever the clocks say and    *)
(* however often it is delivered (authenticateApiKey).                     *)
THEOREM HandledOnceHolds == Spec => []HandledOnce
<1>1. NonceInv /\ [Next]_vars => NonceInv'
  BY NextNonceInv
<1>2. NonceInv => HandledOnce
  BY DEF NonceInv, Spent, HandledOnce
<1> QED BY <1>1, <1>2, NonceInit, PTL DEF Spec

-----------------------------------------------------------------------------
(***************************************************************************)
(* A handler between its claim and its answer, and one that has created an *)
(* invoice, owns its key or has lost it in a way that was noted (Noted);   *)
(* as long as a handler at work owns a key, nothing is recorded under it   *)
(* (Working).                                                              *)
(***************************************************************************)
Statuses == {"NONE", "IN_PROGRESS", "COMPLETED", "FAILED"}
Bodies == {BodyOf[c] : c \in Call} \cup {"none"}
Steps == {"idle", "claim", "look", "reclaim", "create", "complete", "fail", "check", "insert",
          "commit", "ended"}
Answers == {"none", "ok", "conflict", "error"}
Row == [st : Statuses, body : Bodies, owner : Message \cup {NoOne},
        lease : Int, expires : Int, value : Message \cup {NoOne}]
Task == [at : Steps, answer : Answers, value : Message \cup {NoOne}]

Working(m) == task[m].at \in {"create", "complete", "fail"}

Shapes ==
  /\ now \in Int /\ row \in [Key -> Row] /\ task \in [Message -> Task]
  /\ \A k \in Key : row[k].st = "COMPLETED" => row[k].lease = Null

Noted ==
  \A m \in Message :
    /\ m \in invoices \/ Working(m) =>
         m \in lapsed \/ (row[KeyFor(m)].owner = m /\ row[KeyFor(m)].st # "NONE")
    /\ Working(m) /\ row[KeyFor(m)].owner = m => row[KeyFor(m)].st = "IN_PROGRESS"

KeyInv == Shapes /\ Noted

LEMMA KeyForIsKey == \A m \in Message : KeyFor(m) \in Key /\ m # NoOne /\ m[1] \in Call
<1> SUFFICES ASSUME NEW m \in Message PROVE KeyFor(m) \in Key /\ m # NoOne /\ m[1] \in Call
  OBVIOUS
<1>1. m[1] \in Call /\ DOMAIN m = {1, 2}
  BY DEF Message
<1>2. m # NoOne
  BY <1>1 DEF NoOne
<1> QED BY <1>1, <1>2, RequestsAssumption DEF RequestsAssumption, KeyFor

LEMMA Words ==
  /\ "NONE" \in Statuses /\ "IN_PROGRESS" \in Statuses /\ "COMPLETED" \in Statuses
  /\ "FAILED" \in Statuses
  /\ "none" \in Bodies /\ \A c \in Call : BodyOf[c] \in Bodies
  /\ "none" \in Answers /\ "ok" \in Answers /\ "conflict" \in Answers /\ "error" \in Answers
  /\ "idle" \in Steps /\ "claim" \in Steps /\ "look" \in Steps /\ "reclaim" \in Steps
  /\ "create" \in Steps /\ "complete" \in Steps /\ "fail" \in Steps /\ "check" \in Steps
  /\ "insert" \in Steps /\ "commit" \in Steps /\ "ended" \in Steps
BY DEF Statuses, Bodies, Answers, Steps

LEMMA NoRowIsRow == NoRow \in Row /\ NoRow.owner = NoOne /\ NoRow.st = "NONE"
<1>1. "NONE" \in Statuses /\ "none" \in Bodies
  BY Words
<1> QED BY <1>1 DEF NoRow, Row, Null

LEMMA KeyInit == Init => KeyInv
<1> SUFFICES ASSUME Init PROVE KeyInv
  OBVIOUS
<1>1. "idle" \in Steps /\ "none" \in Answers
  BY Words
<1>2. Idle \in Task /\ Idle.at = "idle"
  BY <1>1 DEF Idle, Task
<1> QED BY <1>2, NoRowIsRow DEF Init, KeyInv, Shapes, Noted, Working

(* What a step of a handler does to its task.                              *)
LEMMA AtIs ==
  ASSUME Shapes, NEW m \in Message, NEW step \in Steps, At(m, step)
  PROVE  /\ task' \in [Message -> Task] /\ task'[m].at = step
         /\ \A o \in Message : o # m => task'[o] = task[o]
BY DEF At, Shapes, Task

LEMMA AnswerIs ==
  ASSUME Shapes, NEW m \in Message, NEW answer \in Answers, NEW v \in Message \cup {NoOne},
         Answer(m, answer, v)
  PROVE  /\ task' \in [Message -> Task] /\ task'[m].at = "ended"
         /\ \A o \in Message : o # m => task'[o] = task[o]
<1>1. "ended" \in Steps
  BY Words
<1> QED BY <1>1 DEF Answer, Shapes, Task

(* A step that leaves the keys alone and puts nobody to work.              *)
LEMMA StillKeyInv ==
  ASSUME KeyInv, now' \in Int, task' \in [Message -> Task], UNCHANGED <<row, lapsed>>,
         \A o \in Message : o \in invoices' => o \in invoices \/ Working(o),
         \A o \in Message : Working(o)' => Working(o)
  PROVE  KeyInv'
<1>1. Shapes'
  BY DEF KeyInv, Shapes
<1>2. Noted'
  BY DEF KeyInv, Noted, KeyFor
<1> QED BY <1>1, <1>2 DEF KeyInv

LEMMA AtKeyInv ==
  ASSUME KeyInv, NEW m \in Message, NEW step \in Steps, At(m, step),
         step \in {"create", "complete", "fail"} => Working(m), now' = now,
         invoices' = invoices \/ (Working(m) /\ invoices' = invoices \cup {m}),
         UNCHANGED <<row, lapsed>>
  PROVE  KeyInv'
<1>1. /\ task' \in [Message -> Task] /\ task'[m].at = step
      /\ \A o \in Message : o # m => task'[o] = task[o]
  BY AtIs DEF KeyInv
<1>2. \A o \in Message : Working(o)' => Working(o)
  BY <1>1 DEF Working
<1>3. now' \in Int
  BY DEF KeyInv, Shapes
<1> QED BY <1>1, <1>2, <1>3, StillKeyInv

LEMMA AnswerKeyInv ==
  ASSUME KeyInv, NEW m \in Message, NEW answer \in Answers, NEW v \in Message \cup {NoOne},
         Answer(m, answer, v), UNCHANGED <<now, invoices, row, lapsed>>
  PROVE  KeyInv'
<1>1. /\ task' \in [Message -> Task] /\ task'[m].at = "ended"
      /\ \A o \in Message : o # m => task'[o] = task[o]
  BY AnswerIs DEF KeyInv
<1>2. \A o \in Message : Working(o)' => Working(o)
  BY <1>1 DEF Working
<1>3. now' \in Int
  BY DEF KeyInv, Shapes
<1> QED BY <1>1, <1>2, <1>3, StillKeyInv

(* A key taken from whoever had it, who is then noted to have lost it.     *)
LEMMA TakeKeyInv ==
  ASSUME KeyInv, NEW m \in Message, NEW r \in Row,
         row' = [row EXCEPT ![KeyFor(m)] = r], r.owner = m, r.st = "IN_PROGRESS",
         At(m, "create"), UNCHANGED <<now, invoices>>, lapsed \subseteq lapsed',
         row[KeyFor(m)].st # "NONE" => row[KeyFor(m)].owner \in lapsed'
  PROVE  KeyInv'
<1> DEFINE k == KeyFor(m)
<1>1. /\ task' \in [Message -> Task] /\ task'[m].at = "create"
      /\ \A o \in Message : o # m => task'[o] = task[o]
  BY AtIs, Words DEF KeyInv
<1>2. row' \in [Key -> Row] /\ row'[k] = r /\ \A j \in Key : j # k => row'[j] = row[j]
  BY KeyForIsKey DEF KeyInv, Shapes
<1>3. Shapes'
  BY <1>1, <1>2 DEF KeyInv, Shapes
<1>4. ASSUME NEW o \in Message, o \in invoices' \/ Working(o)'
      PROVE  o \in lapsed' \/ (row'[KeyFor(o)].owner = o /\ row'[KeyFor(o)].st # "NONE")
  <2>1. CASE o = m
    BY <2>1, <1>2
  <2>2. CASE o # m
    <3>1. o \in lapsed \/ (row[KeyFor(o)].owner = o /\ row[KeyFor(o)].st # "NONE")
      BY <1>1, <1>4, <2>2 DEF KeyInv, Noted, Working
    <3>2. KeyFor(o) \in Key
      BY KeyForIsKey
    <3> QED BY <3>1, <3>2, <1>2
  <2> QED BY <2>1, <2>2
<1>5. ASSUME NEW o \in Message, Working(o)', row'[KeyFor(o)].owner = o
      PROVE  row'[KeyFor(o)].st = "IN_PROGRESS"
  <2>1. CASE KeyFor(o) = k
    BY <2>1, <1>2
  <2>2. CASE KeyFor(o) # k
    <3>1. o # m /\ KeyFor(o) \in Key
      BY <2>2, KeyForIsKey
    <3> QED BY <3>1, <2>2, <1>1, <1>2, <1>5 DEF KeyInv, Noted, Working
  <2> QED BY <2>1, <2>2
<1>6. \A o \in Message : KeyFor(o)' = KeyFor(o)
  BY DEF KeyFor
<1> QED BY <1>3, <1>4, <1>5, <1>6 DEF KeyInv, Noted

(* The owner of a key records how its work ended.                          *)
LEMMA MarkKeyInv ==
  ASSUME KeyInv, NEW m \in Message, NEW r \in Row, row[KeyFor(m)].owner = m,
         row' = [row EXCEPT ![KeyFor(m)] = r], r.owner = m, r.st # "NONE",
         r.st = "COMPLETED" => r.lease = Null,
         task' \in [Message -> Task], task'[m].at = "ended",
         \A o \in Message : o # m => task'[o] = task[o],
         UNCHANGED <<now, invoices, lapsed>>
  PROVE  KeyInv'
<1> DEFINE k == KeyFor(m)
<1>2. row' \in [Key -> Row] /\ row'[k] = r /\ \A j \in Key : j # k => row'[j] = row[j]
  BY KeyForIsKey DEF KeyInv, Shapes
<1>3. Shapes'
  BY <1>2 DEF KeyInv, Shapes
<1>4. \A o \in Message : Working(o)' => Working(o) /\ o # m
  BY DEF Working
<1>5. ASSUME NEW o \in Message
      PROVE  /\ o \in invoices' \/ Working(o)' =>
                  o \in lapsed' \/ (row'[KeyFor(o)].owner = o /\ row'[KeyFor(o)].st # "NONE")
             /\ Working(o)' /\ row'[KeyFor(o)].owner = o => row'[KeyFor(o)].st = "IN_PROGRESS"
  <2>1. CASE KeyFor(o) = k
    BY <2>1, <1>2, <1>4 DEF KeyInv, Noted
  <2>2. CASE KeyFor(o) # k
    BY <2>2, <1>2, <1>4, KeyForIsKey DEF KeyInv, Noted
  <2> QED BY <2>1, <2>2
<1>6. \A o \in Message : KeyFor(o)' = KeyFor(o)
  BY DEF KeyFor
<1> QED BY <1>3, <1>5, <1>6 DEF KeyInv, Noted

(* The three ways a row is written, with values of the right types.        *)
LEMMA RowStays ==
  ASSUME NEW r \in Row, NEW st \in Statuses, NEW b \in Bodies, NEW o \in Message \cup {NoOne},
         NEW l \in Int, NEW x \in Int
  PROVE  /\ [r EXCEPT !.st = st, !.body = b, !.owner = o, !.lease = l, !.expires = x] \in Row
         /\ [r EXCEPT !.owner = o, !.lease = l, !.st = st] \in Row
         /\ [r EXCEPT !.st = st, !.value = o, !.lease = l] \in Row
<1>1. [r EXCEPT !.st = st, !.body = b, !.owner = o, !.lease = l, !.expires = x] \in Row
  BY DEF Row
<1>2. [r EXCEPT !.owner = o, !.lease = l, !.st = st] \in Row
  BY DEF Row
<1>3. [r EXCEPT !.st = st, !.value = o, !.lease = l] \in Row
  BY DEF Row
<1> QED BY <1>1, <1>2, <1>3

LEMMA ClaimKeyInv ==
  ASSUME KeyInv, NEW m \in Message, Claim(m)
  PROVE  KeyInv'
<1>0. UNCHANGED <<now, invoices, lapsed>>
  BY DEF Claim, client
<1>1. CASE row[KeyFor(m)].st = "NONE" /\ At(m, "create")
  <2> DEFINE r == [NoRow EXCEPT !.st = "IN_PROGRESS", !.body = BodyOf[m[1]], !.owner = m,
                                !.lease = now + Lease, !.expires = now + KeyTtl]
  <2>1. "IN_PROGRESS" \in Statuses /\ BodyOf[m[1]] \in Bodies /\ now \in Int
        /\ Lease \in Int /\ KeyTtl \in Int
    BY Words, KeyForIsKey, RequestsAssumption DEF RequestsAssumption, KeyInv, Shapes
  <2>2. r \in Row
    <3>1. now + Lease \in Int /\ now + KeyTtl \in Int /\ m \in Message \cup {NoOne}
      BY <2>1
    <3> QED BY <2>1, <3>1, NoRowIsRow, RowStays, Zenon
  <2>3. r.owner = m /\ r.st = "IN_PROGRESS"
    BY NoRowIsRow DEF Row
  <2>4. row' = [row EXCEPT ![KeyFor(m)] = r]
    BY <1>1 DEF Claim, At, KeyInv, Shapes, Task
  <2> QED BY <1>0, <1>1, <2>2, <2>3, <2>4, TakeKeyInv
<1>2. CASE At(m, "look") /\ UNCHANGED row
  BY <1>0, <1>2, Words, AtKeyInv
<1>3. \/ row[KeyFor(m)].st = "NONE" /\ At(m, "create")
      \/ At(m, "look") /\ UNCHANGED row
  BY DEF Claim
<1> QED BY <1>1, <1>2, <1>3

LEMMA ReclaimKeyInv ==
  ASSUME KeyInv, NEW m \in Message, Reclaim(m)
  PROVE  KeyInv'
<1> DEFINE k == KeyFor(m)
<1>0. UNCHANGED <<now, invoices>> /\ row[k] \in Row
  BY KeyForIsKey DEF Reclaim, client, KeyInv, Shapes
<1>1. CASE Reclaimable(k) /\ At(m, "create")
  <2> DEFINE r == [row[k] EXCEPT !.owner = m, !.lease = now + Lease, !.st = "IN_PROGRESS"]
  <2>1. "IN_PROGRESS" \in Statuses /\ now \in Int /\ Lease \in Int
    BY Words, RequestsAssumption DEF RequestsAssumption, KeyInv, Shapes
  <2>2. r \in Row
    <3>1. now + Lease \in Int /\ m \in Message \cup {NoOne} /\ "none" \in Bodies
      BY <2>1, Words
    <3> QED BY <1>0, <2>1, <3>1, RowStays, Zenon
  <2>3. r.owner = m /\ r.st = "IN_PROGRESS"
    BY <1>0 DEF Row
  <2>4. row' = [row EXCEPT ![k].owner = m, ![k].lease = now + Lease, ![k].st = "IN_PROGRESS"]
        /\ lapsed' = lapsed \cup {row[k].owner}
    BY <1>1 DEF Reclaim, Reclaimable, At, Answer, KeyInv, Shapes, Task
  <2>5. row' = [row EXCEPT ![k] = r]
    BY <2>4, <1>0, KeyForIsKey DEF KeyInv, Shapes, Row
  <2> QED BY <1>0, <1>1, <2>2, <2>3, <2>4, <2>5, TakeKeyInv
<1>2. CASE Answer(m, "conflict", NoOne) /\ UNCHANGED <<row, lapsed>>
  BY <1>0, <1>2, Words, AnswerKeyInv
<1>3. \/ Reclaimable(k) /\ At(m, "create")
      \/ Answer(m, "conflict", NoOne) /\ UNCHANGED <<row, lapsed>>
  BY DEF Reclaim
<1> QED BY <1>1, <1>2, <1>3

LEMMA CompleteKeyInv ==
  ASSUME KeyInv, NEW m \in Message, Complete(m)
  PROVE  KeyInv'
<1> DEFINE k == KeyFor(m)
<1>0. /\ UNCHANGED <<now, invoices, lapsed>> /\ Answer(m, "ok", m)
      /\ k \in Key /\ row[k] \in Row /\ "COMPLETED" \in Statuses
  BY KeyForIsKey, Words DEF Complete, Keep, client, KeyInv, Shapes
<1>1. CASE Mine(m)
  <2> DEFINE r == [row[k] EXCEPT !.st = "COMPLETED", !.value = m, !.lease = Null]
  <2>0. r \in Row
    <3>1. Null \in Int /\ m \in Message \cup {NoOne} /\ "none" \in Bodies
      BY Words DEF Null
    <3> QED BY <1>0, <3>1, RowStays, Zenon
  <2>1. r.owner = m /\ r.st = "COMPLETED" /\ r.lease = Null
    BY <1>0, <1>1 DEF Row, Mine
  <2>2. row' = [row EXCEPT ![k].st = "COMPLETED", ![k].value = m, ![k].lease = Null]
    BY <1>1 DEF Complete
  <2>3. row' = [row EXCEPT ![k] = r]
    BY <1>0, <2>2 DEF KeyInv, Shapes, Row
  <2>4. /\ task' \in [Message -> Task] /\ task'[m].at = "ended"
        /\ \A o \in Message : o # m => task'[o] = task[o]
    BY <1>0, Words, AnswerIs DEF KeyInv
  <2> QED BY <1>0, <1>1, <2>0, <2>1, <2>3, <2>4, MarkKeyInv DEF Mine
<1>2. CASE ~Mine(m)
  <2>1. row' = row
    BY <1>2 DEF Complete
  <2> QED BY <1>0, <2>1, Words, AnswerKeyInv
<1> QED BY <1>1, <1>2

LEMMA FailKeyKeyInv ==
  ASSUME KeyInv, NEW m \in Message, FailKey(m)
  PROVE  KeyInv'
<1> DEFINE k == KeyFor(m)
<1>0. /\ UNCHANGED <<now, invoices, lapsed>> /\ Answer(m, "error", NoOne)
      /\ k \in Key /\ row[k] \in Row /\ "FAILED" \in Statuses /\ now \in Int
  BY KeyForIsKey, Words DEF FailKey, Keep, client, KeyInv, Shapes
<1>1. CASE Mine(m)
  <2> DEFINE r == [row[k] EXCEPT !.st = "FAILED", !.lease = now]
  <2>1. r \in Row /\ r.owner = m /\ r.st = "FAILED"
    BY <1>0, <1>1 DEF Row, Mine
  <2>2. row' = [row EXCEPT ![k].st = "FAILED", ![k].lease = now]
    BY <1>1 DEF FailKey
  <2>3. row' = [row EXCEPT ![k] = r]
    BY <1>0, <2>2 DEF KeyInv, Shapes, Row
  <2>4. /\ task' \in [Message -> Task] /\ task'[m].at = "ended"
        /\ \A o \in Message : o # m => task'[o] = task[o]
    BY <1>0, Words, AnswerIs DEF KeyInv
  <2> QED BY <1>0, <1>1, <2>1, <2>3, <2>4, MarkKeyInv DEF Mine
<1>2. CASE ~Mine(m)
  <2>1. row' = row
    BY <1>2 DEF FailKey
  <2> QED BY <1>0, <2>1, Words, AnswerKeyInv
<1> QED BY <1>1, <1>2

LEMMA PurgeKeyInv ==
  ASSUME KeyInv, PurgeExpired
  PROVE  KeyInv'
<1>1. /\ row' = [k \in Key |-> IF Purges(k) THEN NoRow ELSE row[k]]
      /\ UNCHANGED <<now, invoices, task>>
      /\ \A m \in lapsed : m \in lapsed'
      /\ \A k \in Key : Purges(k) => row[k].owner \in lapsed'
  BY DEF PurgeExpired, client
<1>2. Shapes'
  BY <1>1, NoRowIsRow DEF KeyInv, Shapes
<1>3. ASSUME NEW o \in Message
      PROVE  /\ o \in invoices' \/ Working(o)' =>
                  o \in lapsed' \/ (row'[KeyFor(o)].owner = o /\ row'[KeyFor(o)].st # "NONE")
             /\ Working(o)' /\ row'[KeyFor(o)].owner = o => row'[KeyFor(o)].st = "IN_PROGRESS"
  <2>1. CASE Purges(KeyFor(o))
    BY <2>1, <1>1, NoRowIsRow, KeyForIsKey DEF KeyInv, Noted, Working
  <2>2. CASE ~Purges(KeyFor(o))
    BY <2>2, <1>1, KeyForIsKey DEF KeyInv, Noted, Working
  <2> QED BY <2>1, <2>2
<1>4. \A o \in Message : KeyFor(o)' = KeyFor(o)
  BY DEF KeyFor
<1> QED BY <1>2, <1>3, <1>4 DEF KeyInv, Noted

LEMMA HandleKeyInv ==
  ASSUME KeyInv, NEW m \in Message, Handle(m) \/ Throw(m) \/ Crash(m)
  PROVE  KeyInv'
<1>1. CASE Claim(m) \/ Reclaim(m) \/ Complete(m) \/ FailKey(m)
  BY <1>1, ClaimKeyInv, ReclaimKeyInv, CompleteKeyInv, FailKeyKeyInv
<1>2. CASE Authenticate(m)
  <2>1. At(m, "check") \/ At(m, "claim")
    BY <1>2 DEF Authenticate
  <2>2. UNCHANGED <<now, invoices, row, lapsed>>
    BY <1>2 DEF Authenticate, client
  <2> QED BY <2>1, <2>2, Words, AtKeyInv
<1>3. CASE Refuse(m)
  BY <1>3, Words, AnswerKeyInv DEF Refuse, client
<1>4. CASE Look(m)
  <2>1. UNCHANGED <<now, invoices, row, lapsed>>
    BY <1>4 DEF Look, client
  <2>2. row[KeyFor(m)].value \in Message \cup {NoOne}
    BY KeyForIsKey DEF KeyInv, Shapes, Row
  <2>3. \/ Answer(m, "conflict", NoOne) \/ Answer(m, "ok", row[KeyFor(m)].value)
        \/ At(m, "reclaim")
    BY <1>4 DEF Look
  <2> QED BY <2>1, <2>2, <2>3, Words, AtKeyInv, AnswerKeyInv
<1>5. CASE Create(m)
  <2>1. Working(m) /\ At(m, "complete") /\ UNCHANGED <<now, row, lapsed>>
        /\ invoices' = invoices \cup {m}
    BY <1>5 DEF Create, Working, client
  <2> QED BY <2>1, Words, AtKeyInv
<1>6. CASE Throw(m)
  <2>1. Working(m) /\ At(m, "fail") /\ UNCHANGED <<now, invoices, row, lapsed>>
    BY <1>6 DEF Throw, Working, client
  <2> QED BY <2>1, Words, AtKeyInv
<1>7. CASE Crash(m)
  BY <1>7, Words, AtKeyInv DEF Crash, Outside, client
<1>8. CASE CheckRefund(m) \/ InsertRefund(m)
           \/ \E status \in {"REQUESTED", "BLOCKED_POLICY_UNDEFINED"} : CommitRefund(m, status)
  <2>1. UNCHANGED <<now, invoices, row, lapsed>>
    BY <1>8 DEF CheckRefund, InsertRefund, CommitRefund, Outside, client
  <2>2. \/ Answer(m, "conflict", NoOne) \/ Answer(m, "error", NoOne) \/ Answer(m, "ok", m)
        \/ At(m, "insert") \/ At(m, "commit")
    BY <1>8 DEF CheckRefund, InsertRefund, CommitRefund
  <2> QED BY <2>1, <2>2, Words, AtKeyInv, AnswerKeyInv
<1> QED BY <1>1, <1>2, <1>3, <1>4, <1>5, <1>6, <1>7, <1>8 DEF Handle

LEMMA NextKeyInv ==
  ASSUME KeyInv, [Next]_vars
  PROVE  KeyInv'
<1>1. CASE \E m \in Message : Handle(m) \/ Throw(m) \/ Crash(m)
  BY <1>1, HandleKeyInv
<1>2. CASE PurgeExpired
  BY <1>2, PurgeKeyInv
<1>3. CASE (\E c \in Call : Start(c) \/ TryAgain(c)) \/ Tick \/ UNCHANGED vars
  <2>1. UNCHANGED <<task, row, lapsed, invoices>> /\ (now' = now \/ now' = now + 1)
    BY <1>3 DEF Start, TryAgain, Send, server, Tick, vars
  <2>2. now' \in Int /\ task' \in [Message -> Task] /\ \A o \in Message : Working(o)' => Working(o)
    BY <2>1 DEF KeyInv, Shapes, Working
  <2> QED BY <2>1, <2>2, StillKeyInv
<1> QED BY <1>1, <1>2, <1>3 DEF Next

(* Two requests with one key create two invoices only when one of them had *)
(* lost its claim by lapse, failure or purge (runIdempotent).              *)
THEOREM DuplicateIsLapsedHolds == Spec => []DuplicateIsLapsed
<1>1. KeyInv /\ [Next]_vars => KeyInv'
  BY NextKeyInv
<1>2. KeyInv => DuplicateIsLapsed
  BY DEF KeyInv, Noted, DuplicateIsLapsed
<1> QED BY <1>1, <1>2, KeyInit, PTL DEF Spec

LEMMA StandsStep ==
  ASSUME KeyInv, [Next]_vars, NEW k \in Key, row[k].st = "COMPLETED", row[k].expires >= now
  PROVE  row'[k] = row[k]
<1>0. /\ row \in [Key -> Row] /\ row[k].lease = Null /\ row[k].expires \in Int /\ now \in Int
  BY DEF KeyInv, Shapes, Row
<1>1. ASSUME NEW m \in Message, Claim(m) PROVE row'[k] = row[k]
  BY <1>0, <1>1 DEF Claim
<1>2. ASSUME NEW m \in Message, Reclaim(m) PROVE row'[k] = row[k]
  <2>1. ~Reclaimable(k)
    BY <1>0 DEF Reclaimable, Claimable
  <2>2. CASE KeyFor(m) = k
    BY <1>2, <2>1, <2>2 DEF Reclaim
  <2>3. CASE KeyFor(m) # k
    BY <1>0, <1>2, <2>3 DEF Reclaim
  <2> QED BY <2>2, <2>3
<1>3. ASSUME NEW m \in Message, Complete(m) \/ FailKey(m) PROVE row'[k] = row[k]
  <2>1. Mine(m) => row[KeyFor(m)].st = "IN_PROGRESS"
    BY <1>3 DEF Complete, FailKey, Mine, KeyInv, Noted, Working
  <2>2. CASE Mine(m)
    BY <1>0, <1>3, <2>1, <2>2 DEF Complete, FailKey
  <2>3. CASE ~Mine(m)
    BY <1>3, <2>3 DEF Complete, FailKey
  <2> QED BY <2>2, <2>3
<1>4. CASE PurgeExpired
  BY <1>0, <1>4 DEF PurgeExpired, Purges
<1>5. ASSUME NEW m \in Message, Handle(m) \/ Throw(m) \/ Crash(m),
             ~(Claim(m) \/ Reclaim(m) \/ Complete(m) \/ FailKey(m))
      PROVE  row'[k] = row[k]
  BY <1>5 DEF Handle, Authenticate, Refuse, Look, Create, CheckRefund, InsertRefund, CommitRefund,
              Throw, Crash, Keep, Outside
<1>6. CASE (\E c \in Call : Start(c) \/ TryAgain(c)) \/ Tick \/ UNCHANGED vars
  BY <1>6 DEF Start, TryAgain, Send, server, Tick, vars
<1> QED BY <1>1, <1>2, <1>3, <1>4, <1>5, <1>6 DEF Next

(* What is recorded under a key stands until the key expires, because a    *)
(* handler that lost its claim completes nothing (IdempotencyService).     *)
THEOREM AnswerStandsHolds == Spec => AnswerStands
<1>1. KeyInv /\ [Next]_vars => KeyInv'
  BY NextKeyInv
<1>2. KeyInv /\ [Next]_vars => [\A k \in Key : row[k].st = "COMPLETED" /\ row[k].expires >= now
                                              => row'[k] = row[k]]_vars
  BY StandsStep
<1> QED BY <1>1, <1>2, KeyInit, PTL DEF Spec, AnswerStands

-----------------------------------------------------------------------------
(***************************************************************************)
(* The refunds of a payment.  The lock is the only thing between two       *)
(* transactions that both saw room for one more: who is past its check has *)
(* it (Holder), a row not committed is that of the holder (Uncommitted),   *)
(* and the sum that counts rows not committed too is within bounds.        *)
(***************************************************************************)
RefundStates == {"NONE", "UNCOMMITTED", "REQUESTED", "BLOCKED_POLICY_UNDEFINED"}
Refunding(m) == task[m].at \in {"check", "insert", "commit"}
Counting == {m \in Message : refund[m] \notin {"NONE", "FAILED", "REJECTED"}}

RefundShapes ==
  /\ task \in [Message -> Task] /\ refund \in [Message -> RefundStates]
  /\ \A m \in Message : Refunding(m) \/ refund[m] # "NONE" => m[1] \in RefundCall

Holder == \A m \in Message : task[m].at \in {"insert", "commit"} => lock = m
Uncommitted == \A m \in Message : refund[m] = "UNCOMMITTED" <=> task[m].at = "commit"

RefundInv == RefundShapes /\ Holder /\ Uncommitted /\ Total(Counting) <= Collected

(* Total is the sum over a set of messages of what their calls ask for.    *)
TotalAdds(S, g) ==
  g = [s \in SUBSET S |-> IF s = {} THEN 0 ELSE Amount[Pick(s)[1]] + g[s \ {Pick(s)}]]
Asked == [m \in Message |-> Amount[m[1]]]

LEMMA TotalIsSum ==
  ASSUME NEW S \in SUBSET Message
  PROVE  Total(S) = SumFunctionOnSet(Asked, S)
<1>1. Total(S) = (CHOOSE g : TotalAdds(S, g))[S]
  BY DEF Total, MapThenSumSet, MapThenFoldSet, Pick, TotalAdds
<1>2. ASSUME NEW g PROVE TotalAdds(S, g) <=> Adds(Asked, S, g)
  <2>1. \A s \in SUBSET S : s # {} => Pick(s) \in Message /\ Asked[Pick(s)] = Amount[Pick(s)[1]]
    BY PickIsIn DEF Asked
  <2> QED BY <2>1 DEF Adds, TotalAdds
<1>3. (CHOOSE g : TotalAdds(S, g)) = CHOOSE g : Adds(Asked, S, g)
  BY <1>2
<1> QED BY <1>1, <1>3, SumIsChosen

LEMMA MostAttempts ==
  ASSUME Call # {}
  PROVE  LET most == Max({Attempts[c] : c \in Call})
         IN  most \in Int /\ \A c \in Call : Attempts[c] \in Int /\ 1 <= Attempts[c] /\ Attempts[c] <= most
<1> DEFINE A == {Attempts[c] : c \in Call}
<1>1. Attempts \in [Call -> Nat \ {0}] /\ IsFiniteSet(Call)
  BY RequestsAssumption DEF RequestsAssumption
<1>2. Attempts \in Surjection(Call, A)
  BY <1>1 DEF Surjection
<1>3. A # {} /\ (\A n \in A : n \in Int) /\ \A c \in Call : Attempts[c] \in A /\ 1 <= Attempts[c]
  BY <1>1
<1> HIDE DEF A
<1>4. \E x \in A : \A y \in A : x >= y
  BY <1>1, <1>2, <1>3, FS_Surjection, HasGreatest
<1>5. Max(A) \in A /\ \A y \in A : Max(A) >= y
  BY <1>4 DEF Max
<1>6. Max(A) \in Int /\ \A c \in Call : Attempts[c] \in Int /\ 1 <= Attempts[c] /\ Attempts[c] <= Max(A)
  BY <1>3, <1>5
<1> QED BY <1>6 DEF A

LEMMA MessagesAreFinite == IsFiniteSet(Message)
<1> DEFINE most == Max({Attempts[c] : c \in Call})
<1>1. CASE Call = {}
  <2>1. Message = {}
    BY <1>1 DEF Message
  <2> QED BY <2>1, FS_EmptySet
<1>2. CASE Call # {}
  <2>1. most \in Int
    BY <1>2, MostAttempts
  <2>2. Message \in SUBSET (Call \X (1 .. most))
    BY DEF Message
  <2> HIDE DEF most
  <2>3. IsFiniteSet(1 .. most)
    BY <2>1, FS_Interval
  <2>4. IsFiniteSet(Call)
    BY RequestsAssumption DEF RequestsAssumption
  <2>5. IsFiniteSet(Call \X (1 .. most))
    BY <2>3, <2>4, FS_Product
  <2> QED BY <2>2, <2>5, FS_Subset
<1> QED BY <1>1, <1>2

LEMMA AskedIsNat == Collected \in Nat /\ \A m \in Message : m[1] \in RefundCall => Asked[m] \in Nat
BY RequestsAssumption DEF RequestsAssumption, Asked

(* More refunds ask for more.                                              *)
LEMMA TotalGrows ==
  ASSUME NEW S \in SUBSET Message, NEW T \in SUBSET S, \A m \in S : m[1] \in RefundCall
  PROVE  Total(T) \in Nat /\ Total(S) \in Nat /\ Total(T) <= Total(S)
<1>1. IsFiniteSet(S) /\ IsFiniteSet(T) /\ IsFiniteSet(S \ T)
  <2>1. S \ T \in SUBSET Message /\ T \in SUBSET Message
    OBVIOUS
  <2> QED BY <2>1, MessagesAreFinite, FS_Subset
<1> DEFINE g == [m \in S |-> IF m \in T THEN Asked[m] ELSE 0]
<1>2. \A m \in S : Asked[m] \in Nat /\ g[m] \in Nat
  BY AskedIsNat
<1>3. \A m \in T : g[m] = Asked[m] /\ Asked[m] \in Int
  BY <1>2
<1>4. \A m \in S \ T : g[m] = 0
  OBVIOUS
<1>5. \A m \in S : g[m] <= Asked[m]
  BY <1>2
<1> HIDE DEF g
<1>6. SumFunctionOnSet(Asked, T) = SumFunctionOnSet(g, S)
  BY <1>1, <1>3, <1>4, SumOfSome
<1>7. SumFunctionOnSet(g, S) <= SumFunctionOnSet(Asked, S)
  BY <1>1, <1>2, <1>5, SumGrows
<1>8. SumFunctionOnSet(Asked, T) \in Nat /\ SumFunctionOnSet(Asked, S) \in Nat
  BY <1>1, <1>2, SumIsNat
<1> QED BY <1>6, <1>7, <1>8, TotalIsSum

LEMMA RefundInit == Init => RefundInv
<1> SUFFICES ASSUME Init PROVE RefundInv
  OBVIOUS
<1>1. Idle \in Task /\ Idle.at = "idle" /\ \A m \in Message : task[m] = Idle /\ refund[m] = "NONE"
  BY Words DEF Idle, Task, Init
<1>2. RefundShapes
  BY <1>1 DEF Init, RefundShapes, RefundStates, Refunding
<1>3. Holder /\ Uncommitted
  BY <1>1 DEF Holder, Uncommitted
<1>4. Counting = {}
  BY <1>1 DEF Counting
<1>5. Total({}) = 0
  BY TotalIsSum, SumOfNone
<1> QED BY <1>2, <1>3, <1>4, <1>5, AskedIsNat DEF RefundInv

(* A step of a handler that touches no refund and gets nobody past the     *)
(* check.                                                                  *)
LEMMA NoRefundInv ==
  ASSUME RefundInv, NEW m \in Message, task' \in [Message -> Task],
         \A o \in Message : o # m => task'[o] = task[o],
         task'[m].at \notin {"insert", "commit"}, task'[m].at = "check" => m[1] \in RefundCall,
         task[m].at # "commit", UNCHANGED refund, lock' = lock \/ (lock = m /\ lock' = NoOne)
  PROVE  RefundInv'
<1>1. RefundShapes'
  BY DEF RefundInv, RefundShapes, Refunding
<1>2. Holder'
  BY DEF RefundInv, Holder
<1>3. Uncommitted'
  BY DEF RefundInv, Uncommitted
<1>4. Counting' = Counting
  BY DEF Counting
<1>5. Total(Counting)' = Total(Counting)
  BY <1>4
<1> QED BY <1>1, <1>2, <1>3, <1>5 DEF RefundInv

LEMMA CheckRefundInv ==
  ASSUME RefundInv, Shapes, NEW m \in Message, CheckRefund(m)
  PROVE  RefundInv'
<1>0. task[m].at = "check" /\ lock = NoOne /\ UNCHANGED refund /\ m[1] \in RefundCall
  BY DEF CheckRefund, FreeToLock, RefundInv, RefundShapes, Refunding
<1>1. CASE Answer(m, "conflict", NoOne) /\ UNCHANGED lock
  <2>1. /\ task' \in [Message -> Task] /\ task'[m].at = "ended"
        /\ \A o \in Message : o # m => task'[o] = task[o]
    BY <1>1, AnswerIs, Words
  <2> QED BY <1>0, <1>1, <2>1, NoRefundInv
<1>2. CASE At(m, "insert") /\ lock' = m
  <2>1. /\ task' \in [Message -> Task] /\ task'[m].at = "insert"
        /\ \A o \in Message : o # m => task'[o] = task[o]
    BY <1>2, AtIs, Words
  <2>2. RefundShapes'
    BY <1>0, <2>1 DEF RefundInv, RefundShapes, Refunding
  <2>3. Holder'
    BY <1>0, <1>2, <2>1, KeyForIsKey DEF RefundInv, Holder
  <2>4. Uncommitted'
    BY <1>0, <2>1 DEF RefundInv, Uncommitted
  <2>5. Counting' = Counting
    BY <1>0 DEF Counting
  <2>6. Total(Counting)' = Total(Counting)
    BY <2>5
  <2> QED BY <2>2, <2>3, <2>4, <2>6 DEF RefundInv
<1> QED BY <1>1, <1>2 DEF CheckRefund

(* What is committed is all that counts while nobody is before his commit, *)
(* and the trigger sums what is committed.                                 *)
LEMMA InsertRefundInv ==
  ASSUME RefundInv, Shapes, NEW m \in Message, InsertRefund(m)
  PROVE  RefundInv'
<1>0. /\ task[m].at = "insert" /\ lock = m /\ m[1] \in RefundCall
      /\ refund \in [Message -> RefundStates]
  BY DEF InsertRefund, RefundInv, Holder, RefundShapes, Refunding
<1>1. CASE Answer(m, "error", NoOne) /\ lock' = NoOne /\ UNCHANGED refund
  <2>1. /\ task' \in [Message -> Task] /\ task'[m].at = "ended"
        /\ \A o \in Message : o # m => task'[o] = task[o]
    BY <1>1, AnswerIs, Words
  <2> QED BY <1>0, <1>1, <2>1, NoRefundInv
<1>2. CASE /\ ~Exceeds(m) /\ refund' = [refund EXCEPT ![m] = "UNCOMMITTED"]
           /\ At(m, "commit") /\ UNCHANGED lock
  <2>1. /\ task' \in [Message -> Task] /\ task'[m].at = "commit"
        /\ \A o \in Message : o # m => task'[o] = task[o]
    BY <1>2, AtIs, Words
  <2>2. /\ refund'[m] = "UNCOMMITTED" /\ \A o \in Message : o # m => refund'[o] = refund[o]
        /\ refund' \in [Message -> RefundStates]
    BY <1>0, <1>2 DEF RefundStates
  <2>3. RefundShapes'
    BY <1>0, <2>1, <2>2 DEF RefundInv, RefundShapes, Refunding
  <2>4. Holder'
    BY <1>0, <1>2, <2>1 DEF RefundInv, Holder
  <2>5. Uncommitted'
    BY <1>0, <2>1, <2>2 DEF RefundInv, Uncommitted
  <2>6. \A o \in Message : refund[o] # "UNCOMMITTED"
    BY <1>0 DEF RefundInv, Uncommitted, Holder
  <2>7. Counting' = Committed \cup {m}
    BY <2>2, <2>6 DEF Counting, Committed
  <2>8. Committed \in SUBSET Message /\ \A o \in Committed : o[1] \in RefundCall
    BY DEF Committed, RefundInv, RefundShapes
  <2>9. Total(Committed \cup {m}) <= Collected
    <3>1. IsFiniteSet(Committed) /\ \A o \in Committed \cup {m} : Asked[o] \in Nat
      BY <1>0, <2>8, MessagesAreFinite, FS_Subset, AskedIsNat
    <3>2. Total(Committed) = SumFunctionOnSet(Asked, Committed)
          /\ Total(Committed \cup {m}) = SumFunctionOnSet(Asked, Committed \cup {m})
      <4>1. Committed \cup {m} \in SUBSET Message
        BY <2>8
      <4> QED BY <2>8, <4>1, TotalIsSum
    <3>3. SumFunctionOnSet(Asked, Committed) \in Nat
      BY <3>1, SumIsNat
    <3>4. ~(Total(Committed) + Asked[m] > Collected) /\ Asked[m] \in Nat
      BY <1>2, <3>1 DEF Exceeds, Asked
    <3>5. CASE m \in Committed
      <4>1. Committed \cup {m} = Committed
        BY <3>5
      <4>2. Total(Committed \cup {m}) = Total(Committed)
        BY <4>1
      <4>3. Total(Committed) \in Nat
        BY <3>2, <3>3
      <4> QED BY <3>4, <4>2, <4>3, AskedIsNat
    <3>6. CASE m \notin Committed
      <4>1. SumFunctionOnSet(Asked, Committed \cup {m}) = SumFunctionOnSet(Asked, Committed) + Asked[m]
        BY <3>1, <3>6, SumAdd
      <4> QED BY <3>2, <3>3, <3>4, <4>1, AskedIsNat
    <3> QED BY <3>5, <3>6
  <2>10. Total(Counting)' <= Collected
    BY <2>7, <2>9
  <2> QED BY <2>3, <2>4, <2>5, <2>10 DEF RefundInv
<1> QED BY <1>1, <1>2 DEF InsertRefund

(* Who leaves the transaction, by its commit or its rollback, is the only  *)
(* one in it; nothing is counted that was not counted before.              *)
LEMMA LeaveInv ==
  ASSUME RefundInv, NEW m \in Message, NEW status \in RefundStates \ {"UNCOMMITTED"},
         refund' = [refund EXCEPT ![m] = status], status # "NONE" => refund[m] # "NONE",
         task' \in [Message -> Task], task'[m].at = "ended",
         \A o \in Message : o # m => task'[o] = task[o],
         lock' = lock \/ (lock' = NoOne /\ lock = m)
  PROVE  RefundInv'
<1>0. /\ refund'[m] = status /\ \A o \in Message : o # m => refund'[o] = refund[o]
      /\ refund' \in [Message -> RefundStates]
  BY DEF RefundInv, RefundShapes
<1>1. RefundShapes'
  BY <1>0 DEF RefundInv, RefundShapes, Refunding
<1>2. Holder'
  BY DEF RefundInv, Holder
<1>3. Uncommitted'
  BY <1>0 DEF RefundInv, Uncommitted
<1>4. Counting' \in SUBSET Counting /\ Counting \in SUBSET Message
  BY <1>0 DEF Counting, RefundInv, RefundShapes, RefundStates
<1>5. \A o \in Counting : o[1] \in RefundCall
  BY DEF Counting, RefundInv, RefundShapes
<1>6. Total(Counting') \in Nat /\ Total(Counting) \in Nat /\ Total(Counting') <= Total(Counting)
  BY <1>4, <1>5, TotalGrows
<1>7. Total(Counting)' <= Collected
  BY <1>6, AskedIsNat DEF RefundInv
<1> QED BY <1>1, <1>2, <1>3, <1>7 DEF RefundInv

LEMMA CommitRefundInv ==
  ASSUME RefundInv, Shapes, NEW m \in Message,
         NEW status \in {"REQUESTED", "BLOCKED_POLICY_UNDEFINED"}, CommitRefund(m, status)
  PROVE  RefundInv'
<1>1. /\ task' \in [Message -> Task] /\ task'[m].at = "ended"
      /\ \A o \in Message : o # m => task'[o] = task[o]
  BY AnswerIs, Words DEF CommitRefund
<1>2. lock = m /\ lock' = NoOne /\ refund' = [refund EXCEPT ![m] = status]
  BY DEF CommitRefund, RefundInv, Holder
<1>3. refund[m] = "UNCOMMITTED"
  BY DEF CommitRefund, RefundInv, Uncommitted
<1> QED BY <1>1, <1>2, <1>3, LeaveInv DEF RefundStates

LEMMA CrashRefundInv ==
  ASSUME RefundInv, Shapes, NEW m \in Message, Crash(m)
  PROVE  RefundInv'
<1>1. /\ task' \in [Message -> Task] /\ task'[m].at = "ended"
      /\ \A o \in Message : o # m => task'[o] = task[o]
  BY AtIs, Words DEF Crash
<1>2. lock' = lock \/ (lock' = NoOne /\ lock = m)
  BY DEF Crash
<1>3. CASE refund[m] = "UNCOMMITTED"
  BY <1>1, <1>2, <1>3, LeaveInv DEF Crash, RefundStates
<1>4. CASE refund[m] # "UNCOMMITTED"
  <2>1. refund' = [refund EXCEPT ![m] = refund[m]] /\ refund[m] \in RefundStates \ {"UNCOMMITTED"}
    BY <1>4 DEF Crash, RefundInv, RefundShapes
  <2> QED BY <1>1, <1>2, <2>1, LeaveInv
<1> QED BY <1>3, <1>4

LEMMA HandleRefundInv ==
  ASSUME RefundInv, Shapes, NEW m \in Message, Handle(m) \/ Throw(m) \/ Crash(m)
  PROVE  RefundInv'
<1>1. CASE CheckRefund(m) \/ InsertRefund(m) \/ Crash(m)
  BY <1>1, CheckRefundInv, InsertRefundInv, CrashRefundInv
<1>2. CASE \E status \in {"REQUESTED", "BLOCKED_POLICY_UNDEFINED"} : CommitRefund(m, status)
  BY <1>2, CommitRefundInv
<1>3. CASE Authenticate(m)
  <2>1. PICK step \in {"check", "claim"} : At(m, step) /\ (step = "check" => m[1] \in RefundCall)
    BY <1>3 DEF Authenticate
  <2>2. /\ task' \in [Message -> Task] /\ task'[m].at = step
        /\ \A o \in Message : o # m => task'[o] = task[o]
    BY <2>1, AtIs, Words
  <2>3. task[m].at # "commit" /\ UNCHANGED <<refund, lock>>
    BY <1>3 DEF Authenticate
  <2> QED BY <2>1, <2>2, <2>3, NoRefundInv
<1>4. CASE Refuse(m) \/ Claim(m) \/ Look(m) \/ Reclaim(m) \/ Create(m) \/ Complete(m)
           \/ FailKey(m) \/ Throw(m)
  <2>1. UNCHANGED <<refund, lock>>
    BY <1>4 DEF Refuse, Claim, Look, Reclaim, Create, Complete, FailKey, Throw, Keep
  <2>2. task[m].at # "commit"
    <3>1. Idle.at = "idle"
      BY DEF Idle
    <3> QED BY <1>4, <3>1 DEF Refuse, Claim, Look, Reclaim, Create, Complete, FailKey, Throw
  <2>3. row[KeyFor(m)].value \in Message \cup {NoOne}
    BY KeyForIsKey DEF Shapes, Row
  <2>4. \/ Answer(m, "conflict", NoOne) \/ Answer(m, "ok", row[KeyFor(m)].value)
        \/ Answer(m, "ok", m) \/ Answer(m, "error", NoOne)
        \/ \E step \in {"create", "look", "reclaim", "complete", "fail"} : At(m, step)
    BY <1>4 DEF Refuse, Claim, Look, Reclaim, Create, Complete, FailKey, Throw
  <2>5. /\ task' \in [Message -> Task] /\ \A o \in Message : o # m => task'[o] = task[o]
        /\ task'[m].at \in {"create", "look", "reclaim", "complete", "fail", "ended"}
    <3>1. CASE \E step \in {"create", "look", "reclaim", "complete", "fail"} : At(m, step)
      BY <3>1, AtIs, Words
    <3>2. CASE \/ Answer(m, "conflict", NoOne) \/ Answer(m, "ok", row[KeyFor(m)].value)
               \/ Answer(m, "ok", m) \/ Answer(m, "error", NoOne)
      BY <2>3, <3>2, AnswerIs, Words
    <3> QED BY <2>4, <3>1, <3>2
  <2> QED BY <2>1, <2>2, <2>5, NoRefundInv
<1> QED BY <1>1, <1>2, <1>3, <1>4 DEF Handle

LEMMA NextRefundInv ==
  ASSUME RefundInv, KeyInv, [Next]_vars
  PROVE  RefundInv'
<1>1. CASE \E m \in Message : Handle(m) \/ Throw(m) \/ Crash(m)
  BY <1>1, HandleRefundInv DEF KeyInv
<1>2. CASE (\E c \in Call : Start(c) \/ TryAgain(c)) \/ PurgeExpired \/ Tick \/ UNCHANGED vars
  <2>1. UNCHANGED <<task, refund, lock>>
    BY <1>2 DEF Start, TryAgain, Send, server, PurgeExpired, Tick, vars
  <2>2. RefundShapes' /\ Holder' /\ Uncommitted'
    BY <2>1 DEF RefundInv, RefundShapes, Refunding, Holder, Uncommitted
  <2>3. Counting' = Counting
    BY <2>1 DEF Counting
  <2>4. Total(Counting)' = Total(Counting)
    BY <2>3
  <2> QED BY <2>2, <2>4 DEF RefundInv
<1> QED BY <1>1, <1>2 DEF Next

(* However many refunds of a payment are asked for at once, those that     *)
(* count stay within what was collected, because the payment's row is held *)
(* from the check to the commit (requestRefund, trg_refund_within_limit).  *)
THEOREM RefundsWithinCollectedHolds == Spec => []RefundsWithinCollected
<1>1. Init => KeyInv /\ RefundInv
  BY KeyInit, RefundInit
<1>2. KeyInv /\ RefundInv /\ [Next]_vars => (KeyInv /\ RefundInv)'
  BY NextKeyInv, NextRefundInv
<1>3. KeyInv /\ RefundInv => RefundsWithinCollected
  BY DEF RefundInv, RefundsWithinCollected, Counting
<1> QED BY <1>1, <1>2, <1>3, PTL DEF Spec

-----------------------------------------------------------------------------
(***************************************************************************)
(* What is in the variables.                                               *)
(***************************************************************************)
ClientTypes ==
  /\ now \in 0 .. Horizon /\ faults \in 0 .. Faults /\ made \in Together
  /\ call \in [Call -> Int]
  /\ \A c \in Call : 0 <= call[c] /\ call[c] <= (IF c \in made THEN Attempts[c] ELSE 0)
  /\ DOMAIN stamp \subseteq Message /\ DOMAIN nonce \subseteq DOMAIN stamp

RowFits(r) ==
  /\ r.st = "NONE" => r.owner = NoOne
  /\ r.st # "NONE" => r.owner # NoOne
  /\ (r.lease = Null) <=> r.st \in {"NONE", "COMPLETED"}
  /\ (r.value # NoOne) <=> r.st = "COMPLETED"

ServerTypes ==
  /\ lock \in Message \cup {NoOne} /\ lapsed \subseteq Message /\ invoices \subseteq Message
  /\ \A k \in Key : RowFits(row[k])

TypeInv == ClientTypes /\ ServerTypes

LEMMA BoundsAreNat ==
  /\ Horizon \in Nat /\ Faults \in Nat /\ Lease \in Nat /\ KeyTtl \in Nat
  /\ \A c \in Call : Attempts[c] \in Nat /\ 1 <= Attempts[c]
BY RequestsAssumption DEF RequestsAssumption

LEMMA TypeInit == Init => TypeInv
<1> SUFFICES ASSUME Init PROVE TypeInv
  OBVIOUS
<1>1. ClientTypes
  BY BoundsAreNat DEF Init, ClientTypes
<1>2. RowFits(NoRow)
  BY DEF RowFits, NoRow, NoOne, Null
<1> QED BY <1>1, <1>2 DEF Init, TypeInv, ServerTypes

LEMMA SendTypes ==
  ASSUME TypeInv, NEW c \in Call, Start(c) \/ TryAgain(c)
  PROVE  TypeInv'
<1>1. /\ call' = [call EXCEPT ![c] = @ + 1] /\ UNCHANGED server
      /\ DOMAIN stamp' = DOMAIN stamp \cup {<<c, call[c] + 1>>}
  BY DEF Start, TryAgain, Send, With
<1>2. c \in made /\ call[c] \in Int /\ 0 <= call[c] /\ call[c] + 1 <= Attempts[c]
  BY BoundsAreNat DEF Start, TryAgain, TypeInv, ClientTypes
<1>3. <<c, call[c] + 1>> \in Message
  BY <1>2, MostAttempts DEF Message
<1>4. ClientTypes'
  BY <1>1, <1>2, <1>3, BoundsAreNat DEF TypeInv, ClientTypes, server
<1>5. ServerTypes'
  BY <1>1 DEF TypeInv, ServerTypes, server
<1> QED BY <1>4, <1>5 DEF TypeInv

(* A handler's step keeps the clients' types.                              *)
LEMMA HandleClientTypes ==
  ASSUME TypeInv, NEW m \in Message, Handle(m) \/ Throw(m) \/ Crash(m)
  PROVE  ClientTypes'
<1>1. UNCHANGED <<now, made, call, stamp>>
  BY DEF Handle, Authenticate, Refuse, Claim, Look, Reclaim, Create, Complete, FailKey, CheckRefund,
         InsertRefund, CommitRefund, Throw, Crash, client
<1>2. UNCHANGED nonce \/ (m \in DOMAIN stamp /\ DOMAIN nonce' = DOMAIN nonce \cup {m})
  BY DEF Handle, Authenticate, Refuse, Claim, Look, Reclaim, Create, Complete, FailKey, CheckRefund,
         InsertRefund, CommitRefund, Throw, Crash, Keep, Outside, Spend, With
<1>3. faults' = faults \/ (faults < Faults /\ faults' = faults + 1)
  BY DEF Handle, Authenticate, Refuse, Claim, Look, Reclaim, Create, Complete, FailKey, CheckRefund,
         InsertRefund, CommitRefund, Throw, Crash, Keep, Outside
<1>4. faults' \in 0 .. Faults
  BY <1>3, BoundsAreNat DEF TypeInv, ClientTypes
<1> QED BY <1>1, <1>2, <1>4 DEF TypeInv, ClientTypes

(* One row is written anew.                                                *)
LEMMA WriteFits ==
  ASSUME ServerTypes, Shapes, NEW k \in Key, NEW r, RowFits(r), row' = [row EXCEPT ![k] = r],
         lapsed' \subseteq Message, UNCHANGED <<lock, invoices>>
  PROVE  ServerTypes'
<1>1. \A j \in Key : row'[j] = IF j = k THEN r ELSE row[j]
  BY DEF Shapes
<1> QED BY <1>1 DEF ServerTypes

LEMMA ClaimFits ==
  ASSUME TypeInv, KeyInv, NEW m \in Message, Claim(m)
  PROVE  ServerTypes'
<1> DEFINE r == [NoRow EXCEPT !.st = "IN_PROGRESS", !.body = BodyOf[m[1]], !.owner = m,
                              !.lease = now + Lease, !.expires = now + KeyTtl]
<1>1. RowFits(r)
  BY KeyForIsKey, BoundsAreNat DEF TypeInv, ClientTypes, RowFits, NoRow, Null
<1>2. row' = [row EXCEPT ![KeyFor(m)] = r] \/ UNCHANGED row
  BY DEF Claim
<1>3. UNCHANGED <<lock, invoices, lapsed>>
  BY DEF Claim, Keep
<1> QED BY <1>1, <1>2, <1>3, WriteFits, KeyForIsKey DEF TypeInv, ServerTypes, KeyInv

LEMMA ReclaimFits ==
  ASSUME TypeInv, KeyInv, NEW m \in Message, Reclaim(m)
  PROVE  ServerTypes'
<1> DEFINE k == KeyFor(m)
<1>0. k \in Key /\ row \in [Key -> Row] /\ row[k] \in Row /\ UNCHANGED <<lock, invoices>>
  BY KeyForIsKey DEF Reclaim, Keep, KeyInv, Shapes
<1>1. CASE Reclaimable(k) /\ At(m, "create")
  <2> DEFINE r == [row[k] EXCEPT !.owner = m, !.lease = now + Lease, !.st = "IN_PROGRESS"]
  <2>1. row' = [row EXCEPT ![k].owner = m, ![k].lease = now + Lease, ![k].st = "IN_PROGRESS"]
        /\ (lapsed' = lapsed \cup {row[k].owner} \/ lapsed' = lapsed)
    BY <1>0, <1>1 DEF Reclaim, At, Answer, Shapes, KeyInv
  <2>2. row' = [row EXCEPT ![k] = r]
    BY <1>0, <2>1 DEF Row
  <2>3. row[k].st # "COMPLETED" /\ row[k].st # "NONE"
    BY <1>0, <1>1 DEF Reclaimable, Claimable, KeyInv, Shapes
  <2>4. row[k].value = NoOne /\ row[k].owner \in Message
    BY <1>0, <2>3 DEF TypeInv, ServerTypes, RowFits, Row
  <2>5. r.value = row[k].value /\ r.owner = m /\ r.st = "IN_PROGRESS" /\ r.lease = now + Lease
    BY <1>0 DEF Row
  <2>6. RowFits(r)
    BY <2>4, <2>5, KeyForIsKey, BoundsAreNat DEF TypeInv, ClientTypes, RowFits, Null
  <2>7. lapsed' \subseteq Message
    BY <2>1, <2>4 DEF TypeInv, ServerTypes
  <2> HIDE DEF r
  <2> QED BY <1>0, <2>2, <2>6, <2>7, WriteFits DEF TypeInv, KeyInv
<1>2. CASE UNCHANGED <<row, lapsed>>
  BY <1>0, <1>2 DEF TypeInv, ServerTypes
<1> QED BY <1>1, <1>2 DEF Reclaim

LEMMA RecordFits ==
  ASSUME TypeInv, KeyInv, NEW m \in Message, Complete(m) \/ FailKey(m)
  PROVE  ServerTypes'
<1> DEFINE k == KeyFor(m)
<1>0. /\ k \in Key /\ row \in [Key -> Row] /\ row[k] \in Row
      /\ UNCHANGED <<lock, invoices, lapsed>>
  BY KeyForIsKey DEF Complete, FailKey, Keep, KeyInv, Shapes
<1>1. CASE ~Mine(m)
  <2>1. UNCHANGED row
    BY <1>1 DEF Complete, FailKey
  <2> QED BY <1>0, <2>1 DEF TypeInv, ServerTypes
<1>2. CASE Mine(m)
  <2>1. row[k].st = "IN_PROGRESS" /\ row[k].owner = m
    BY <1>2 DEF Mine, Complete, FailKey, KeyInv, Noted, Working
  <2>2. row[k].value = NoOne /\ m # NoOne
    BY <1>0, <2>1, KeyForIsKey DEF TypeInv, ServerTypes, RowFits, Row
  <2>3. CASE Complete(m)
    <3> DEFINE r == [row[k] EXCEPT !.st = "COMPLETED", !.value = m, !.lease = Null]
    <3>1. row' = [row EXCEPT ![k].st = "COMPLETED", ![k].value = m, ![k].lease = Null]
      BY <1>2, <2>3 DEF Complete
    <3>2. row' = [row EXCEPT ![k] = r]
      BY <1>0, <3>1 DEF Row
    <3>3. r.value = m /\ r.owner = m /\ r.st = "COMPLETED" /\ r.lease = Null
      BY <1>0, <2>1 DEF Row
    <3>4. RowFits(r)
      BY <2>2, <3>3 DEF RowFits
    <3> HIDE DEF r
    <3> QED BY <1>0, <3>2, <3>4, WriteFits DEF TypeInv, ServerTypes, KeyInv
  <2>4. CASE FailKey(m)
    <3> DEFINE r == [row[k] EXCEPT !.st = "FAILED", !.lease = now]
    <3>1. row' = [row EXCEPT ![k].st = "FAILED", ![k].lease = now]
      BY <1>2, <2>4 DEF FailKey
    <3>2. row' = [row EXCEPT ![k] = r]
      BY <1>0, <3>1 DEF Row
    <3>3. r.value = NoOne /\ r.owner = m /\ r.st = "FAILED" /\ r.lease = now
      BY <1>0, <2>1, <2>2 DEF Row
    <3>4. RowFits(r)
      BY <2>2, <3>3 DEF RowFits, TypeInv, ClientTypes, Null
    <3> HIDE DEF r
    <3> QED BY <1>0, <3>2, <3>4, WriteFits DEF TypeInv, ServerTypes, KeyInv
  <2> QED BY <2>3, <2>4
<1> QED BY <1>1, <1>2

LEMMA HandleFits ==
  ASSUME TypeInv, KeyInv, RefundInv, NEW m \in Message, Handle(m) \/ Throw(m) \/ Crash(m)
  PROVE  ServerTypes'
<1>1. CASE Claim(m) \/ Reclaim(m) \/ Complete(m) \/ FailKey(m)
  BY <1>1, ClaimFits, ReclaimFits, RecordFits
<1>2. CASE ~(Claim(m) \/ Reclaim(m) \/ Complete(m) \/ FailKey(m))
  <2>1. UNCHANGED <<row, lapsed>>
    BY <1>2 DEF Handle, Authenticate, Refuse, Look, Create, CheckRefund, InsertRefund, CommitRefund,
                Throw, Crash, Keep, Outside
  <2>2. lock' \in {lock, m, NoOne} /\ (UNCHANGED invoices \/ invoices' = invoices \cup {m})
    BY <1>2 DEF Handle, Authenticate, Refuse, Look, Create, CheckRefund, InsertRefund, CommitRefund,
                Throw, Crash, Keep, Outside
  <2> QED BY <2>1, <2>2 DEF TypeInv, ServerTypes
<1> QED BY <1>1, <1>2

LEMMA NextTypes ==
  ASSUME TypeInv, KeyInv, RefundInv, [Next]_vars
  PROVE  TypeInv'
<1>1. CASE \E c \in Call : Start(c) \/ TryAgain(c)
  BY <1>1, SendTypes
<1>2. CASE \E m \in Message : Handle(m) \/ Throw(m) \/ Crash(m)
  BY <1>2, HandleClientTypes, HandleFits DEF TypeInv
<1>3. CASE PurgeExpired
  <2>1. /\ UNCHANGED <<now, made, call, stamp, faults, lock, invoices>>
        /\ DOMAIN nonce' \subseteq DOMAIN nonce
        /\ row' = [k \in Key |-> IF Purges(k) THEN NoRow ELSE row[k]]
        /\ lapsed' = lapsed \cup {row[k].owner : k \in {x \in Key : Purges(x)}}
    BY <1>3 DEF PurgeExpired, client
  <2>2. ClientTypes'
    BY <2>1 DEF TypeInv, ClientTypes
  <2>3. RowFits(NoRow)
    BY DEF RowFits, NoRow, NoOne, Null
  <2>4. \A k \in Key : RowFits(row'[k])
    BY <2>1, <2>3 DEF TypeInv, ServerTypes
  <2>5. \A k \in Key : Purges(k) => row[k].owner \in Message
    BY DEF Purges, TypeInv, ServerTypes, RowFits, KeyInv, Shapes, Row
  <2>6. lapsed' \subseteq Message
    BY <2>1, <2>5 DEF TypeInv, ServerTypes
  <2> QED BY <2>1, <2>2, <2>4, <2>6 DEF TypeInv, ServerTypes
<1>4. CASE Tick
  <2>1. now' \in 0 .. Horizon /\ UNCHANGED <<made, call, stamp, nonce, row, invoices, lock, lapsed, faults>>
    BY <1>4, BoundsAreNat DEF Tick, TypeInv, ClientTypes
  <2> QED BY <2>1 DEF TypeInv, ClientTypes, ServerTypes
<1>5. CASE UNCHANGED vars
  BY <1>5 DEF vars, TypeInv, ClientTypes, ServerTypes
<1> QED BY <1>1, <1>2, <1>3, <1>4, <1>5 DEF Next

LEMMA TypesAreOK == TypeInv /\ KeyInv => TypeOK
<1> SUFFICES ASSUME TypeInv, KeyInv PROVE TypeOK
  OBVIOUS
<1>1. row \in [Key -> Row] /\ task \in [Message -> Task]
  BY DEF KeyInv, Shapes
<1>2. \A c \in Call : call[c] \in 0 .. (IF c \in made THEN Attempts[c] ELSE 0)
  BY BoundsAreNat DEF TypeInv, ClientTypes
<1>3. \A k \in Key : /\ (row[k].lease = Null) = (row[k].st \in {"NONE", "COMPLETED"})
                     /\ (row[k].value # NoOne) => row[k].st = "COMPLETED"
  BY DEF TypeInv, ServerTypes, RowFits
<1> QED BY <1>1, <1>2, <1>3
        DEF TypeOK, TypeInv, ClientTypes, ServerTypes, Row, Task, Statuses, Bodies, Steps, Answers

(* Types, bounds and the shape of a key's row (idempotency.ts).            *)
THEOREM TypeOKHolds == Spec => []TypeOK
<1>1. Init => KeyInv /\ RefundInv /\ TypeInv
  BY KeyInit, RefundInit, TypeInit
<1>2. KeyInv /\ RefundInv /\ TypeInv /\ [Next]_vars => (KeyInv /\ RefundInv /\ TypeInv)'
  BY NextKeyInv, NextRefundInv, NextTypes
<1>3. KeyInv /\ RefundInv /\ TypeInv => TypeOK
  BY TypesAreOK
<1> QED BY <1>1, <1>2, <1>3, PTL DEF Spec

-----------------------------------------------------------------------------
(***************************************************************************)
(* What is answered under a key.  The UPDATE that takes over a key does    *)
(* not compare bodies, it relies on the SELECT that did; so what follows   *)
(* needs that no key is purged between the two.                            *)
(***************************************************************************)
PromptTakeovers ==
  [][\A k \in Key : row[k].st # "NONE" /\ row'[k].st = "NONE" =>
       \A m \in Message : KeyFor(m) = k => task[m].at # "reclaim"]_vars

IsFor(v, k, b) == v \in invoices /\ KeyFor(v) = k /\ BodyOf[v[1]] = b

(* A handler knows that the key's row is for its body, and its answer is.  *)
Honest(m) ==
  /\ task[m].at = "reclaim" => row[KeyFor(m)].st # "NONE" /\ SameBody(m)
  /\ Working(m) /\ row[KeyFor(m)].owner = m => SameBody(m)
  /\ task[m].at = "complete" => m \in invoices
  /\ task[m].answer = "ok" /\ m[1] \notin RefundCall => IsFor(task[m].value, KeyFor(m), BodyOf[m[1]])

Recorded(k) == row[k].st = "COMPLETED" => IsFor(row[k].value, k, row[k].body)

AnswerInv == (\A m \in Message : Honest(m)) /\ \A k \in Key : Recorded(k)

LEMMA AnswerInit == Init => AnswerInv
BY KeyForIsKey DEF Init, AnswerInv, Honest, Recorded, Working, Idle, NoRow

(* An answer stays true: no invoice goes away.                             *)
LEMMA IsForStays ==
  ASSUME invoices \subseteq invoices', NEW v, NEW k, NEW b, IsFor(v, k, b)
  PROVE  IsFor(v, k, b)'
BY DEF IsFor, KeyFor

(* A step that leaves the rows alone.                                      *)
LEMMA SameRowsAnswer ==
  ASSUME AnswerInv, UNCHANGED row, invoices \subseteq invoices', NEW m \in Message,
         \A o \in Message : o # m => task'[o] = task[o], Honest(m)'
  PROVE  AnswerInv'
<1>1. ASSUME NEW o \in Message, o # m PROVE Honest(o)'
  <2>1. Honest(o) /\ task'[o] = task[o] /\ KeyFor(o)' = KeyFor(o)
    BY <1>1 DEF AnswerInv, KeyFor
  <2>2. IsFor(task[o].value, KeyFor(o), BodyOf[o[1]]) => IsFor(task[o].value, KeyFor(o), BodyOf[o[1]])'
    BY <2>1 DEF IsFor, KeyFor
  <2> QED BY <2>1, <2>2 DEF Honest, Working, SameBody
<1>2. ASSUME NEW k \in Key PROVE Recorded(k)'
  BY DEF AnswerInv, Recorded, IsFor, KeyFor
<1> QED BY <1>1, <1>2 DEF AnswerInv

(* The shape of a task that moves on keeps its answer.                     *)
LEMMA AtAnswer ==
  ASSUME Shapes, NEW m \in Message, NEW step \in Steps, At(m, step)
  PROVE  task'[m].answer = task[m].answer /\ task'[m].value = task[m].value
BY DEF At, Shapes, Task

LEMMA AnswerAnswer ==
  ASSUME Shapes, NEW m \in Message, NEW answer, NEW v, Answer(m, answer, v)
  PROVE  task'[m].answer = answer /\ task'[m].value = v
BY DEF Answer, Shapes

(* One moves to a step at which nothing is needed of it.                   *)
LEMMA MoveAnswer ==
  ASSUME AnswerInv, Shapes, NEW m \in Message, NEW step \in Steps, At(m, step),
         step \in {"create", "complete", "fail"} => Working(m),
         step = "reclaim" => row[KeyFor(m)].st # "NONE" /\ SameBody(m),
         step = "complete" => m \in invoices',
         UNCHANGED row, invoices \subseteq invoices'
  PROVE  AnswerInv'
<1>1. /\ task'[m].at = step /\ \A o \in Message : o # m => task'[o] = task[o]
      /\ task'[m].answer = task[m].answer /\ task'[m].value = task[m].value
  BY AtIs, AtAnswer
<1>2. Honest(m) /\ KeyFor(m)' = KeyFor(m)
  BY DEF AnswerInv, KeyFor
<1>3. IsFor(task[m].value, KeyFor(m), BodyOf[m[1]]) => IsFor(task[m].value, KeyFor(m), BodyOf[m[1]])'
  BY <1>1 DEF IsFor, KeyFor
<1>4. Honest(m)'
  BY <1>1, <1>2, <1>3 DEF Honest, Working, SameBody
<1> QED BY <1>1, <1>4, SameRowsAnswer

(* One ends with an answer that is none, or a true one.                    *)
LEMMA EndAnswer ==
  ASSUME AnswerInv, Shapes, NEW m \in Message, NEW answer \in Answers, NEW v \in Message \cup {NoOne},
         Answer(m, answer, v), UNCHANGED <<row, invoices>>,
         answer = "ok" /\ m[1] \notin RefundCall => IsFor(v, KeyFor(m), BodyOf[m[1]])
  PROVE  AnswerInv'
<1>1. /\ task'[m].at = "ended" /\ \A o \in Message : o # m => task'[o] = task[o]
      /\ task'[m].answer = answer /\ task'[m].value = v
  BY AnswerIs, AnswerAnswer
<1>2. KeyFor(m)' = KeyFor(m)
  BY DEF KeyFor
<1>3. Honest(m)'
  BY <1>1, <1>2 DEF Honest, Working, IsFor, KeyFor
<1> QED BY <1>1, <1>3, SameRowsAnswer

(* A row is written by its new or old owner, who sent the body it is for.  *)
LEMMA WriteAnswer ==
  ASSUME AnswerInv, Shapes, NEW m \in Message, NEW r,
         row' = [row EXCEPT ![KeyFor(m)] = r], r.owner = m, r.st # "NONE",
         r.body = BodyOf[m[1]], row[KeyFor(m)].st # "NONE" => r.body = row[KeyFor(m)].body,
         r.st = "COMPLETED" => r.value = m /\ m \in invoices,
         UNCHANGED invoices,
         \A o \in Message : o # m => task'[o] = task[o], task'[m].at \in {"create", "ended"},
         task'[m].answer = "ok" => (task'[m].value = m /\ m \in invoices)
                                    \/ (task'[m].value = task[m].value /\ task[m].answer = "ok")
  PROVE  AnswerInv'
<1> DEFINE k == KeyFor(m)
<1>1. k \in Key /\ row'[k] = r /\ \A j \in Key : j # k => row'[j] = row[j]
  BY KeyForIsKey DEF Shapes
<1>2. \A v, j, b : IsFor(v, j, b)' <=> IsFor(v, j, b)
  BY DEF IsFor, KeyFor
<1>3. \A o \in Message : KeyFor(o)' = KeyFor(o)
  BY DEF KeyFor
<1>4. m \in invoices => IsFor(m, KeyFor(m), BodyOf[m[1]])
  BY DEF IsFor
<1>5. ASSUME NEW o \in Message, o # m PROVE Honest(o)'
  <2>1. Honest(o) /\ task'[o] = task[o] /\ KeyFor(o) \in Key
    BY <1>5, KeyForIsKey DEF AnswerInv
  <2>2. (task'[o].answer = "ok" /\ o[1] \notin RefundCall) => IsFor(task[o].value, KeyFor(o), BodyOf[o[1]])'
    BY <2>1, <1>3 DEF Honest, IsFor, KeyFor
  <2>3. CASE KeyFor(o) = k
    BY <2>1, <2>2, <2>3, <1>1, <1>3, <1>5 DEF Honest, Working, SameBody
  <2>4. CASE KeyFor(o) # k
    BY <2>1, <2>2, <2>4, <1>1, <1>3 DEF Honest, Working, SameBody
  <2> QED BY <2>3, <2>4
<1>6. Honest(m)'
  <2>1. task'[m].answer = "ok" /\ m[1] \notin RefundCall => IsFor(task[m].value, KeyFor(m), BodyOf[m[1]])'
    <3>1. CASE task'[m].value = m /\ m \in invoices
      BY <3>1 DEF IsFor, KeyFor
    <3>2. CASE task'[m].value = task[m].value /\ task[m].answer = "ok"
      BY <3>2 DEF AnswerInv, Honest, IsFor, KeyFor
    <3> QED BY <3>1, <3>2
  <2> QED BY <2>1, <1>1, <1>3 DEF Honest, Working, SameBody
<1>7. ASSUME NEW j \in Key PROVE Recorded(j)'
  <2>1. CASE j = k
    BY <2>1, <1>1, <1>4 DEF Recorded, IsFor, KeyFor
  <2>2. CASE j # k
    BY <2>2, <1>1 DEF AnswerInv, Recorded, IsFor, KeyFor
  <2> QED BY <2>1, <2>2
<1> QED BY <1>5, <1>6, <1>7 DEF AnswerInv

LEMMA ClaimAnswer ==
  ASSUME AnswerInv, KeyInv, NEW m \in Message, Claim(m)
  PROVE  AnswerInv'
<1>0. UNCHANGED invoices /\ Shapes
  BY DEF Claim, KeyInv
<1>1. CASE row[KeyFor(m)].st = "NONE" /\ At(m, "create")
  <2> DEFINE r == [NoRow EXCEPT !.st = "IN_PROGRESS", !.body = BodyOf[m[1]], !.owner = m,
                                !.lease = now + Lease, !.expires = now + KeyTtl]
  <2>1. row' = [row EXCEPT ![KeyFor(m)] = r]
    BY <1>1 DEF Claim, At, KeyInv, Shapes
  <2>2. r.owner = m /\ r.st = "IN_PROGRESS" /\ r.body = BodyOf[m[1]]
    BY DEF NoRow
  <2>3. /\ task'[m].at = "create" /\ \A o \in Message : o # m => task'[o] = task[o]
        /\ task'[m].answer = task[m].answer /\ task'[m].value = task[m].value
    BY <1>0, <1>1, AtIs, AtAnswer, Words
  <2> HIDE DEF r
  <2> QED BY <1>0, <1>1, <2>1, <2>2, <2>3, WriteAnswer
<1>2. CASE At(m, "look") /\ UNCHANGED row
  BY <1>0, <1>2, Words, MoveAnswer
<1> QED BY <1>1, <1>2 DEF Claim

LEMMA ReclaimAnswer ==
  ASSUME AnswerInv, KeyInv, NEW m \in Message, Reclaim(m)
  PROVE  AnswerInv'
<1> DEFINE k == KeyFor(m)
<1>0. /\ UNCHANGED invoices /\ Shapes /\ k \in Key /\ row[k] \in Row
      /\ row[k].st # "NONE" /\ row[k].body = BodyOf[m[1]]
  BY KeyForIsKey DEF Reclaim, KeyInv, Shapes, AnswerInv, Honest, SameBody
<1>1. CASE At(m, "create")
  <2> DEFINE r == [row[k] EXCEPT !.owner = m, !.lease = now + Lease, !.st = "IN_PROGRESS"]
  <2>1. task'[m].at = "create"
    BY <1>0, <1>1, AtIs, Words
  <2>2. ~Answer(m, "conflict", NoOne)
    BY <1>0, <2>1, AnswerIs, Words
  <2>3. row' = [row EXCEPT ![k].owner = m, ![k].lease = now + Lease, ![k].st = "IN_PROGRESS"]
    BY <2>2 DEF Reclaim
  <2>4. row' = [row EXCEPT ![k] = r]
    BY <1>0, <2>3 DEF Shapes, Row
  <2>5. r.owner = m /\ r.st = "IN_PROGRESS" /\ r.body = row[k].body
    BY <1>0 DEF Row
  <2>6. /\ \A o \in Message : o # m => task'[o] = task[o]
        /\ task'[m].answer = task[m].answer /\ task'[m].value = task[m].value
    BY <1>0, <1>1, AtIs, AtAnswer, Words
  <2> HIDE DEF r
  <2> QED BY <1>0, <2>1, <2>4, <2>5, <2>6, WriteAnswer
<1>2. CASE Answer(m, "conflict", NoOne) /\ UNCHANGED row
  BY <1>0, <1>2, Words, EndAnswer
<1> QED BY <1>1, <1>2 DEF Reclaim

LEMMA CompleteAnswer ==
  ASSUME AnswerInv, KeyInv, NEW m \in Message, Complete(m)
  PROVE  AnswerInv'
<1> DEFINE k == KeyFor(m)
<1>0. /\ UNCHANGED invoices /\ Shapes /\ k \in Key /\ row[k] \in Row /\ m \in invoices
      /\ Working(m) /\ Answer(m, "ok", m)
  BY KeyForIsKey DEF Complete, KeyInv, Shapes, AnswerInv, Honest, Working
<1>1. CASE ~Mine(m)
  <2>1. UNCHANGED row /\ IsFor(m, KeyFor(m), BodyOf[m[1]])
    BY <1>0, <1>1 DEF Complete, IsFor
  <2> QED BY <1>0, <2>1, Words, EndAnswer
<1>2. CASE Mine(m)
  <2> DEFINE r == [row[k] EXCEPT !.st = "COMPLETED", !.value = m, !.lease = Null]
  <2>1. row' = [row EXCEPT ![k].st = "COMPLETED", ![k].value = m, ![k].lease = Null]
    BY <1>2 DEF Complete
  <2>2. row' = [row EXCEPT ![k] = r]
    BY <1>0, <2>1 DEF Shapes, Row
  <2>3. /\ r.owner = m /\ r.st = "COMPLETED" /\ r.value = m /\ r.body = row[k].body
        /\ row[k].body = BodyOf[m[1]]
    BY <1>0, <1>2 DEF Row, Mine, AnswerInv, Honest, SameBody
  <2>4. /\ task'[m].at = "ended" /\ \A o \in Message : o # m => task'[o] = task[o]
        /\ task'[m].answer = "ok" /\ task'[m].value = m
    BY <1>0, AnswerIs, AnswerAnswer, Words
  <2> HIDE DEF r
  <2> QED BY <1>0, <2>2, <2>3, <2>4, WriteAnswer
<1> QED BY <1>1, <1>2

LEMMA FailAnswer ==
  ASSUME AnswerInv, KeyInv, NEW m \in Message, FailKey(m)
  PROVE  AnswerInv'
<1> DEFINE k == KeyFor(m)
<1>0. /\ UNCHANGED invoices /\ Shapes /\ k \in Key /\ row[k] \in Row
      /\ Working(m) /\ Answer(m, "error", NoOne)
  BY KeyForIsKey DEF FailKey, KeyInv, Shapes, Working
<1>1. CASE ~Mine(m)
  BY <1>0, <1>1, Words, EndAnswer DEF FailKey
<1>2. CASE Mine(m)
  <2> DEFINE r == [row[k] EXCEPT !.st = "FAILED", !.lease = now]
  <2>1. row' = [row EXCEPT ![k].st = "FAILED", ![k].lease = now]
    BY <1>2 DEF FailKey
  <2>2. row' = [row EXCEPT ![k] = r]
    BY <1>0, <2>1 DEF Shapes, Row
  <2>3. r.owner = m /\ r.st = "FAILED" /\ r.body = row[k].body /\ row[k].body = BodyOf[m[1]]
    BY <1>0, <1>2 DEF Row, Mine, AnswerInv, Honest, SameBody
  <2>4. /\ task'[m].at = "ended" /\ \A o \in Message : o # m => task'[o] = task[o]
        /\ task'[m].answer = "error"
    BY <1>0, AnswerIs, AnswerAnswer, Words
  <2> HIDE DEF r
  <2> QED BY <1>0, <2>2, <2>3, <2>4, WriteAnswer
<1> QED BY <1>1, <1>2

LEMMA LookAnswer ==
  ASSUME AnswerInv, KeyInv, NEW m \in Message, Look(m)
  PROVE  AnswerInv'
<1>0. UNCHANGED <<row, invoices>> /\ Shapes /\ KeyFor(m) \in Key
  BY KeyForIsKey DEF Look, KeyInv
<1>1. CASE Answer(m, "conflict", NoOne)
  BY <1>0, <1>1, Words, EndAnswer
<1>2. CASE row[KeyFor(m)].st = "COMPLETED" /\ SameBody(m) /\ Answer(m, "ok", row[KeyFor(m)].value)
  <2>1. IsFor(row[KeyFor(m)].value, KeyFor(m), BodyOf[m[1]])
    BY <1>0, <1>2 DEF AnswerInv, Recorded, SameBody
  <2>2. row[KeyFor(m)].value \in Message \cup {NoOne}
    BY <1>0 DEF Shapes, Row
  <2> QED BY <1>0, <1>2, <2>1, <2>2, Words, EndAnswer
<1>3. CASE row[KeyFor(m)].st \in {"IN_PROGRESS", "FAILED"} /\ SameBody(m) /\ At(m, "reclaim")
  BY <1>0, <1>3, Words, MoveAnswer
<1> QED BY <1>1, <1>2, <1>3 DEF Look

LEMMA HandleAnswer ==
  ASSUME AnswerInv, KeyInv, RefundInv, NEW m \in Message, Handle(m) \/ Throw(m) \/ Crash(m)
  PROVE  AnswerInv'
<1>0. Shapes
  BY DEF KeyInv
<1>1. CASE Claim(m) \/ Look(m) \/ Reclaim(m) \/ Complete(m) \/ FailKey(m)
  BY <1>1, ClaimAnswer, LookAnswer, ReclaimAnswer, CompleteAnswer, FailAnswer
<1>2. CASE Create(m)
  <2>1. At(m, "complete") /\ Working(m) /\ UNCHANGED row /\ m \in invoices'
        /\ invoices \subseteq invoices'
    BY <1>2 DEF Create, Working
  <2> QED BY <1>0, <2>1, Words, MoveAnswer
<1>3. CASE Throw(m)
  <2>1. At(m, "fail") /\ Working(m) /\ UNCHANGED <<row, invoices>>
    BY <1>3 DEF Throw, Working
  <2> QED BY <1>0, <2>1, Words, MoveAnswer
<1>4. CASE Authenticate(m) \/ Crash(m)
  <2>1. UNCHANGED <<row, invoices>> /\ \E step \in {"check", "claim", "ended"} : At(m, step)
    BY <1>4 DEF Authenticate, Crash, Outside
  <2> QED BY <1>0, <2>1, Words, MoveAnswer
<1>5. CASE Refuse(m)
  BY <1>0, <1>5, Words, EndAnswer DEF Refuse
<1>6. CASE CheckRefund(m) \/ InsertRefund(m)
           \/ \E status \in {"REQUESTED", "BLOCKED_POLICY_UNDEFINED"} : CommitRefund(m, status)
  <2>1. UNCHANGED <<row, invoices>> /\ m[1] \in RefundCall
    BY <1>6 DEF CheckRefund, InsertRefund, CommitRefund, Outside, RefundInv, RefundShapes, Refunding
  <2>2. \/ Answer(m, "conflict", NoOne) \/ Answer(m, "error", NoOne) \/ Answer(m, "ok", m)
        \/ At(m, "insert") \/ At(m, "commit")
    BY <1>6 DEF CheckRefund, InsertRefund, CommitRefund
  <2> QED BY <1>0, <2>1, <2>2, Words, MoveAnswer, EndAnswer
<1> QED BY <1>1, <1>2, <1>3, <1>4, <1>5, <1>6 DEF Handle

LEMMA PurgeAnswer ==
  ASSUME AnswerInv, KeyInv, PurgeExpired,
         \A k \in Key : row[k].st # "NONE" /\ row'[k].st = "NONE" =>
           \A m \in Message : KeyFor(m) = k => task[m].at # "reclaim"
  PROVE  AnswerInv'
<1>1. /\ \A k \in Key : row'[k] = IF Purges(k) THEN NoRow ELSE row[k]
      /\ UNCHANGED <<task, invoices>>
  BY DEF PurgeExpired
<1>2. \A k \in Key : Purges(k) => row[k].st # "NONE" /\ row'[k].st = "NONE" /\ row'[k].owner = NoOne
  BY <1>1, NoRowIsRow DEF Purges
<1>3. ASSUME NEW o \in Message PROVE Honest(o)'
  <2>1. KeyFor(o) \in Key /\ o # NoOne /\ Honest(o) /\ KeyFor(o)' = KeyFor(o)
    BY KeyForIsKey DEF AnswerInv, KeyFor
  <2>2. IsFor(task[o].value, KeyFor(o), BodyOf[o[1]])
          => IsFor(task[o].value, KeyFor(o), BodyOf[o[1]])'
    BY <1>1 DEF IsFor, KeyFor
  <2>3. CASE Purges(KeyFor(o))
    BY <1>1, <1>2, <2>1, <2>2, <2>3 DEF Honest, Working, SameBody
  <2>4. CASE ~Purges(KeyFor(o))
    BY <1>1, <2>1, <2>2, <2>4 DEF Honest, Working, SameBody
  <2> QED BY <2>3, <2>4
<1>4. ASSUME NEW k \in Key PROVE Recorded(k)'
  BY <1>1, <1>2 DEF AnswerInv, Recorded, IsFor, KeyFor
<1> QED BY <1>3, <1>4 DEF AnswerInv

LEMMA NextAnswer ==
  ASSUME AnswerInv, KeyInv, RefundInv, [Next]_vars,
         [\A k \in Key : row[k].st # "NONE" /\ row'[k].st = "NONE" =>
            \A m \in Message : KeyFor(m) = k => task[m].at # "reclaim"]_vars
  PROVE  AnswerInv'
<1>1. CASE \E m \in Message : Handle(m) \/ Throw(m) \/ Crash(m)
  BY <1>1, HandleAnswer
<1>2. CASE PurgeExpired
  <2>1. row' = row \/ \A k \in Key : row[k].st # "NONE" /\ row'[k].st = "NONE" =>
                        \A m \in Message : KeyFor(m) = k => task[m].at # "reclaim"
    BY DEF vars
  <2> QED BY <1>2, <2>1, PurgeAnswer
<1>3. CASE (\E c \in Call : Start(c) \/ TryAgain(c)) \/ Tick \/ UNCHANGED vars
  <2>1. UNCHANGED <<task, row, invoices>>
    BY <1>3 DEF Start, TryAgain, Send, server, Tick, vars
  <2> QED BY <2>1 DEF AnswerInv, Honest, Recorded, IsFor, Working, SameBody, KeyFor
<1> QED BY <1>1, <1>2, <1>3 DEF Next

(* An answer under a key is for the body that was sent, whatever retries,  *)
(* lapses and fails, as long as no key is purged between a handler's look  *)
(* at it and its takeover (runIdempotent).                                 *)
THEOREM KeysAreKeptHolds == Spec /\ PromptTakeovers => []KeysAreKept
<1> DEFINE All == KeyInv /\ RefundInv /\ TypeInv /\ AnswerInv
           Prompt == [\A k \in Key : row[k].st # "NONE" /\ row'[k].st = "NONE" =>
                        \A m \in Message : KeyFor(m) = k => task[m].at # "reclaim"]_vars
<1>1. Init => All
  BY KeyInit, RefundInit, TypeInit, AnswerInit
<1>2. All /\ [Next]_vars /\ Prompt => All'
  BY NextKeyInv, NextRefundInv, NextTypes, NextAnswer
<1>3. All => KeysAreKept
  BY TypesAreOK DEF KeysAreKept, AnswerIsForBody, AnswerInv, Honest, IsFor
<1> HIDE DEF All
<1> QED BY <1>1, <1>2, <1>3, PTL DEF Spec, PromptTakeovers
=============================================================================
