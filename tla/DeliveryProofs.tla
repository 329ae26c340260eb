--------------------------- MODULE DeliveryProofs ---------------------------
(***************************************************************************)
(* Theorems about Delivery, for any events, endpoints, cycles, retries and *)
(* faults.                                                                 *)
(***************************************************************************)
EXTENDS Delivery, TLAPS

Rows == [st : {"NONE", "PENDING", "PROCESSING", "RETRY", "SENT", "DEAD"},
         attempts : Nat, stale : BOOLEAN]
Attempts == [st : {"NONE", "PENDING", "SENDING", "RETRY", "SENT", "DEAD"},
             attempts : 0..MaxAttempts]
Tasks == [at : {"idle", "next", "schedule", "sent", "failed", "post", "answer", "lost"},
          events : SUBSET Event, todo : SUBSET Pair, pairs : SUBSET (Event \cup Pair),
          answer : {"none", "accepted", "refused", "busy"}]

(***************************************************************************)
(* The inductive invariant.  The types need that a delivery that may be    *)
(* claimed has an attempt left; the promise about sent events needs what   *)
(* the cycles that are still dispatching have inserted so far.             *)
(***************************************************************************)

(* A delivery that can be claimed again has an attempt left.               *)
Left(d) == delivery[d].st \in {"NONE", "PENDING", "RETRY"} => delivery[d].attempts < MaxAttempts

(* A cycle in the middle of an event or of a delivery knows which.         *)
Sound(t) ==
  /\ t.at \in {"schedule", "sent", "failed"} => \E e \in t.events : t.pairs = {e}
  /\ t.at = "lost" => t.answer = "busy"
  /\ t.at \in {"answer", "lost"} =>
       t.answer \in {"accepted", "refused", "busy"} /\ \E d \in t.todo : t.pairs = {d}

(* The deliveries a dispatching cycle has yet to insert are all that is    *)
(* missing of its event.                                                   *)
Scheduled(t) ==
  \A e \in Named :
    t.at \in {"schedule", "sent"} /\ t.pairs = {e} =>
      \A n \in Subscribed[e] \ Late :
        delivery[<<e, n>>].st # "NONE" \/ (t.at = "schedule" /\ <<e, n>> \in t.todo)

Inv ==
  /\ TypeOK
  /\ event \in [Event -> Rows] /\ delivery \in [Pair -> Attempts] /\ task \in [Worker -> Tasks]
  /\ Endpoint \ Late \subseteq active
  /\ \A d \in Pair : Left(d)
  /\ \A w \in Worker : Sound(task[w]) /\ Scheduled(task[w])
  /\ HeldOnce
  /\ SentIsScheduled

(* What the types of the tasks say of the fields of a task.                *)
LEMMA TaskFields ==
  ASSUME NEW t \in Tasks
  PROVE  /\ t.at \in {"idle", "next", "schedule", "sent", "failed", "post", "answer", "lost"}
         /\ t.events \subseteq Event /\ t.todo \subseteq Pair /\ t.pairs \subseteq Event \cup Pair
         /\ t.answer \in {"none", "accepted", "refused", "busy"}
BY DEF Tasks

LEMMA PairOf ==
  ASSUME NEW e \in Named, NEW n \in Subscribed[e]
  PROVE  e \in Event /\ n \in Endpoint /\ <<e, n>> \in Pair
BY DeliveryAssumption DEF DeliveryAssumption, Pair

(* The step of one cycle keeps the invariant when what the cycle goes on   *)
(* with is sound, it touches no delivery another one holds, and it marks   *)
(* nothing that is not scheduled.                                          *)
LEMMA CycleStep ==
  ASSUME Inv, NEW w \in Worker, NEW t \in Tasks, Set(w, t), Sound(t), Scheduled(t)',
         event' \in [Event -> Rows], delivery' \in [Pair -> Attempts],
         active' = active, told' \subseteq Event, faults' \in 0..Faults,
         \A d \in Pair : Left(d)',
         \A d \in Pair : delivery'[d].st = "NONE" => delivery[d].st = "NONE",
         \A d \in Pair, v \in Worker \ {w} : Holds(v, d) => delivery'[d] = delivery[d],
         \A d \in Pair : t.at \in {"post", "answer", "lost"} /\ d \in t.todo =>
           /\ \/ delivery'[d].st = "SENDING"
              \/ t.at = "lost" /\ t.pairs = {d} /\ delivery'[d].st \in {"SENT", "DEAD"}
           /\ \A v \in Worker \ {w} : ~Holds(v, d),
         \A e \in Named : event'[e].st = "SENT" \/ e \in told' =>
           \/ event[e].st = "SENT" \/ e \in told
           \/ \A n \in Subscribed[e] \ Late : delivery[<<e, n>>].st # "NONE"
  PROVE  Inv'
<1>1. task' \in [Worker -> Tasks] /\ task'[w] = t /\ \A v \in Worker \ {w} : task'[v] = task[v]
  BY DEF Inv, Set
<1>2. TypeOK'
  <2>1. /\ \A v \in Worker : /\ task'[v].at \in {"idle", "next", "schedule", "sent", "failed", "post", "answer", "lost"}
                             /\ task'[v].events \subseteq Event /\ task'[v].todo \subseteq Pair
                             /\ task'[v].answer \in {"none", "accepted", "refused", "busy"}
    BY <1>1, TaskFields
  <2> QED BY <2>1 DEF Inv, TypeOK, Rows, Attempts
<1>3. \A v \in Worker : Sound(task[v])'
  BY <1>1 DEF Inv, Sound
<1>4. \A v \in Worker : Scheduled(task[v])'
  <2> SUFFICES ASSUME NEW v \in Worker, v # w PROVE Scheduled(task[v])'
    BY <1>1 DEF Scheduled
  <2> QED BY <1>1, PairOf DEF Inv, Scheduled
<1>5. HeldOnce'
  <2>1. \A d \in Pair, v \in Worker \ {w} : Holds(v, d)' <=> Holds(v, d)
    BY <1>1 DEF Holds
  <2>2. \A d \in Pair : Holds(w, d)' <=> t.at \in {"post", "answer", "lost"} /\ d \in t.todo
    BY <1>1 DEF Holds
  <2>3. \A d \in Pair : Unsure(w, d)' <=> (t.at = "lost" /\ t.pairs = {d})
    BY <1>1, Zenon DEF Unsure
  <2>4. \A d \in Pair, v \in Worker \ {w} : Unsure(v, d)' <=> Unsure(v, d)
    BY <1>1 DEF Unsure
  <2> SUFFICES ASSUME NEW d \in Pair, NEW v \in Worker, Holds(v, d)'
               PROVE  /\ \/ delivery'[d].st = "SENDING"
                         \/ Unsure(v, d)' /\ delivery'[d].st \in {"SENT", "DEAD"}
                      /\ \A x \in Worker : Holds(x, d)' => v = x
    BY DEF HeldOnce
  <2>5. CASE v = w
    BY <2>1, <2>2, <2>3, <2>5
  <2>6. CASE v # w
    <3>1. Holds(v, d) /\ delivery'[d] = delivery[d]
      BY <2>1, <2>6
    <3>2. ~Holds(w, d)'
      BY <2>2, <2>6, <3>1
    <3> QED BY <2>1, <2>4, <2>6, <3>1, <3>2 DEF Inv, HeldOnce
  <2> QED BY <2>5, <2>6
<1>6. SentIsScheduled'
  BY PairOf DEF Inv, SentIsScheduled
<1> QED BY <1>1, <1>2, <1>3, <1>4, <1>5, <1>6 DEF Inv

(* A step that leaves the deliveries alone and goes on with none held.     *)
LEMMA QuietStep ==
  ASSUME Inv, NEW w \in Worker, NEW t \in Tasks, Set(w, t), Sound(t), Scheduled(t),
         event' \in [Event -> Rows], delivery' = delivery,
         active' = active, told' \subseteq Event, faults' \in 0..Faults,
         t.at \in {"post", "answer"} => task[w].at = "post" /\ t.todo \subseteq task[w].todo,
         t.at # "lost",
         \A e \in Named : event'[e].st = "SENT" \/ e \in told' =>
           \/ event[e].st = "SENT" \/ e \in told
           \/ \A n \in Subscribed[e] \ Late : delivery[<<e, n>>].st # "NONE"
  PROVE  Inv'
<1>1. Scheduled(t)' /\ \A d \in Pair : Left(d)'
  BY DEF Inv, Scheduled, Left
<1>2. \A d \in Pair : t.at \in {"post", "answer", "lost"} /\ d \in t.todo =>
        delivery'[d].st = "SENDING" /\ \A v \in Worker \ {w} : ~Holds(v, d)
  BY DEF Inv, HeldOnce, Holds, Unsure
<1> QED BY <1>1, <1>2, CycleStep DEF Inv

(* An idle cycle, and one about to take an event, have nothing to answer   *)
(* for.                                                                    *)
LEMMA FreeIsSound ==
  ASSUME NEW left \in SUBSET Event
  PROVE  /\ Free \in Tasks /\ Sound(Free) /\ Scheduled(Free) /\ Free.at = "idle"
         /\ [Free EXCEPT !.at = "next", !.events = left] \in Tasks
         /\ Sound([Free EXCEPT !.at = "next", !.events = left])
         /\ Scheduled([Free EXCEPT !.at = "next", !.events = left])
         /\ [Free EXCEPT !.at = "next", !.events = left].at = "next"
BY DEF Free, Tasks, Sound, Scheduled

(* The rest of a batch is as harmless.                                     *)
LEMMA NextInBatchIs ==
  ASSUME Inv, NEW w \in Worker, NextInBatch(w)
  PROVE  \E t \in Tasks : Set(w, t) /\ Sound(t) /\ Scheduled(t) /\ t.at \in {"idle", "next"}
<1>1. task[w].events \ {Current(w)} \in SUBSET Event
  BY DEF Inv, Tasks
<1> QED BY <1>1, FreeIsSound DEF NextInBatch

-----------------------------------------------------------------------------
(* Dispatching. *)

LEMMA ClaimBatchStep ==
  ASSUME Inv, NEW w \in Worker, ClaimBatch(w)
  PROVE  Inv'
<1>1. PICK due \in SUBSET Event :
        /\ event' = [e \in Event |-> IF e \in due
                       THEN [event[e] EXCEPT !.st = "PROCESSING", !.stale = FALSE] ELSE event[e]]
        /\ Set(w, [Free EXCEPT !.at = "next", !.events = due])
        /\ UNCHANGED <<delivery, active, told, faults>>
  BY DEF ClaimBatch
<1>2. event' \in [Event -> Rows] /\ \A e \in Event : event'[e].st = "SENT" => event[e].st = "SENT"
  BY <1>1 DEF Inv, Rows
<1>3. Named \subseteq Event
  BY DeliveryAssumption DEF DeliveryAssumption
<1> QED BY <1>1, <1>2, <1>3, FreeIsSound, QuietStep DEF Inv, TypeOK

LEMMA TakeEventStep ==
  ASSUME Inv, NEW w \in Worker, NEW e \in Event, TakeEvent(w, e)
  PROVE  Inv'
<1> DEFINE t == [task[w] EXCEPT !.at = "schedule", !.todo = {e} \X EndpointsFor(e), !.pairs = {e}]
<1>1. task[w] \in Tasks /\ e \in task[w].events
  BY DEF Inv, TakeEvent
<1>2. {e} \X EndpointsFor(e) \subseteq Pair
  BY DEF EndpointsFor, Inv, TypeOK, Pair
<1>3. /\ t \in Tasks /\ t.at = "schedule" /\ t.pairs = {e} /\ t.todo = {e} \X EndpointsFor(e)
      /\ t.events = task[w].events
  BY <1>1, <1>2 DEF Tasks
<1>4. Sound(t)
  BY <1>1, <1>3 DEF Sound
<1>5. Scheduled(t)
  <2> SUFFICES ASSUME NEW f \in Named, t.pairs = {f}, NEW n \in Subscribed[f] \ Late
               PROVE  <<f, n>> \in t.todo
    BY <1>3 DEF Scheduled
  <2>1. f = e /\ n \in active
    BY <1>3, PairOf DEF Inv
  <2>2. n \in EndpointsFor(e)
    BY <2>1 DEF EndpointsFor
  <2> QED BY <1>3, <2>1, <2>2
<1>6. Set(w, t) /\ UNCHANGED <<event, delivery, active, told, faults>>
  BY DEF TakeEvent
<1> HIDE DEF t
<1> QED BY <1>3, <1>4, <1>5, <1>6, QuietStep DEF Inv, TypeOK

LEMMA ScheduleOneStep ==
  ASSUME Inv, NEW w \in Worker, NEW d \in Pair, ScheduleOne(w, d)
  PROVE  Inv'
<1>0. PICK t : t = [task[w] EXCEPT !.todo = @ \ {d}]
  OBVIOUS
<1>1. task[w] \in Tasks /\ task[w].at = "schedule"
  BY DEF Inv, ScheduleOne
<1>2. /\ t \in Tasks /\ t.at = "schedule" /\ t.pairs = task[w].pairs
      /\ t.todo = task[w].todo \ {d} /\ t.events = task[w].events
  BY <1>0, <1>1 DEF Tasks
<1>3. Sound(t)
  BY <1>1, <1>2 DEF Inv, Sound
<1>4. Set(w, t) /\ UNCHANGED <<event, active, told, faults>>
      /\ delivery' = [delivery EXCEPT ![d] = RowOnce(d)]
  BY <1>0 DEF ScheduleOne
<1>5. /\ delivery' \in [Pair -> Attempts]
      /\ \A x \in Pair : delivery'[x] = delivery[x] \/ (x = d /\ delivery[x].st = "NONE")
      /\ delivery'[d].st # "NONE" /\ Left(d)'
  <2>1. RowOnce(d) \in Attempts /\ RowOnce(d).st # "NONE"
        /\ (RowOnce(d).st \in {"PENDING", "RETRY"} => RowOnce(d).attempts < MaxAttempts)
        /\ (RowOnce(d) = delivery[d] \/ delivery[d].st = "NONE")
    <3>1. [st |-> "PENDING", attempts |-> 0] \in Attempts /\ 0 < MaxAttempts
      BY DeliveryAssumption DEF DeliveryAssumption, Attempts
    <3> QED BY <3>1 DEF RowOnce, Inv, Left
  <2> QED BY <1>4, <2>1 DEF Inv, Left
<1>6. Scheduled(t)'
  <2> SUFFICES ASSUME NEW f \in Named, t.pairs = {f}, NEW n \in Subscribed[f] \ Late
               PROVE  delivery'[<<f, n>>].st # "NONE" \/ <<f, n>> \in t.todo
    BY <1>2, <1>4 DEF Scheduled
  <2>1. delivery[<<f, n>>].st # "NONE" \/ <<f, n>> \in task[w].todo
    BY <1>1, <1>2 DEF Inv, Scheduled
  <2> QED BY <1>2, <1>5, <2>1, PairOf
<1>7. \A x \in Pair, v \in Worker \ {w} : Holds(v, x) => delivery'[x] = delivery[x]
  BY <1>5 DEF Inv, HeldOnce
<1>8. \A x \in Pair : Left(x)'
  BY <1>5 DEF Inv, Left
<1> QED BY <1>2, <1>3, <1>4, <1>5, <1>6, <1>7, <1>8, CycleStep DEF Inv, TypeOK

LEMMA NotifyStep ==
  ASSUME Inv, NEW w \in Worker, NEW reached \in BOOLEAN, Notify(w, reached)
  PROVE  Inv'
<1> DEFINE t == [task[w] EXCEPT !.at = "sent"]
<1>1. task[w] \in Tasks /\ task[w].at = "schedule" /\ task[w].todo = {}
  BY DEF Inv, Notify
<1>2. PICK e \in task[w].events : task[w].pairs = {e} /\ Current(w) = e
  BY <1>1 DEF Inv, Sound, Current
<1>3. t \in Tasks /\ t.at = "sent" /\ t.pairs = {e} /\ t.events = task[w].events
  BY <1>1, <1>2 DEF Tasks
<1>4. Sound(t)
  BY <1>3 DEF Sound
<1>5. Scheduled(t) /\ (e \in Named => \A n \in Subscribed[e] \ Late : delivery[<<e, n>>].st # "NONE")
  BY <1>1, <1>2, <1>3 DEF Inv, Scheduled
<1>6. /\ Set(w, t) /\ UNCHANGED <<event, delivery, active, faults>>
      /\ told' = told \/ told' = told \cup {e}
  BY <1>2 DEF Notify, GoesOn
<1>7. e \in Event
  BY <1>1 DEF Tasks
<1> HIDE DEF t
<1> QED BY <1>3, <1>4, <1>5, <1>6, <1>7, QuietStep DEF Inv, TypeOK

LEMMA MarkSentStep ==
  ASSUME Inv, NEW w \in Worker, MarkSent(w)
  PROVE  Inv'
<1>1. task[w] \in Tasks /\ task[w].at = "sent"
  BY DEF Inv, MarkSent
<1>2. PICK e \in task[w].events : task[w].pairs = {e} /\ Current(w) = e
  BY <1>1 DEF Inv, Sound, Current
<1>3. e \in Named => \A n \in Subscribed[e] \ Late : delivery[<<e, n>>].st # "NONE"
  BY <1>1, <1>2 DEF Inv, Scheduled
<1>4. PICK t \in Tasks : Set(w, t) /\ Sound(t) /\ Scheduled(t) /\ t.at \in {"idle", "next"}
  BY NextInBatchIs DEF MarkSent
<1>5. /\ event' = event \/ event' = [event EXCEPT ![e].st = "SENT", ![e].stale = FALSE]
      /\ UNCHANGED <<delivery, active, told, faults>>
  BY <1>2 DEF MarkSent
<1>6. e \in Event
  BY <1>1 DEF Tasks
<1>7. event' \in [Event -> Rows] /\ \A f \in Event \ {e} : event'[f] = event[f]
  BY <1>5, <1>6 DEF Inv, Rows
<1>8. \A f \in Named : f \in Event
  BY DeliveryAssumption DEF DeliveryAssumption
<1> QED BY <1>3, <1>4, <1>5, <1>7, <1>8, QuietStep DEF Inv, TypeOK

LEMMA MarkFailedStep ==
  ASSUME Inv, NEW w \in Worker, MarkFailed(w)
  PROVE  Inv'
<1>1. task[w] \in Tasks /\ task[w].at = "failed"
  BY DEF Inv, MarkFailed
<1>2. PICK e \in task[w].events : task[w].pairs = {e} /\ Current(w) = e
  BY <1>1 DEF Inv, Sound, Current
<1>3. PICK t \in Tasks : Set(w, t) /\ Sound(t) /\ Scheduled(t) /\ t.at \in {"idle", "next"}
  BY NextInBatchIs DEF MarkFailed
<1>4. PICK st \in {"DEAD", "RETRY"} :
        /\ event' = [event EXCEPT ![e] = [st |-> st, attempts |-> event[e].attempts + 1, stale |-> FALSE]]
        /\ UNCHANGED <<delivery, active, told, faults>>
  BY <1>2 DEF MarkFailed
<1>5. e \in Event /\ [st |-> st, attempts |-> event[e].attempts + 1, stale |-> FALSE] \in Rows
  BY <1>1 DEF Tasks, Inv, Rows
<1>6. event' \in [Event -> Rows] /\ \A f \in Event : event'[f].st = "SENT" => event[f].st = "SENT"
  BY <1>4, <1>5 DEF Inv
<1>7. \A f \in Named : f \in Event
  BY DeliveryAssumption DEF DeliveryAssumption
<1> QED BY <1>3, <1>4, <1>6, <1>7, QuietStep DEF Inv, TypeOK

(* A dispatch that fails, and a cycle that stops, mark nothing.            *)
LEMMA FaultStep ==
  ASSUME Inv, NEW w \in Worker, DispatchFails(w) \/ Crash(w)
  PROVE  Inv'
<1>1. PICK t : /\ t = Free \/ (t = [task[w] EXCEPT !.at = "failed"] /\ task[w].at \in {"schedule", "sent"})
               /\ Set(w, t) /\ faults < Faults /\ faults' = faults + 1
               /\ UNCHANGED <<event, delivery, active, told>>
  BY DEF DispatchFails, Crash, KeepsEvent
<1>2. faults' \in 0..Faults
  BY <1>1, DeliveryAssumption DEF DeliveryAssumption, Inv, TypeOK
<1>3. CASE t = Free
  BY <1>1, <1>2, <1>3, FreeIsSound, QuietStep DEF Inv, TypeOK
<1>4. CASE t = [task[w] EXCEPT !.at = "failed"] /\ task[w].at \in {"schedule", "sent"}
  <2>1. task[w] \in Tasks
    BY DEF Inv
  <2>2. t \in Tasks /\ t.at = "failed" /\ t.pairs = task[w].pairs /\ t.events = task[w].events
    BY <1>4, <2>1 DEF Tasks
  <2>3. Sound(t) /\ Scheduled(t)
    BY <1>4, <2>2 DEF Inv, Sound, Scheduled
  <2> QED BY <1>1, <1>2, <2>2, <2>3, QuietStep DEF Inv, TypeOK
<1> QED BY <1>1, <1>3, <1>4

-----------------------------------------------------------------------------
(* Delivering. *)

LEMMA ClaimDeliveriesStep ==
  ASSUME Inv, NEW w \in Worker, ClaimDeliveries(w)
  PROVE  Inv'
<1>1. PICK due : due = {d \in Pair : DeliveryDue(d)}
  OBVIOUS
<1> DEFINE t == [Free EXCEPT !.at = "post", !.todo = due]
<1>2. t \in Tasks /\ t.at = "post" /\ t.todo = due /\ Sound(t) /\ Scheduled(t)'
  BY <1>1 DEF Free, Tasks, Sound, Scheduled
<1>3. /\ Set(w, t) /\ UNCHANGED <<event, active, told, faults>>
      /\ delivery' = [d \in Pair |-> IF d \in due
                        THEN [st |-> "SENDING", attempts |-> delivery[d].attempts + 1]
                        ELSE delivery[d]]
  BY <1>1 DEF ClaimDeliveries
<1>4. \A d \in due : /\ d \in Pair /\ delivery[d].st \in {"PENDING", "RETRY"}
                     /\ [st |-> "SENDING", attempts |-> delivery[d].attempts + 1] \in Attempts
  <2>1. \A d \in due : /\ d \in Pair /\ delivery[d].st \in {"PENDING", "RETRY"}
                       /\ delivery[d].attempts \in Nat /\ delivery[d].attempts < MaxAttempts
    BY <1>1 DEF DeliveryDue, Inv, Left, Attempts
  <2> QED BY <2>1, DeliveryAssumption DEF DeliveryAssumption, Attempts
<1>5. /\ delivery' \in [Pair -> Attempts]
      /\ \A d \in due : delivery'[d].st = "SENDING"
      /\ \A d \in Pair \ due : delivery'[d] = delivery[d]
  BY <1>3, <1>4 DEF Inv
<1>6. \A d \in due, v \in Worker : ~Holds(v, d)
  BY <1>4, Zenon DEF Inv, HeldOnce
<1>7. \A d \in Pair : Left(d)'
  BY <1>5 DEF Inv, Left
<1> HIDE DEF t
<1>8. \A d \in Pair : delivery'[d].st = "NONE" => delivery[d].st = "NONE"
  BY <1>5
<1>9. \A d \in Pair, v \in Worker \ {w} : Holds(v, d) => delivery'[d] = delivery[d]
  BY <1>5, <1>6
<1> QED BY <1>2, <1>3, <1>5, <1>6, <1>7, <1>8, <1>9, CycleStep DEF Inv, TypeOK

LEMMA PostStep ==
  ASSUME Inv, NEW w \in Worker, NEW d \in Pair, NEW answer \in {"accepted", "refused", "busy"},
         Post(w, d, answer)
  PROVE  Inv'
<1> DEFINE t == [task[w] EXCEPT !.at = "answer", !.pairs = {d}, !.answer = answer]
<1>1. task[w] \in Tasks /\ task[w].at = "post" /\ d \in task[w].todo
  BY DEF Inv, Post
<1>2. /\ t \in Tasks /\ t.at = "answer" /\ t.pairs = {d} /\ t.todo = task[w].todo
      /\ t.answer = answer
  BY <1>1 DEF Tasks
<1>3. Sound(t) /\ Scheduled(t)
  BY <1>1, <1>2 DEF Sound, Scheduled
<1>4. Set(w, t) /\ UNCHANGED <<event, delivery, active, told, faults>>
  BY DEF Post
<1> HIDE DEF t
<1> QED BY <1>1, <1>2, <1>3, <1>4, QuietStep DEF Inv, TypeOK

(* The answer is recorded on a delivery only this cycle holds; it goes     *)
(* back to RETRY only with an attempt left.                                *)
LEMMA RecordAnswerStep ==
  ASSUME Inv, NEW w \in Worker, RecordAnswer(w)
  PROVE  Inv'
<1>1. /\ task[w] \in Tasks /\ task[w].at \in {"answer", "lost"}
      /\ task[w].answer \in {"accepted", "refused", "busy"}
  BY DEF Inv, RecordAnswer, Sound
<1>2. PICK d \in task[w].todo : task[w].pairs = {d}
  BY <1>1 DEF Inv, Sound
<1>3. d = Current(w)
  BY <1>2 DEF Current
<1>4. PICK left : left = task[w].todo \ {d}
  OBVIOUS
<1>5. PICK t : t = IF left = {} THEN Free ELSE [Free EXCEPT !.at = "post", !.todo = left]
  OBVIOUS
<1>6. /\ Set(w, t) /\ UNCHANGED <<event, active, told, faults>>
      /\ delivery' = [delivery EXCEPT ![d].st = Outcome(d, task[w].answer)]
  BY <1>3, <1>4, <1>5 DEF RecordAnswer
<1>7. d \in Pair /\ left \subseteq task[w].todo /\ left \subseteq Pair /\ d \notin left
  BY <1>1, <1>4, TaskFields
<1>8. /\ t \in Tasks /\ Sound(t) /\ Scheduled(t)' /\ t.at \in {"idle", "post"}
      /\ t.at = "post" => t.todo = left
  BY <1>5, <1>7 DEF Free, Tasks, Sound, Scheduled
<1>9. /\ Outcome(d, task[w].answer) \in {"SENT", "DEAD", "RETRY"}
      /\ Outcome(d, task[w].answer) = "RETRY" => delivery[d].attempts < MaxAttempts
  <2>1. delivery[d].attempts \in Nat /\ MaxAttempts \in Nat
    BY <1>7, DeliveryAssumption DEF DeliveryAssumption, Inv, Attempts
  <2> QED BY <1>1, <2>1 DEF Outcome, Exhausted
<1>10. /\ delivery' \in [Pair -> Attempts]
       /\ delivery'[d].st \in {"SENT", "DEAD", "RETRY"}
       /\ delivery'[d].st = "RETRY" => delivery'[d].attempts < MaxAttempts
       /\ \A x \in Pair \ {d} : delivery'[x] = delivery[x]
  <2>1. PICK s \in {"SENT", "DEAD", "RETRY"} : s = Outcome(d, task[w].answer)
    BY <1>9
  <2>2. delivery[d] \in Attempts
    BY <1>7 DEF Inv
  <2>3. /\ [delivery[d] EXCEPT !.st = s] \in Attempts
        /\ [delivery[d] EXCEPT !.st = s].st = s
        /\ [delivery[d] EXCEPT !.st = s].attempts = delivery[d].attempts
    BY <2>2 DEF Attempts
  <2>4. delivery' = [delivery EXCEPT ![d] = [delivery[d] EXCEPT !.st = s]]
    BY <1>6, <2>1
  <2> QED BY <1>7, <1>9, <2>1, <2>3, <2>4 DEF Inv
<1>11. \A x \in task[w].todo : /\ x # d => delivery[x].st = "SENDING"
                               /\ \A v \in Worker \ {w} : ~Holds(v, x)
  <2>1. \A x \in task[w].todo : x \in Pair /\ Holds(w, x) /\ (Unsure(w, x) => x = d)
    BY <1>1, <1>2, TaskFields DEF Holds, Unsure
  <2> QED BY <2>1 DEF Inv, HeldOnce
<1>12. \A x \in Pair : Left(x)'
  BY <1>10 DEF Inv, Left
<1>13. \A x \in Pair : delivery'[x].st = "NONE" => delivery[x].st = "NONE"
  BY <1>7, <1>10
<1>14. \A x \in Pair, v \in Worker \ {w} : Holds(v, x) => delivery'[x] = delivery[x]
  BY <1>10, <1>11
<1>15. \A x \in Pair : t.at \in {"post", "answer", "lost"} /\ x \in t.todo =>
         delivery'[x].st = "SENDING" /\ \A v \in Worker \ {w} : ~Holds(v, x)
  BY <1>7, <1>8, <1>10, <1>11
<1> QED BY <1>6, <1>8, <1>10, <1>12, <1>13, <1>14, <1>15, CycleStep DEF Inv, TypeOK

(* A statement that records an answer and fails: the cycle goes on holding *)
(* the delivery, which is SENDING or already decided.                      *)
LEMMA RecordFailsStep ==
  ASSUME Inv, NEW w \in Worker, NEW committed \in BOOLEAN, RecordFails(w, committed)
  PROVE  Inv'
<1>0. PICK t : t = [task[w] EXCEPT !.at = "lost", !.answer = "busy"]
  OBVIOUS
<1>1. /\ task[w] \in Tasks /\ task[w].at = "answer"
      /\ task[w].answer \in {"accepted", "refused", "busy"}
  BY DEF Inv, RecordFails, Sound
<1>2. PICK d \in task[w].todo : task[w].pairs = {d}
  BY <1>1 DEF Inv, Sound
<1>3. d \in Pair /\ d = Current(w)
  BY <1>1, <1>2, TaskFields DEF Current
<1>4. /\ t \in Tasks /\ t.at = "lost" /\ t.answer = "busy"
      /\ t.pairs = {d} /\ t.todo = task[w].todo
  BY <1>0, <1>1, <1>2 DEF Tasks
<1>5. Sound(t) /\ Scheduled(t)'
  BY <1>2, <1>4 DEF Sound, Scheduled
<1>6. /\ Set(w, t) /\ UNCHANGED <<event, active, told>>
      /\ faults < Faults /\ faults' = faults + 1
  BY <1>0 DEF RecordFails
<1>7. faults' \in 0..Faults
  BY <1>6, DeliveryAssumption DEF DeliveryAssumption, Inv, TypeOK
<1>8. \A x \in task[w].todo : x \in Pair /\ delivery[x].st = "SENDING"
                              /\ \A v \in Worker \ {w} : ~Holds(v, x)
  <2>1. \A x \in task[w].todo : x \in Pair /\ Holds(w, x) /\ ~Unsure(w, x)
    BY <1>1, TaskFields DEF Holds, Unsure
  <2> QED BY <2>1 DEF Inv, HeldOnce
<1>9. PICK s \in {"SENDING", "SENT", "DEAD"} :
        delivery' = [delivery EXCEPT ![d] = [delivery[d] EXCEPT !.st = s]]
  <2>1. CASE committed
    <3>1. Outcome(d, task[w].answer) \in {"SENT", "DEAD"}
      BY <1>1, <2>1 DEF RecordFails, Outcome
    <3> QED BY <1>3, <2>1, <3>1 DEF RecordFails
  <2>2. CASE ~committed
    <3>1. delivery[d] = [delivery[d] EXCEPT !.st = "SENDING"]
      BY <1>3, <1>2, <1>8 DEF Inv, Attempts
    <3>2. delivery = [delivery EXCEPT ![d] = [delivery[d] EXCEPT !.st = "SENDING"]]
      BY <1>3, <3>1 DEF Inv
    <3> QED BY <2>2, <3>2 DEF RecordFails
  <2> QED BY <2>1, <2>2
<1>10. /\ delivery' \in [Pair -> Attempts] /\ delivery'[d].st = s
       /\ \A x \in Pair \ {d} : delivery'[x] = delivery[x]
  <2>1. delivery[d] \in Attempts
    BY <1>3 DEF Inv
  <2>2. [delivery[d] EXCEPT !.st = s] \in Attempts /\ [delivery[d] EXCEPT !.st = s].st = s
    BY <2>1 DEF Attempts
  <2> QED BY <1>3, <1>9, <2>2 DEF Inv
<1>11. \A x \in Pair : Left(x)'
  BY <1>10 DEF Inv, Left
<1>12. \A x \in Pair : delivery'[x].st = "NONE" => delivery[x].st = "NONE"
  BY <1>10
<1>13. \A x \in Pair, v \in Worker \ {w} : Holds(v, x) => delivery'[x] = delivery[x]
  BY <1>2, <1>8, <1>10
<1>14. \A x \in Pair : t.at \in {"post", "answer", "lost"} /\ x \in t.todo =>
         /\ \/ delivery'[x].st = "SENDING"
            \/ t.at = "lost" /\ t.pairs = {x} /\ delivery'[x].st \in {"SENT", "DEAD"}
         /\ \A v \in Worker \ {w} : ~Holds(v, x)
  BY <1>4, <1>8, <1>10
<1>15. event' \in [Event -> Rows] /\ active' = active /\ told' \subseteq Event
  BY <1>6 DEF Inv, TypeOK
<1>16. \A e \in Named : event'[e].st = "SENT" \/ e \in told' => event[e].st = "SENT" \/ e \in told
  BY <1>6
<1>17. Set(w, t) /\ t \in Tasks
  BY <1>4, <1>6
<1> QED BY <1>5, <1>7, <1>10, <1>11, <1>12, <1>13, <1>14, <1>15, <1>16, <1>17, CycleStep

-----------------------------------------------------------------------------
(* Outside the cycles. *)

(* Events are written and claims grow old; endpoints are registered.       *)
LEMMA OutsideStep ==
  ASSUME Inv,
         \/ \E e \in Event : Enqueue(e) \/ ClaimGrowsStale(e)
         \/ \E n \in Endpoint : Register(n)
         \/ UNCHANGED vars
  PROVE  Inv'
<1>1. UNCHANGED <<delivery, told, faults, task>>
  BY DEF Enqueue, ClaimGrowsStale, Register, vars
<1>2. /\ event' \in [Event -> Rows]
      /\ \A e \in Event : event'[e].st = "SENT" => event[e].st = "SENT"
  <2>1. CASE \E e \in Event : Enqueue(e)
    BY <2>1 DEF Enqueue, Inv, Rows
  <2>2. CASE \E e \in Event : ClaimGrowsStale(e)
    <3>1. PICK e \in Event : event' = [event EXCEPT ![e] = [@ EXCEPT !.stale = TRUE]]
      BY <2>2 DEF ClaimGrowsStale
    <3>2. event[e] \in Rows
      BY DEF Inv
    <3>3. [event[e] EXCEPT !.stale = TRUE] \in Rows /\ [event[e] EXCEPT !.stale = TRUE].st = event[e].st
      BY <3>2 DEF Rows
    <3> QED BY <3>1, <3>3 DEF Inv
  <2>3. CASE event' = event
    BY <2>3 DEF Inv
  <2> QED BY <2>1, <2>2, <2>3 DEF Register, vars
<1>3. active' \subseteq Endpoint /\ active \subseteq active'
  BY DEF Enqueue, ClaimGrowsStale, Register, vars, Inv, TypeOK
<1>4. TypeOK'
  BY <1>1, <1>2, <1>3 DEF Inv, TypeOK, Rows
<1>5. HeldOnce'
  BY <1>1 DEF Inv, HeldOnce, Holds, Unsure
<1>6. SentIsScheduled'
  BY <1>1, <1>2, DeliveryAssumption DEF DeliveryAssumption, Inv, SentIsScheduled
<1>7. \A w \in Worker : Sound(task[w])' /\ Scheduled(task[w])'
  BY <1>1 DEF Inv, Sound, Scheduled
<1>8. \A d \in Pair : Left(d)'
  BY <1>1 DEF Inv, Left
<1> QED BY <1>1, <1>2, <1>3, <1>4, <1>5, <1>6, <1>7, <1>8 DEF Inv

LEMMA InvInit == Init => Inv
<1> SUFFICES ASSUME Init PROVE Inv
  OBVIOUS
<1>1. Free \in Tasks /\ Sound(Free) /\ Scheduled(Free) /\ Free.at = "idle"
  BY FreeIsSound
<1>2. /\ event \in [Event -> Rows] /\ delivery \in [Pair -> Attempts] /\ task \in [Worker -> Tasks]
      /\ \A d \in Pair : Left(d)
  BY <1>1, DeliveryAssumption DEF DeliveryAssumption, Init, Rows, Attempts, Left
<1>3. TypeOK
  BY <1>1, <1>2, DeliveryAssumption, TaskFields DEF DeliveryAssumption, Init, TypeOK, Rows, Attempts
<1>4. HeldOnce /\ SentIsScheduled
  BY <1>1, DeliveryAssumption DEF DeliveryAssumption, Init, HeldOnce, Holds, SentIsScheduled
<1> QED BY <1>1, <1>2, <1>3, <1>4 DEF Init, Inv

LEMMA InvNext == Inv /\ [Next]_vars => Inv'
BY ClaimBatchStep, TakeEventStep, ScheduleOneStep, NotifyStep, MarkSentStep, MarkFailedStep, FaultStep,
   ClaimDeliveriesStep, PostStep, RecordAnswerStep, RecordFailsStep, OutsideStep
   DEF Next, DispatchStep, DeliverStep

(* No two cycles ever post the same delivery at once, and a delivery is    *)
(* attempted at most webhookMaxRetries times, however cycles overlap, stop *)
(* and dispatch events again (dispatchWebhooks).                           *)
THEOREM ClaimsAreKeptHolds == Spec => []ClaimsAreKept
<1>1. Inv => ClaimsAreKept
  BY DEF Inv, ClaimsAreKept
<1> QED BY <1>1, InvInit, InvNext, PTL DEF Spec

(* An event that is SENT, or of which the merchant was told, has a         *)
(* delivery for every endpoint that was there before it, whatever failed   *)
(* between two inserts (scheduleMerchantDeliveries, markSent).             *)
THEOREM SentIsScheduledHolds == Spec => []SentIsScheduled
<1>1. Inv => SentIsScheduled
  BY DEF Inv
<1> QED BY <1>1, InvInit, InvNext, PTL DEF Spec

(* No step touches a delivery that was accepted or given up, but that of   *)
(* the cycle which is not sure that it recorded this.                      *)
LEMMA DecidedKept ==
  ASSUME Inv, [Next]_vars, NEW d \in Pair, delivery[d].st \in {"SENT", "DEAD"}
  PROVE  delivery'[d] = delivery[d] \/ \E w \in Worker : Unsure(w, d)
<1>1. CASE \E w \in Worker, x \in Pair : ScheduleOne(w, x)
  BY <1>1 DEF ScheduleOne, RowOnce, Inv
<1>2. CASE \E w \in Worker : ClaimDeliveries(w)
  BY <1>2 DEF ClaimDeliveries, DeliveryDue
<1>3. CASE \E w \in Worker : RecordAnswer(w)
  <2>1. PICK w \in Worker : RecordAnswer(w)
    BY <1>3
  <2>2. task[w] \in Tasks /\ task[w].at \in {"answer", "lost"}
    BY <2>1 DEF Inv, RecordAnswer
  <2>3. PICK x \in task[w].todo : task[w].pairs = {x} /\ Current(w) = x
    BY <2>2 DEF Inv, Sound, Current
  <2>4. x \in Pair /\ (delivery[x].st = "SENDING" \/ Unsure(w, x))
    <3>1. x \in Pair /\ Holds(w, x)
      BY <2>2, TaskFields DEF Holds
    <3> QED BY <3>1 DEF Inv, HeldOnce
  <2>5. delivery' = [delivery EXCEPT ![x].st = Outcome(x, task[w].answer)]
    BY <2>1, <2>3 DEF RecordAnswer
  <2> QED BY <2>4, <2>5 DEF Inv
<1>4. CASE \E w \in Worker, committed \in BOOLEAN : RecordFails(w, committed)
  <2>1. PICK w \in Worker, committed \in BOOLEAN : RecordFails(w, committed)
    BY <1>4
  <2>2. task[w] \in Tasks /\ task[w].at = "answer"
    BY <2>1 DEF Inv, RecordFails
  <2>3. PICK x \in task[w].todo : task[w].pairs = {x} /\ Current(w) = x
    BY <2>2 DEF Inv, Sound, Current
  <2>4. x \in Pair /\ delivery[x].st = "SENDING"
    <3>1. x \in Pair /\ Holds(w, x) /\ ~Unsure(w, x)
      BY <2>2, TaskFields DEF Holds, Unsure
    <3> QED BY <3>1 DEF Inv, HeldOnce
  <2>5. \/ delivery' = delivery
        \/ delivery' = [delivery EXCEPT ![x].st = Outcome(x, task[w].answer)]
    BY <2>1, <2>3 DEF RecordFails
  <2> QED BY <2>4, <2>5 DEF Inv
<1>5. CASE UNCHANGED delivery
  BY <1>5
<1> QED BY <1>1, <1>2, <1>3, <1>4, <1>5, ZenonT(40)
       DEF Next, DispatchStep, DeliverStep, Enqueue, ClaimGrowsStale, ClaimBatch, TakeEvent, Notify,
           MarkSent, MarkFailed, DispatchFails, Post, Crash, Register, vars

(* What an endpoint accepted or refused is sent to it again only by the    *)
(* cycle whose own recording of this failed, and never because markFailed  *)
(* of a slow cycle took a sent event back to RETRY (ON CONFLICT DO         *)
(* NOTHING, the catch of dispatchWebhooks).                                *)
THEOREM DecidedStaysHolds == Spec => DecidedStays
<1>1. Init => Inv
  BY InvInit
<1>2. Inv /\ [Next]_vars => Inv'
  BY InvNext
<1>3. Inv /\ [Next]_vars =>
        [\A d \in Pair : delivery[d].st \in {"SENT", "DEAD"} =>
           delivery'[d] = delivery[d] \/ \E w \in Worker : Unsure(w, d)]_vars
  BY DecidedKept
<1> QED BY <1>1, <1>2, <1>3, PTL DEF Spec, DecidedStays
=============================================================================
