------------------------------ MODULE Delivery ------------------------------
(***************************************************************************)
(* From a committed event to a merchant who knows of it: the outbox of     *)
(* packages/core/src/outbox.ts, the dispatcher of dispatcher.ts that turns *)
(* events into webhook deliveries and Telegram messages                    *)
(* (notifications.ts), and the delivery of webhooks (webhooks.ts).         *)
(*                                                                         *)
(* A worker is one cycle of runOnce.  It takes a batch of events or a      *)
(* batch of deliveries in one transaction and works through it with none   *)
(* open; cycles overlap, stop half-way and fall behind their own claims.   *)
(* Backoff is left to the clock: what is to be retried is due some time.   *)
(***************************************************************************)
EXTENDS Integers, FiniteSets

CONSTANTS
  Event,          \* outbox events
  Endpoint,       \* webhook endpoints of the merchant
  Worker,         \* cycles that can be running at once
  Named,          \* events with a merchant and a name for him (merchantEventName)
  Notifiable,     \* events worth a Telegram message
  Subscribed,     \* the endpoints whose event_types take an event
  MaxAttempts,    \* config.security.webhookMaxRetries
  MaxDispatches,  \* maxAttempts of markFailed
  Faults,         \* how often a cycle may stop or the database fail a statement of one
  CrashAt,        \* steps before which a cycle may stop
  Late            \* the endpoints that are registered while events flow

ASSUME DeliveryAssumption ==
  /\ Named \subseteq Event /\ Notifiable \subseteq Event
  /\ Subscribed \in [Event -> SUBSET Endpoint]
  /\ MaxAttempts \in Nat \ {0} /\ MaxDispatches \in Nat \ {0} /\ Faults \in Nat
  /\ Late \subseteq Endpoint

VARIABLES
  event,      \* system.outbox_events
  delivery,   \* integration.webhook_deliveries, by event and endpoint
  active,     \* the endpoints that are registered and ACTIVE
  told,       \* the events the merchant was sent a Telegram message about
  faults,     \* how often that has happened
  task        \* what a worker is in the middle of

vars == <<event, delivery, active, told, faults, task>>

Pair == Event \X Endpoint
Free == [at |-> "idle", events |-> {}, todo |-> {}, pairs |-> {}, answer |-> "none"]

Init ==
  /\ event = [e \in Event |-> [st |-> "NONE", attempts |-> 0, stale |-> FALSE]]
  /\ delivery = [d \in Pair |-> [st |-> "NONE", attempts |-> 0]]
  /\ active = Endpoint \ Late
  /\ told = {} /\ faults = 0
  /\ task = [w \in Worker |-> Free]

Set(w, t) == task' = [task EXCEPT ![w] = t]

-----------------------------------------------------------------------------
(* enqueue: the event is written by the transaction that moves the money. *)
Enqueue(e) ==
  /\ event[e].st = "NONE"
  /\ event' = [event EXCEPT ![e].st = "PENDING"]
  /\ UNCHANGED <<delivery, active, told, faults, task>>

(* Events that are due, and those of a cycle that holds them too long. *)
Due(e) == \/ event[e].st \in {"PENDING", "RETRY"}
          \/ event[e].st = "PROCESSING" /\ event[e].stale

ClaimBatch(w) ==
  LET due == {e \in Event : Due(e)}
  IN /\ task[w] = Free /\ due # {}
     /\ event' = [e \in Event |-> IF e \in due
                    THEN [event[e] EXCEPT !.st = "PROCESSING", !.stale = FALSE] ELSE event[e]]
     /\ Set(w, [Free EXCEPT !.at = "next", !.events = due])
     /\ UNCHANGED <<delivery, active, told, faults>>

ClaimGrowsStale(e) ==
  /\ event[e].st = "PROCESSING" /\ ~event[e].stale
  /\ event' = [event EXCEPT ![e].stale = TRUE]
  /\ UNCHANGED <<delivery, active, told, faults, task>>

(* scheduleMerchantDeliveries reads the endpoints, then inserts one row    *)
(* after the other, each in a transaction of its own.                      *)
EndpointsFor(e) == IF e \in Named THEN active \cap Subscribed[e] ELSE {}

TakeEvent(w, e) ==
  /\ task[w].at = "next" /\ e \in task[w].events
  /\ Set(w, [task[w] EXCEPT !.at = "schedule", !.todo = {e} \X EndpointsFor(e), !.pairs = {e}])
  /\ UNCHANGED <<event, delivery, active, told, faults>>

Current(w) == CHOOSE e \in task[w].pairs : TRUE

RowAnew(d) == [st |-> "PENDING", attempts |-> 0]               \* mutant: DO UPDATE
RowOnce(d) == IF delivery[d].st = "NONE" THEN [st |-> "PENDING", attempts |-> 0] ELSE delivery[d]

ScheduleOne(w, d) ==
  /\ task[w].at = "schedule" /\ d \in task[w].todo
  /\ delivery' = [delivery EXCEPT ![d] = RowOnce(d)]
  /\ Set(w, [task[w] EXCEPT !.todo = @ \ {d}])
  /\ UNCHANGED <<event, active, told, faults>>

(* notifyMerchant: whatever Telegram does, the dispatch goes on. *)
GoesOn(reached) == "sent"

Notify(w, reached) ==
  LET e == Current(w)
  IN /\ task[w].at = "schedule" /\ task[w].todo = {}
     /\ reached => e \in Notifiable
     /\ told' = IF reached THEN told \cup {e} ELSE told
     /\ Set(w, [task[w] EXCEPT !.at = GoesOn(reached)])
     /\ UNCHANGED <<event, delivery, active, faults>>

NextInBatch(w) ==
  LET left == task[w].events \ {Current(w)}
  IN Set(w, IF left = {} THEN Free ELSE [Free EXCEPT !.at = "next", !.events = left])

MarkSent(w) ==
  LET e == Current(w)
  IN /\ task[w].at = "sent"
     /\ event' = IF event[e].st = "PROCESSING"
                 THEN [event EXCEPT ![e].st = "SENT", ![e].stale = FALSE] ELSE event
     /\ NextInBatch(w)
     /\ UNCHANGED <<delivery, active, told, faults>>

(* A statement of the dispatch fails: what was inserted stays. *)
SkipsRest(w) == [task[w] EXCEPT !.at = "sent"]                 \* mutant: the error is swallowed
KeepsEvent(w) == [task[w] EXCEPT !.at = "failed"]

DispatchFails(w) ==
  /\ task[w].at \in {"schedule", "sent"} /\ faults < Faults
  /\ faults' = faults + 1
  /\ Set(w, KeepsEvent(w))
  /\ UNCHANGED <<event, delivery, active, told>>

(* markFailed names the row only, so it also takes back what another cycle *)
(* has sent in the meantime.                                               *)
MarkFailed(w) ==
  LET e == Current(w)
      dead == event[e].attempts + 1 >= MaxDispatches
  IN /\ task[w].at = "failed"
     /\ event' = [event EXCEPT ![e] = [st |-> IF dead THEN "DEAD" ELSE "RETRY",
                                       attempts |-> @.attempts + 1, stale |-> FALSE]]
     /\ NextInBatch(w)
     /\ UNCHANGED <<delivery, active, told, faults>>

-----------------------------------------------------------------------------
(* dispatchWebhooks *)

DeliveryDueAgain(d) == delivery[d].st # "NONE" /\ delivery[d].st \notin {"SENT", "DEAD"} /\ d[2] \in active
                                                               \* mutant: SENDING is reclaimed
DeliveryDueOnce(d) == delivery[d].st = "PENDING" /\ d[2] \in active   \* mutant: RETRY forgotten
DeliveryDue(d) == delivery[d].st \in {"PENDING", "RETRY"} /\ d[2] \in active

ClaimDeliveries(w) ==
  LET due == {d \in Pair : DeliveryDue(d)}
  IN /\ task[w] = Free /\ due # {}
     /\ delivery' = [d \in Pair |-> IF d \in due
                       THEN [st |-> "SENDING", attempts |-> delivery[d].attempts + 1]
                       ELSE delivery[d]]
     /\ Set(w, [Free EXCEPT !.at = "post", !.todo = due])
     /\ UNCHANGED <<event, active, told, faults>>

(* The endpoint accepts it, refuses it for good, or cannot say: a timeout, *)
(* a 408, a 429 or a 5xx.  An address that is no longer allowed is refused *)
(* before anything is sent.                                                *)
Post(w, d, answer) ==
  /\ task[w].at = "post" /\ d \in task[w].todo
  /\ Set(w, [task[w] EXCEPT !.at = "answer", !.pairs = {d}, !.answer = answer])
  /\ UNCHANGED <<event, delivery, active, told, faults>>

Exhausted(d) == delivery[d].attempts >= MaxAttempts

Outcome(d, answer) ==
  CASE answer = "accepted" -> "SENT"
    [] answer = "refused"  -> "DEAD"
    [] answer = "busy"     -> IF Exhausted(d) THEN "DEAD" ELSE "RETRY"

RecordAnswer(w) ==
  LET d == Current(w)
      left == task[w].todo \ {d}
  IN /\ task[w].at \in {"answer", "lost"}
     /\ delivery' = [delivery EXCEPT ![d].st = Outcome(d, task[w].answer)]
     /\ Set(w, IF left = {} THEN Free ELSE [Free EXCEPT !.at = "post", !.todo = left])
     /\ UNCHANGED <<event, active, told, faults>>

(* The statement that records the answer throws, and may have been         *)
(* committed all the same.  The catch around the post takes the error for  *)
(* one of the post: recordFailure asks nothing of the row and records a    *)
(* delivery the endpoint could not answer.  (A RETRY that was committed is *)
(* written again within its backoff, as if for the first time.)            *)
RecordFails(w, committed) ==
  LET d == Current(w)
  IN /\ task[w].at = "answer" /\ faults < Faults
     /\ committed => task[w].answer # "busy"
     /\ delivery' = IF committed THEN [delivery EXCEPT ![d].st = Outcome(d, task[w].answer)]
                    ELSE delivery
     /\ faults' = faults + 1
     /\ Set(w, [task[w] EXCEPT !.at = "lost", !.answer = "busy"])
     /\ UNCHANGED <<event, active, told>>

-----------------------------------------------------------------------------
(* A new endpoint hears of the events dispatched from then on. *)
Register(n) ==
  /\ n \notin active
  /\ active' = active \cup {n}
  /\ UNCHANGED <<event, delivery, told, faults, task>>

(* What a stopped cycle held stays PROCESSING or SENDING. *)
Crash(w) ==
  /\ task[w].at \in CrashAt /\ faults < Faults
  /\ faults' = faults + 1
  /\ Set(w, Free)
  /\ UNCHANGED <<event, delivery, active, told>>

DispatchStep(w) ==
  \/ \E e \in Event : TakeEvent(w, e)
  \/ \E d \in Pair : ScheduleOne(w, d)
  \/ \E reached \in BOOLEAN : Notify(w, reached)
  \/ MarkSent(w) \/ MarkFailed(w)

DeliverStep(w) ==
  \/ \E d \in Pair, answer \in {"accepted", "refused", "busy"} : Post(w, d, answer)
  \/ RecordAnswer(w)

Next ==
  \/ \E e \in Event : Enqueue(e) \/ ClaimGrowsStale(e)
  \/ \E w \in Worker : ClaimBatch(w) \/ ClaimDeliveries(w)
  \/ \E w \in Worker : DispatchStep(w) \/ DispatchFails(w) \/ DeliverStep(w) \/ Crash(w)
  \/ \E w \in Worker, committed \in BOOLEAN : RecordFails(w, committed)
  \/ \E n \in Endpoint : Register(n)

Spec == Init /\ [][Next]_vars

(***************************************************************************)
(* Fairness.  Cycle follows cycle and takes up both batches, a cycle that  *)
(* has begun goes on unless it stops, which happens finitely often, and a  *)
(* claim grows old.                                                        *)
(***************************************************************************)
Fairness ==
  /\ \A e \in Event : WF_vars(ClaimGrowsStale(e))
  /\ SF_vars(\E w \in Worker : ClaimBatch(w))
  /\ SF_vars(\E w \in Worker : ClaimDeliveries(w))
  /\ \A w \in Worker : WF_vars(DispatchStep(w) \/ DeliverStep(w))

FairSpec == Spec /\ Fairness

-----------------------------------------------------------------------------
(* Types; a delivery is attempted at most webhookMaxRetries times, however *)
(* often its event is dispatched again.                                    *)
TypeOK ==
  /\ event \in [Event -> [st : {"NONE", "PENDING", "PROCESSING", "RETRY", "SENT", "DEAD"},
                          attempts : Nat, stale : BOOLEAN]]
  /\ delivery \in [Pair -> [st : {"NONE", "PENDING", "SENDING", "RETRY", "SENT", "DEAD"},
                            attempts : 0..MaxAttempts]]
  /\ active \subseteq Endpoint 
  /\ told \subseteq Event /\ faults \in 0..Faults
  /\ \A w \in Worker :
       /\ task[w].at \in {"idle", "next", "schedule", "sent", "failed", "post", "answer", "lost"}
       /\ task[w].events \subseteq Event /\ task[w].todo \subseteq Pair
       /\ task[w].answer \in {"none", "accepted", "refused", "busy"}

(***************************************************************************)
(* Safety.                                                                 *)
(***************************************************************************)

(* An event that is marked SENT, or that the merchant was told of, has     *)
(* been turned into a delivery for every endpoint that was registered      *)
(* before it, whichever cycle failed or stopped between two inserts.       *)
SentIsScheduled ==
  \A e \in Named : event[e].st = "SENT" \/ e \in told =>
    \A n \in Subscribed[e] \ Late : delivery[<<e, n>>].st # "NONE"

(* No two cycles post the same delivery at once, and what one of them      *)
(* holds is SENDING until it records the answer, or thinks it failed to.   *)
Holds(w, d) == task[w].at \in {"post", "answer", "lost"} /\ d \in task[w].todo
Unsure(w, d) == task[w].at = "lost" /\ task[w].pairs = {d}
HeldOnce ==
  \A d \in Pair, v, w \in Worker :
    Holds(v, d) =>
      /\ delivery[d].st = "SENDING" \/ (Unsure(v, d) /\ delivery[d].st \in {"SENT", "DEAD"})
      /\ Holds(w, d) => v = w

(* Claims of deliveries are kept: types, and no delivery that two cycles   *)
(* hold at once (dispatchWebhooks).                                        *)
ClaimsAreKept == TypeOK /\ HeldOnce

(* What is recorded of a delivery an endpoint accepted or refused stands,  *)
(* even when a cycle that fell behind puts a sent event back to RETRY: it  *)
(* is sent again only by the cycle that decided it, when the statement     *)
(* that recorded this was committed and failed.  That much at-least-once   *)
(* remains (dispatcher.ts).                                                *)
DecidedStays ==
  [][\A d \in Pair : delivery[d].st \in {"SENT", "DEAD"} =>
       delivery'[d] = delivery[d] \/ \E w \in Worker : Unsure(w, d)]_vars

(***************************************************************************)
(* Liveness, while there are fewer faults than dispatches that make an     *)
(* event DEAD.                                                             *)
(***************************************************************************)

(* Every event that was committed with its money is dispatched, although   *)
(* cycles stop in the middle of it and Telegram may never answer.          *)
EventIsDispatched == \A e \in Event : event[e].st = "PENDING" ~> event[e].st = "SENT"

(* A scheduled delivery is accepted or given up, as long as no cycle stops *)
(* between the claim of a delivery and its answer.                         *)
DeliveryEnds ==
  \A d \in Pair : delivery[d].st \in {"PENDING", "RETRY"} ~> delivery[d].st \in {"SENT", "DEAD"}

(* Nothing is left behind: events are dispatched and deliveries come to an *)
(* end (outbox.ts, dispatcher.ts, webhooks.ts).                            *)
NothingIsLeft == EventIsDispatched /\ DeliveryEnds
=============================================================================
