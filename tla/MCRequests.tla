----------------------------- MODULE MCRequests -----------------------------
(* Instances of Requests for TLC. *)
EXTENDS Requests, TLC

CONSTANTS c1, c2, c3, r1, r2, k1

\* c1 and c2 try twice; c2 and c3 use one key for two bodies, so three messages meet there.
Mixes == {{c1}, {c2, c3}, {r1, r2}}
AttemptsOf == [c \in Call |-> IF c \in {c1, c2} THEN 2 ELSE 1]
OneKey == [c \in Call |-> k1]
\* c3 sends another body than the others under the same key.
TwoBodies == [c \in Call |-> IF c = c3 THEN "other" ELSE "body"]
One == {{r1}}
AllRetry == [c \in Call |-> 2]
\* The clock of c1 is ahead.
FirstAhead == [c \in Call |-> IF c = c1 THEN 1 ELSE 0]
OnTime == [c \in Call |-> 0]
Twos == [c \in RefundCall |-> 2]
Ones == [c \in RefundCall |-> 1]
=============================================================================
