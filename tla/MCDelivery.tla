---------------------------- MODULE MCDelivery -----------------------------
(* Instances of Delivery for TLC. *)
EXTENDS Delivery, TLC

CONSTANTS e1, n1, n2, w1, w2

Everywhere == [e \in Event |-> Endpoint]
=============================================================================
