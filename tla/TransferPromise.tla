-------------------------- MODULE TransferPromise --------------------------
(***************************************************************************)
(* What the pipeline may rely on when it pays a payout, with no leases,    *)
(* numbers, lookups or workers in it: the payout is signed for one figure  *)
(* and never for another; nothing but that figure is sent, and counts as   *)
(* sent anew only after it was lost; it moves once; and only then is the   *)
(* payout paid.                                                            *)
(* Payouts assumes this of a signer and a network, Transfers makes it of   *)
(* signing requests and sequence numbers; both implement it.               *)
(***************************************************************************)
EXTENDS Integers

CONSTANT Payout

VARIABLES
  covered,  \* the figures that signatures for a payout cover
  carried,  \* the figures that were sent to the network for it
  fate,     \* what became of what was sent last
  paid      \* payouts that count as paid

vars == <<covered, carried, fate, paid>>

Init ==
  /\ covered = [p \in Payout |-> {}]
  /\ carried = [p \in Payout |-> {}]
  /\ fate = [p \in Payout |-> "NONE"]
  /\ paid = {}

(* The figure is the signer's choice. *)
Sign(p) ==
  /\ covered[p] = {}
  /\ \E figure \in covered'[p] : covered' = [covered EXCEPT ![p] = {figure}]
  /\ UNCHANGED <<carried, fate, paid>>

Send(p) ==
  /\ fate[p] \in {"NONE", "LOST"}
  /\ covered[p] # {}
  /\ carried' = [carried EXCEPT ![p] = covered[p]]
  /\ fate' = [fate EXCEPT ![p] = "SENT"]
  /\ UNCHANGED <<covered, paid>>

Land(p) ==
  /\ fate[p] = "SENT"
  /\ fate' = [fate EXCEPT ![p] = "LANDED"]
  /\ UNCHANGED <<covered, carried, paid>>

Lose(p) ==
  /\ fate[p] = "SENT"
  /\ fate' = [fate EXCEPT ![p] = "LOST"]
  /\ UNCHANGED <<covered, carried, paid>>

Pay(p) ==
  /\ fate[p] = "LANDED"
  /\ paid' = paid \cup {p}
  /\ UNCHANGED <<covered, carried, fate>>

Next == \E p \in Payout : Sign(p) \/ Send(p) \/ Land(p) \/ Lose(p) \/ Pay(p)

Spec == Init /\ [][Next]_vars
=============================================================================
