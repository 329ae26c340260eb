---------------------------- MODULE MCTransfers ----------------------------
(* Instances of Transfers for TLC. *)
EXTENDS Transfers, TLC

CONSTANTS p1, p2, w1, w2

WorkerSymmetry == Permutations({w1, w2})
=============================================================================
