\* Two payouts of one wallet, two workers that may stop or be overtaken, rates locked anew.
CONSTANTS
  p1 = p1
  p2 = p2
  w1 = w1
  w2 = w2
  Idle = Idle
  Payout = {p1, p2}
  Worker = {w1, w2}
  Locks = {1, 2}
  InitialSeqno = 0
  CrashAt = {"record"}
  Lapsing = {p1}
  Expiring = {p2}
  External = 1
  Maintained = TRUE
SPECIFICATION Spec
SYMMETRY WorkerSymmetry
INVARIANTS NumbersAreKept InTurn
PROPERTIES CompletedIsFinal KeepsTransferPromise
CHECK_DEADLOCK FALSE
