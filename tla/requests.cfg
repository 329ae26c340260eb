\* A call that is retried, two bodies under one key, two refunds of a payment.
CONSTANTS
  c1 = c1
  c2 = c2
  c3 = c3
  r1 = r1
  r2 = r2
  k1 = k1
  Call = {c1, c2, c3, r1, r2}
  RefundCall = {r1, r2}
  Together <- Mixes
  Key = {k1}
  KeyOf <- OneKey
  BodyOf <- TwoBodies
  Attempts <- AttemptsOf
  Ahead <- FirstAhead
  Amount <- Twos
  Collected = 3
  Lease = 1
  KeyTtl = 2
  Window = 1
  NonceTtl = 2
  Horizon = 3
  Faults = 1
  CrashAt = {"complete"}
SPECIFICATION Spec
INVARIANTS KeysAreKept HandledOnce DuplicateIsLapsed RefundsWithinCollected
 
CHECK_DEADLOCK FALSE
