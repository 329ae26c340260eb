\* One refund call of the SDK, retried after a timeout.
CONSTANTS
  c1 = c1
  c2 = c2
  c3 = c3
  r1 = r1
  r2 = r2
  k1 = k1
  Call = {r1}
  RefundCall = {r1}
  Together <- One
  Key = {k1}
  KeyOf <- OneKey
  BodyOf <- TwoBodies
  Attempts <- AllRetry
  Ahead <- OnTime
  Amount <- Ones
  Collected = 3
  Lease = 1
  KeyTtl = 2
  Window = 1
  NonceTtl = 2
  Horizon = 3
  Faults = 1
  CrashAt = {"complete"}
SPECIFICATION Spec
INVARIANT OneRefundPerCall
CHECK_DEADLOCK FALSE
