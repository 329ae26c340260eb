\* One event for two endpoints, two overlapping cycles that may stop while they dispatch.
CONSTANTS
  e1 = e1
  n1 = n1
  n2 = n2
  w1 = w1
  w2 = w2
  Event = {e1}
  Endpoint = {n1, n2}
  Worker = {w1, w2}
  Named = {e1}
  Notifiable = {e1}
  Subscribed <- Everywhere
  MaxAttempts = 2
  MaxDispatches = 3
  Faults = 2
  CrashAt = {"schedule", "sent"}
  Late = {n2}
SPECIFICATION FairSpec
INVARIANTS ClaimsAreKept SentIsScheduled
PROPERTIES DecidedStays NothingIsLeft
CHECK_DEADLOCK FALSE
