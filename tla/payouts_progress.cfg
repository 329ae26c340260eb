\* Liveness of two payouts that compete for a place in the cycle: crashes, freezes and ambiguous answers, liquidity suffices.
CONSTANTS
  m1 = m1
  m2 = m2
  p1 = p1
  p2 = p2
  w1 = w1
  w2 = w2
  a1 = a1
  a2 = a2
  NoAddress = NoAddress
  NoPayout = NoPayout
  Merchant = {m1, m2}
  Payout = {p1, p2}
  Worker = {w1}
  Owner <- OneEach
  Address = {a1}
  InitialAvailable = 100
  Requests = {}
  MinPayout = 50
  MaxPayout = 100
  Rates = {50}
  InitialTreasury = 6
  SafetyReserve = 0
  Fundings = {}
  NetworkFees = {1}
  PipelineBatch = 1
  ReconcileBatch = 1
  MayCrash = TRUE
  MayLapse = FALSE
  LookupMayFail = FALSE
  PropagationBounded = TRUE
  RejectionIsFinal = TRUE
  MayFreeze = TRUE
  OperatorActs = FALSE
SPECIFICATION FairSpec
PROPERTIES LandedIsSettled PayoutEnds
CHECK_DEADLOCK FALSE
