\* Two merchants share a treasury too small for both; reservations do not lapse, propagation is bounded.
CONSTANTS
  m1 = m1
  m2 = m2
  p1 = p1
  p2 = p2
  w1 = w1
  w2 = w2
  a1 = a1
  a2 = a2
  NoAddress = NoAddress
  NoPayout = NoPayout
  Merchant = {m1, m2}
  Payout = {p1, p2}
  Worker = {w1}
  Owner <- OneEach
  Address = {a1}
  InitialAvailable = 100
  Requests = {100}
  MinPayout = 50
  MaxPayout = 100
  Rates <- QuotedRates
  Market <- Markets
  s1 = s1
  s2 = s2
  s3 = s3
  Source = {s1, s2, s3}
  Scale = 10
  MaxDisagreement = 10
  MaxMove = 25
  MinRate = 1
  MaxRate = 1000
  Observation = {50, 90, 100, 105, 110, 115, 121}
  Starvation = 1
  MaxSelected = 2
  SearchBound = 3
  Queues <- SmallQueues
  Liquidity = {0, 1, 2, 3, 4, 5, 6, 7}
  InitialTreasury = 5
  SafetyReserve = 1
  Fundings = {2}
  NetworkFees = {0, 1}
  PipelineBatch = 1
  ReconcileBatch = 1
  MayCrash = TRUE
  MayLapse = FALSE
  LookupMayFail = FALSE
  PropagationBounded = TRUE
  RejectionIsFinal = TRUE
  MayFreeze = FALSE
  OperatorActs = FALSE
SPECIFICATION Spec
INVARIANTS InFlightIsBacked NoRefundOfTransfer SelectionIsBest ConsensusIsRobust
PROPERTY KeepsTransferPromise
CHECK_DEADLOCK FALSE
