\* One payout, two overlapping worker cycles, every fault of the environment, suspensions and lost wallets.
CONSTANTS
  m1 = m1
  m2 = m2
  p1 = p1
  p2 = p2
  w1 = w1
  w2 = w2
  a1 = a1
  a2 = a2
  NoAddress = NoAddress
  NoPayout = NoPayout
  Merchant = {m1}
  Payout = {p1}
  Worker = {w1, w2}
  Owner <- Single
  Address = {a1}
  InitialAvailable = 100
  Requests = {100}
  MinPayout = 50
  MaxPayout = 100
  Rates = {25, 49}
  InitialTreasury = 4
  SafetyReserve = 0
  Fundings = {}
  NetworkFees = {0, 1}
  PipelineBatch = 1
  ReconcileBatch = 1
  MayCrash = TRUE
  MayLapse = TRUE
  LookupMayFail = TRUE
  PropagationBounded = FALSE
  RejectionIsFinal = FALSE
  MayFreeze = FALSE
  OperatorActs = TRUE
SPECIFICATION Spec
SYMMETRY WorkerSymmetry
INVARIANTS BooksBalance SettlingIsOwed
PROPERTIES UnknownIsVisible KeepsPromise
CHECK_DEADLOCK FALSE
