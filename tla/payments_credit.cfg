\* One invoice under either provider, two checkouts, two overlapping requests that may stop but not die.
CONSTANTS
  m1 = m1
  i1 = i1
  i2 = i2
  x1 = x1
  x2 = x2
  d1 = d1
  d2 = d2
  w1 = w1
  w2 = w2
  NoInvoice = NoInvoice
  NoCheckout = NoCheckout
  Merchant = {m1}
  Invoice = {i1}
  Checkout = {x1, x2}
  Dispute = {}
  Worker = {w1, w2}
  Owner <- OneInvoice
  Total <- Price
  Net <- NetPart
  ProviderFees = {1}
  MaxAttempts = 1
  MaxAge = 1
  PollBatch = 1
  ReleaseBatch = 1
  MayCrash = FALSE
  CheckoutStable = FALSE
  ProviderModes = {"VIP", "STANDARD"}
  ReportsPaidAt = FALSE
  VerifyMayFail = FALSE
  VerifyMayLag = TRUE
  MayMispay = TRUE
  MayClose = TRUE
  PromptPolling = FALSE
  MayLift = TRUE
  MaySuspend = FALSE
  MayFreeze = FALSE
SPECIFICATION Spec
SYMMETRY Symmetry
INVARIANTS CreditedOnce CreditIsEarned
PROPERTY KeepsCreditPromise
CHECK_DEADLOCK FALSE
