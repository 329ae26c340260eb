\* Two invoices, sweeps and cycles that take one row each, a freeze, and a worker that may die.
CONSTANTS
  m1 = m1
  i1 = i1
  i2 = i2
  x1 = x1
  x2 = x2
  d1 = d1
  d2 = d2
  w1 = w1
  w2 = w2
  NoInvoice = NoInvoice
  NoCheckout = NoCheckout
  Merchant = {m1}
  Invoice = {i1, i2}
  Checkout = {x1, x2}
  Dispute = {}
  Worker = {w1}
  Owner <- TwoInvoices
  Total <- Price
  Net <- NetPart
  ProviderFees = {1}
  MaxAttempts = 0
  MaxAge = 0
  PollBatch = 1
  ReleaseBatch = 1
  MayCrash = TRUE
  CheckoutStable = TRUE
  ProviderModes = {"VIP"}
  ReportsPaidAt = TRUE
  VerifyMayFail = FALSE
  VerifyMayLag = FALSE
  MayMispay = FALSE
  MayClose = FALSE
  PromptPolling = TRUE
  MayLift = FALSE
  MaySuspend = FALSE
  MayFreeze = TRUE
SPECIFICATION FairSpec
PROPERTIES PaidIsCredited CreditIsReleased
CHECK_DEADLOCK FALSE
