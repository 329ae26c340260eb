\* Two invoices, disputes, suspensions and releases, one request at a time; nobody lifts a hold by hand.
CONSTANTS
  m1 = m1
  i1 = i1
  i2 = i2
  x1 = x1
  x2 = x2
  d1 = d1
  d2 = d2
  w1 = w1
  w2 = w2
  NoInvoice = NoInvoice
  NoCheckout = NoCheckout
  Merchant = {m1}
  Invoice = {i1, i2}
  Checkout = {x1, x2}
  Dispute = {d1}
  Worker = {w1}
  Owner <- TwoInvoices
  Total <- Totals
  Net <- Nets
  ProviderFees <- Costs
  Base <- Bases
  BornBy <- Modes
  PlatformBps = 1500
  ProviderBps = 900
  BasisPoints = 10000
  GramUnit = 100
  Amount <- SmallAmounts
  Bps = {0, 1, 900, 1500, 3333, 10000}
  RatePerGram = {1, 3, 7, 49, 100, 333}
  MaxAttempts = 0
  MaxAge = 0
  PollBatch = 1
  ReleaseBatch = 1
  MayCrash = FALSE
  CheckoutStable = TRUE
  ProviderModes = {"STANDARD"}
  ReportsPaidAt = TRUE
  VerifyMayFail = TRUE
  VerifyMayLag = FALSE
  MayMispay = FALSE
  MayClose = FALSE
  PromptPolling = TRUE
  MayLift = FALSE
  MaySuspend = TRUE
  MayFreeze = FALSE
SPECIFICATION Spec
SYMMETRY CheckoutSymmetry
INVARIANTS BooksBalance AmountsAreExact
PROPERTY DisputedStays
CHECK_DEADLOCK FALSE
