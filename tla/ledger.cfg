\* Three processes, three posts of two payments and a withdrawal, one fault, two blocks.
CONSTANTS
  p1 = p1
  p2 = p2
  p3 = p3
  pay1 = pay1
  pay2 = pay2
  out = out
  clearing = clearing
  merchant = merchant
  revenue = revenue
  Process = {p1, p2, p3}
  Operation = {pay1, pay2, out}
  Account = {clearing, merchant, revenue}
  TypeOf <- Types
  LinesOf <- Drafts
  Posts = 3
  Retries = 1
  Blocks = 2
  Faults = 1
SPECIFICATION FairSpec
INVARIANTS BooksAgree SealedInOrder
PROPERTIES KeepsLedgerPromise PostEnds
CHECK_DEADLOCK FALSE
