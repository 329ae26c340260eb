\* Two admins, two requests to credit one deposit, one change of role, unbalanced books.
CONSTANTS
  a1 = a1
  a2 = a2
  x1 = x1
  x2 = x2
  h1 = h1
  Admin = {a1, a2}
  Approval = {x1, x2}
  Hash = {h1}
  HashOf <- OneDeposit
  AmountOf <- Amounts
  FirstRole <- OneOfFinance
  Appointments = 1
  Exceptions = 2
  Corruptions = 1
  Crashes = 1
  Kinds = {"request", "approve", "reject", "freeze", "unfreeze", "resolve"}
SPECIFICATION FairSpec
INVARIANTS CreditsAgree CreditedByTwo
PROPERTIES DecisionStands ImbalanceFreezes
CHECK_DEADLOCK FALSE
