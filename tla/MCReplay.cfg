CONSTANTS
  None = None
  Customers <- MCCustomers
  Invoices <- MCInvoices
  Payments <- MCPayments
  Settlements <- MCSettlements
  PaymentOrder <- MCPaymentOrder
  SettlementOrder <- MCSettlementOrder
  Book <- MCBook
  PaymentsFor <- MCPaymentsFor
  Facts <- MCFacts
  Fates <- MCFates
  Planner = "gemini"
  Offers = {30000}
  Harness = "replay"
  Days = 3
  MaxRuns = 1
  MAX_CONTACTS_PER_24H = 2
  MAX_RECOVERY_ATTEMPTS = 2
  REFUND_HUMAN_THRESHOLD_PAISE = 500000
  WRITE_OFF_HUMAN_THRESHOLD_PAISE = 100000
  BLOCK_HUMAN_THRESHOLD_PAISE = 2500000
SPECIFICATION ReplaySpec
INVARIANTS
  ReplayTypeOK
  ScorecardAddsUp
  FraudFigures
  NoHindsight
  BlocksWaitANight
  NoPaymentMatchedTwice
  ReconcilerAgrees
  MoneyAccounted
  NothingWithoutPermission
CHECK_DEADLOCK FALSE
