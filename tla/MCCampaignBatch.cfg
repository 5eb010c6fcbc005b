CONSTANTS
  None = None
  Customers <- MCCustomers
  Invoices <- MCInvoices
  Payments <- MCPayments
  Settlements <- MCCustomers
  Book <- MCBook
  PaymentsFor <- MCPaymentsFor
  Facts <- MCFacts
  Planner = "rule"
  Offers = {}
  Harness = "batch"
  Days = 3
  MaxRuns = 2
  MAX_CONTACTS_PER_24H = 2
  MAX_RECOVERY_ATTEMPTS = 4
  REFUND_HUMAN_THRESHOLD_PAISE = 500000
  WRITE_OFF_HUMAN_THRESHOLD_PAISE = 100000
  BLOCK_HUMAN_THRESHOLD_PAISE = 2500000
SPECIFICATION Spec
INVARIANT Reproducible
CHECK_DEADLOCK FALSE
