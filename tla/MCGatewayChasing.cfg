CONSTANTS
  t1 = t1
  t2 = t2
  None = None
  Thread = {t1}
  NoThread = "nobody"
  Ask <- Chasing
  Signable = {"r2"}
  Instants = {33, 57}
  Customers <- MCCustomers
  Invoices <- MCInvoices
  Payments <- MCPayments
  Settlements <- MCSettlements
  MAX_CONTACTS_PER_24H = 2
  MAX_RECOVERY_ATTEMPTS = 2
  REFUND_HUMAN_THRESHOLD_PAISE = 500000
  WRITE_OFF_HUMAN_THRESHOLD_PAISE = 100000
  BLOCK_HUMAN_THRESHOLD_PAISE = 2500000
  MaxLog = 7
  MaxOutcomes = 0
  MaxSigned = 1
  MaxCrashes = 1
  MaxFailures = 1
  MaxKept = 1
SPECIFICATION Spec
INVARIANTS
  MemoryMatchesLog
  ContactCap
  AttemptCap
  RecoveryWithinBudget
CHECK_DEADLOCK FALSE
