CONSTANTS
  t1 = t1
  t2 = t2
  None = None
  Thread = {t1, t2}
  NoThread = "nobody"
  Ask <- LargeRefund
  Signable = {"r3"}
  Instants = {12}
  Customers <- MCCustomers
  Invoices <- Nothing
  Payments <- MCPayments
  Settlements <- Nothing
  MAX_CONTACTS_PER_24H = 2
  MAX_RECOVERY_ATTEMPTS = 4
  REFUND_HUMAN_THRESHOLD_PAISE = 500000
  WRITE_OFF_HUMAN_THRESHOLD_PAISE = 100000
  BLOCK_HUMAN_THRESHOLD_PAISE = 2500000
  MaxLog = 5
  MaxOutcomes = 0
  MaxSigned = 2
  MaxCrashes = 0
  MaxFailures = 0
  MaxKept = 0
SPECIFICATION HttpSpec
INVARIANT SignedWhileWaiting
CHECK_DEADLOCK FALSE
