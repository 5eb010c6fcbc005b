CONSTANTS
  t1 = t1
  t2 = t2
  None = None
  Thread = {t1, t2}
  NoThread = "nobody"
  Ask <- Refunding
  Signable = {"r3"}
  Instants = {12}
  Customers <- MCCustomers
  Invoices <- MCInvoices
  Payments <- MCPayments
  Settlements <- MCSettlements
  MAX_CONTACTS_PER_24H = 2
  MAX_RECOVERY_ATTEMPTS = 4
  REFUND_HUMAN_THRESHOLD_PAISE = 500000
  WRITE_OFF_HUMAN_THRESHOLD_PAISE = 100000
  BLOCK_HUMAN_THRESHOLD_PAISE = 2500000
  MaxLog = 8
  MaxOutcomes = 1
  MaxSigned = 2
  MaxCrashes = 1
  MaxFailures = 0
  MaxKept = 0
SPECIFICATION Spec
INVARIANTS
  TypeOK
  PendingIsOpen
  OneActionPerKey
  RefundsWithinPayment
  SignedAboveCeiling
  AskedFirst
PROPERTY ImplementsCheckpost
SYMMETRY Sides
CHECK_DEADLOCK FALSE
