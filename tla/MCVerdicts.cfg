CONSTANTS
  None = None
  Cases <- MCCases
  OtherActions = {"place_call", "offer_discount", "flag_for_review"}
  Discounts <- MCDiscounts
  Refunds <- MCRefunds
  Instants <- MCInstants
  MaxSpent = 1500
  MAX_CONTACTS_PER_24H = 1
  MAX_RECOVERY_ATTEMPTS = 2
  REFUND_HUMAN_THRESHOLD_PAISE = 500000
  WRITE_OFF_HUMAN_THRESHOLD_PAISE = 100000
  BLOCK_HUMAN_THRESHOLD_PAISE = 2500000
SPECIFICATION Spec
PROPERTIES
  SignatureRaisesCeiling
  OnlyAnswersLoosen
CHECK_DEADLOCK FALSE
