\* No trouble, but for webhooks that are delivered twice at once.
CONSTANTS
  p1 = p1
  p2 = p2
  Payments = {p1, p2}
  GrossOf <- MCGrossOf
  Plans = {"free", "pro"}
  Settlements = {s1, s2}
  Amounts = {40, 90}
  Thresholds = {20, 60}
  SETTLEMENT_MIN = 20
  SETTLEMENT_AUTO_APPROVE_CEILING = 50
  SETTLEMENT_MAX = 120
  Hazards = {"repeat"}
  MutableGates = {"kyc_verified", "momo_verified", "is_active"}
  MaxLedger = 6
  KeywordMatches = TRUE
SPECIFICATION Spec
INVARIANTS LedgerBacksTransfers NominalInv
PROPERTIES ImplementsWallet
CHECK_DEADLOCK FALSE
