\* Everything that can go wrong at once.
CONSTANTS
  p1 = p1
  p2 = p2
  Payments = {p1}
  GrossOf <- MCGrossOf
  Plans = {"free"}
  Settlements = {s1, s2}
  Amounts = {40, 90}
  Thresholds = {20}
  SETTLEMENT_MIN = 20
  SETTLEMENT_AUTO_APPROVE_CEILING = 50
  SETTLEMENT_MAX = 120
  Hazards = {"force", "retry", "lost_reply", "reversal", "overtaken", "repeat", "crash"}
  MutableGates = {}
  MaxLedger = 4
  KeywordMatches = TRUE
SPECIFICATION Spec
INVARIANTS TypeOK MerchantFundsCovered BookedOnce OneInFlight
 
SYMMETRY SettlementSymmetry
CHECK_DEADLOCK FALSE
