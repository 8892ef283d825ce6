\* Everything that can go wrong at once.
CONSTANTS
  rice = rice
  soap = soap
  o1 = o1
  o2 = o2
  o3 = o3
  w1 = w1
  Items = {rice, soap}
  Intents = {o1, o2}
  Walkins = {w1}
  Lines <- MCLines
  InitialStock <- MCInitialStock
  Adjustments = {}
  MaxAdjusted = 0
  Hazards = {"expiry", "abandon", "reversal", "verify_error", "slow_verify", "crash"}
SPECIFICATION Spec
INVARIANTS TypeOK CreditFollowsSale LinkedSaleIsWhole GoodsLeaveOnce
PROPERTIES VoidedStaysVoided
CHECK_DEADLOCK FALSE
