\* The webhook dies after its deduplication key is set.
CONSTANTS
  rice = rice
  soap = soap
  o1 = o1
  o2 = o2
  o3 = o3
  w1 = w1
  Items = {rice, soap}
  Intents = {o1, o2}
  Walkins = {}
  Lines <- MCLines
  InitialStock <- MCInitialStock
  Adjustments <- MCDeliveries
  MaxAdjusted = 0
  Hazards = {"crash"}
SPECIFICATION FairSpec
PROPERTIES PaidIsSold
CHECK_DEADLOCK FALSE
