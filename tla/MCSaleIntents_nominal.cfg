\* No trouble, and nobody at the counter.
CONSTANTS
  rice = rice
  soap = soap
  o1 = o1
  o2 = o2
  o3 = o3
  w1 = w1
  Items = {rice, soap}
  Intents = {o1, o2, o3}
  Walkins = {}
  Lines <- MCLines
  InitialStock <- MCInitialStock
  Adjustments <- MCDeliveries
  MaxAdjusted = 1
  Hazards = {}
SPECIFICATION FairSpec
INVARIANTS StockCoversOrders
PROPERTIES PaidIsSold ImplementsShelf
CHECK_DEADLOCK FALSE
