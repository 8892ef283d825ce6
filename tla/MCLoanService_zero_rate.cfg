\* A loan an admin has approved without a lender's price.
CONSTANTS
  Loans = {l1}
  Requests = {r1}
  MaxTransfers = 1
  Instalments = 1
  MAX_COLLECTION_ATTEMPTS = 1
  MaxRetries = 0
  TaskKnown = TRUE
  Hazards = {"admin_approval"}
SPECIFICATION FairSpec
PROPERTIES DisbursementEnds
CHECK_DEADLOCK FALSE
