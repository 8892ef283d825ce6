\* One loan and everything that can go wrong at once.
CONSTANTS
  Loans = {l1}
  Requests = {r1, r2}
  MaxTransfers = 2
  Instalments = 1
  MAX_COLLECTION_ATTEMPTS = 2
  MaxRetries = 1
  TaskKnown = TRUE
  Hazards = {"admin_approval", "overlap", "lost_reply", "reversal", "crash"}
SPECIFICATION Spec
INVARIANTS TypeOK LentOnce GivenUpLast
SYMMETRY LoanSymmetry
CHECK_DEADLOCK FALSE
