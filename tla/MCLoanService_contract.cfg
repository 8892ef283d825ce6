\* Two loans, one after the other, when nothing goes wrong but transfers, charges
\* and retries.
CONSTANTS
  Loans = {l1, l2}
  Requests = {r1}
  MaxTransfers = 1
  Instalments = 2
  MAX_COLLECTION_ATTEMPTS = 1
  MaxRetries = 0
  TaskKnown = TRUE
  Hazards = {}
SPECIFICATION FairSpec
INVARIANTS ClosedWhenSettled
PROPERTIES ImplementsContract LoansMoveOn AsksWhatIsOwed
CHECK_DEADLOCK FALSE
