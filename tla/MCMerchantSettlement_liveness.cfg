\* Every settlement in processing is finished, with replies lost, failures retried, webhooks overtaking commits.
CONSTANTS
  p1 = p1
  p2 = p2
  Payments = {p1}
  GrossOf <- MCGrossOf
  Plans = {"free"}
  Settlements = {s1, s2}
  Amounts = {40}
  Thresholds = {20}
  SETTLEMENT_MIN = 20
  SETTLEMENT_AUTO_APPROVE_CEILING = 50
  SETTLEMENT_MAX = 120
  Hazards = {"retry", "lost_reply", "reversal", "overtaken"}
  MutableGates = {}
  MaxLedger = 4
  KeywordMatches = TRUE
SPECIFICATION FairSpec
PROPERTIES ProcessingEnds
CHECK_DEADLOCK FALSE
