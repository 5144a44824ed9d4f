CONSTANTS
  r1 = r1
  r2 = r2
  t1 = t1
  t2 = t2
  t3 = t3
  Requests = {r1}
  Txs = {t1}
  Supplies = {4}
  Withdraws = {}
  Interests = {4}
  MaxAccrued = 4
  MaxSequence = 1
  MaxFailures = 0
  MaxRecorded = 3
SPECIFICATION Spec
INVARIANT InterestReal
CHECK_DEADLOCK FALSE
