CONSTANTS
  r1 = r1
  r2 = r2
  t1 = t1
  t2 = t2
  t3 = t3
  Requests = {r1, r2}
  Txs = {t1, t2, t3}
  Supplies = {4}
  Withdraws = {4, 6}
  Interests = {4}
  MaxAccrued = 4
  MaxSequence = 1
  MaxFailures = 1
  MaxRecorded = 3
SYMMETRY Symmetric
SPECIFICATION Spec
INVARIANT TypeOK
INVARIANT ValueStillHolds
INVARIANT CapitalTracked
CHECK_DEADLOCK FALSE
