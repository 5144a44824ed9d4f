CONSTANTS
  r1 = r1
  r2 = r2
  t1 = t1
  t2 = t2
  Requests = {r1}
  Txs = {t1}
  Wallet = Wallet
  Others = {other}
  other = other
  DonationKinds = {"rated", "unrated"}
  MaxDonated = 2
  MaxSequence = 2
  MaxFailures = 1
SPECIFICATION Spec
CHECK_DEADLOCK FALSE
INVARIANT ProgressCarried
