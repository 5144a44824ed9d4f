CONSTANTS
  r1 = r1
  r2 = r2
  t1 = t1
  t2 = t2
  other = other
  Requests = {r1, r2}
  Txs = {t1, t2}
  Wallet = Wallet
  Others = {other}
  DonationKinds = {"rated"}
  MaxDonated = 1
  MaxSequence = 1
  MaxFailures = 1
SPECIFICATION OwnerSpec
INVARIANT TypeOK
INVARIANT FlagTruthful
INVARIANT ProgressCarried
PROPERTY RegistrationReconciled
CHECK_DEADLOCK FALSE
