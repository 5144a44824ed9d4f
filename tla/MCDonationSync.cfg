CONSTANTS
  r1 = r1
  r2 = r2
  xlm = xlm
  other = other
  donor = donor
  Requests = {r1, r2}
  Operations <- MCOperations
  Wallet = Wallet
  Creator = Creator
  ShortCode = ShortCode
  Assets = {xlm, other}
  Rates <- MCRates
  Goal = 2
  PageSize = 2
  FeedLimit = 2
  MaxHistory = 1
  MaxLedger = 4
  MaxFailures = 1
SPECIFICATION FairSpec
INVARIANT TypeOK
INVARIANT CountedOnce
INVARIANT FeedCounted
PROPERTY ProgressKept
PROPERTY CompletionKept
PROPERTY EventuallySynced
CHECK_DEADLOCK FALSE
