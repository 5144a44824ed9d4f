CONSTANTS
  c1 = c1
  c2 = c2
  w1 = w1
  w2 = w2
  xlm = xlm
  usdc = usdc
  ShortCodes = {c1, c2}
  Wallets = {w1, w2}
  VaultAddress = VaultAddress
  Assets = {xlm, usdc}
  MaxI128 = 3
  ConstructorArgs <- MCConstructorArgs
  Amounts = {0, 1, 2}
  Goals = {0, 3}
  Initials = {0, 2}
  Funding <- MCFunding
  N = 4
  Credits = {0, 1, 2, 3}
SPECIFICATION MCSpec
INVARIANT TypeOK
INVARIANT Solvent
INVARIANT FundsNeverStuck
INVARIANT LeaderboardConserved
INVARIANT Listed
INVARIANT Ranked
PROPERTY GoalCloses
PROPERTY EscrowSpec
CHECK_DEADLOCK FALSE
