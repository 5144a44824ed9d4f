SPECIFICATION MCSpec
CONSTANTS
  ana = ana
  beto = beto
  x = x
  y = y
  Accounts = {ana, beto}
  None = None
  MaxSwitches = 2
  MaxReloads = 1
  MaxLookups = 2
  Attempts = {1, 2}
  Amounts = {0, 1, 2}
  Pairs <- PairsV
  Native = "XLM"
  Destinations = {"none", "new", "trusting"}
  MaxQuotes = 2
  MaxSequence = 1
  NewBoxes = {x}
  Relatives = {r}
  Boxes = {x, y}
  Creator <- CreatorV
  Power <- PowerV
  Flows = {1, 2}
  Owners = {beto}
  Wallet = beto
  Donations = {1, 2}
  MaxPolls = 2
  PageSize = 2
  MaxOperations = 4
  MaxFailures = 1
  Rules = {1, 2}
  Calls = {1, 2, 3}
  Period = 1
  MaxDays = 1
INVARIANT TypeOK
INVARIANT QuoteFresh
INVARIANT PaidOnce
INVARIANT BoxesGoverned
INVARIANT FollowUpMatches
INVARIANT MoneySettled
INVARIANT StepperHonest
INVARIANT HistoryContiguous
INVARIANT RulesKept
PROPERTY SessionSettles
PROPERTY BusyEnds
PROPERTY ModeSettles
CHECK_DEADLOCK FALSE
