CONSTANTS
  creator = creator
  ana = ana
  beto = beto
  r1 = r1
  r2 = r2
  e1 = e1
  Wallets = {creator, ana, beto}
  Creator = creator
  InitialSigners <- MCNewSigners
  Med = 1
  High = 2
  Asked <- MCAsked
  Edited = {ana, beto}
  AskedRoles = {"deposit", "withdraw"}
  BodyRoles = {"withdraw", "admin"}
  Amounts = {2}
  Limits = {1, 2}
  Requests = {r1}
  Envelopes = {e1}
  Faults = {}
  MaxSequence = 3
  MaxFaults = 0
SPECIFICATION Spec
INVARIANT TypeOK
INVARIANT CreatorCanEdit
INVARIANT PowerOnlyForMembers
PROPERTY LimitHolds
PROPERTY OthersUntouched
CHECK_DEADLOCK FALSE
