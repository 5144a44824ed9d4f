CONSTANTS
  creator = creator
  ana = ana
  beto = beto
  r1 = r1
  r2 = r2
  e1 = e1
  Wallets = {creator, ana, beto}
  Creator = creator
  InitialSigners <- MCNewSigners
  Med = 1
  High = 2
  Asked <- MCAddAndRemove
  Edited = {ana}
  AskedRoles = {"deposit"}
  BodyRoles = {"withdraw", "admin"}
  Amounts = {}
  Limits = {1}
  Requests = {r1}
  Envelopes = {e1}
  Faults = {"reread"}
  MaxSequence = 3
  MaxFaults = 1
SPECIFICATION Spec
INVARIANT PowerOnlyForMembers
CHECK_DEADLOCK FALSE
