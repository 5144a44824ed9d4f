CONSTANTS
  creator = creator
  ana = ana
  beto = beto
  r1 = r1
  r2 = r2
  e1 = e1
  Wallets = {creator, ana, beto}
  Creator = creator
  InitialSigners <- MCNewSigners
  Med = 1
  High = 2
  Asked <- MCAddAndRemove
  Edited = {}
  AskedRoles = {}
  BodyRoles = {"withdraw"}
  Amounts = {}
  Limits = {1}
  Requests = {r1, r2}
  Envelopes = {e1}
  Faults = {}
  MaxSequence = 2
  MaxFaults = 0
SYMMETRY Symmetric
SPECIFICATION Spec
INVARIANT SnapshotSynced
CHECK_DEADLOCK FALSE
