CONSTANTS
  creator = creator
  ana = ana
  beto = beto
  r1 = r1
  r2 = r2
  e1 = e1
  Wallets = {creator, ana, beto}
  Creator = creator
  InitialSigners <- MCOldSigners
  Med = 1
  High = 2
  Asked <- MCOldAsked
  Edited = {ana}
  AskedRoles = {"deposit"}
  BodyRoles = {"withdraw"}
  Amounts = {}
  Limits = {1}
  Requests = {r1, r2}
  Envelopes = {e1}
  Faults = {"send", "reread", "worker"}
  MaxSequence = 2
  MaxFaults = 1
SYMMETRY Symmetric
SPECIFICATION Spec
INVARIANT SomeoneCanEdit
INVARIANT SnapshotFresh
CHECK_DEADLOCK FALSE
