SPECIFICATION Spec
CONSTANTS
  None = None
  u = u
  v = v
  g1 = g1
  g2 = g2
  g3 = g3
  g4 = g4
  m1 = m1
  f1 = f1
  f2 = f2
  c1 = c1
  c2 = c2
  IndexUids <- ThreeIndexes
  Uids <- MCUids
  GeneratedUids <- Generated
  MasterKeys <- Masters
  Options <- Opts
  DumpKeys <- Dumped
  Clients <- TwoClients
  Calls <- AdminAndUser
  MaxTime = 1
  MaxStarts = 2
INVARIANTS
  StoreSound
  RequestsDecided
  NarrowestRule
  ImportSound
CHECK_DEADLOCK FALSE
