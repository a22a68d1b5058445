SPECIFICATION SessionSpec
CONSTANTS
  u1 = u1
  d2 = d2
  i1 = i1
  i2 = i2
  d1 = d1
  SessionUsers <- MCUsers
  Sessions <- MCSessions
  SessionDevices <- MCDevices
  NoSession = NoSession
SYMMETRY Symmetric
INVARIANTS
  SessionTypeOK
  LostOnlyToRaces
PROPERTIES
  PurgeDeletesSnapshot
CHECK_DEADLOCK FALSE
