SPECIFICATION Spec
CONSTANTS
  u1 = u1
  u2 = u2
  s1 = s1
  s2 = s2
  s3 = s3
  s4 = s4
  d1 = d1
  d2 = d2
  Users <- MCUsers
  Sockets <- MCSockets
  Devices <- MCDevices
  NoUser = NoUser
  NoSocket = NoSocket
  NoDevice = NoDevice
SYMMETRY Symmetric
INVARIANTS
  TypeOK
  MapsAgree
  LiveOwnsDevice
PROPERTIES
  ClosingUnregisters
  ForceDisconnectComplete
CHECK_DEADLOCK FALSE
