SPECIFICATION GatewaySpec
CONSTANTS
  u1 = u1
  u2 = u2
  s1 = s1
  s2 = s2
  d1 = d1
  Users <- MCUsers
  Sockets <- MCSockets
  Devices <- MCDevices
  NoUser = NoUser
  NoSocket = NoSocket
  NoDevice = NoDevice
INVARIANTS
  GatewayTypeOK
  AnnouncedReachable
PROPERTIES
  BarredNeverAdmitted
  HandshakeSettles
CHECK_DEADLOCK FALSE
