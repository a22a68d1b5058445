SPECIFICATION Spec
CONSTANTS
  u1 = u1
  u2 = u2
  s1 = s1
  s2 = s2
  r1 = r1
  r2 = r2
  Users <- MCUsers
  Sockets <- MCSockets
  Rooms <- MCRooms
  MaxRequests = 2
  NoUser = NoUser
  NoSocket = NoSocket
  NoRoom = NoRoom
SYMMETRY Symmetric
INVARIANTS
  TypeOK
  TrackedAreListed
  GhostsExplained
  StrandedByAnother
CHECK_DEADLOCK FALSE
