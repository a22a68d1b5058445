SPECIFICATION Spec
CONSTANTS
  u1 = u1
  u2 = u2
  u3 = u3
  r1 = r1
  r2 = r2
  p1 = p1
  p2 = p2
  Users <- MCUsers
  Requests <- MCRequests
  Planets <- MCPlanets
  MaxMembers = 1
  NoUser = NoUser
SYMMETRY Symmetric
INVARIANTS
  TypeOK
  OvershootBounded
  OneJoinPerUser
  PlanetMembersAreListed
PROPERTIES
  BannedStaysOut
CHECK_DEADLOCK FALSE
