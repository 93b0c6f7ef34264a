CONSTANTS
  u1 = u1
  u2 = u2
  ra = ra
  rb = rb
  rc = rc
  q1 = q1
  q2 = q2
  Role = {ra, rb, rc}
  User = {u1, u2}
  Req = {q1, q2}
  MaxCustom = 3
  ListLimit = 5
  UserRank = 9
  NoRoleRank = 10
  Nobody = Nobody
SYMMETRY RoleSymmetry
SPECIFICATION RoleSpec
INVARIANTS
  RoleTypeOK
  RanksContiguous
  OneSuperAdmin
PROPERTIES
  SeniorsStayFrozen
CHECK_DEADLOCK FALSE
