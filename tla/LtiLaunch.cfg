CONSTANTS
  l1 = l1
  l2 = l2
  ann = ann
  s1 = s1
  s2 = s2
  u1 = u1
  u2 = u2
  x1 = x1
  x2 = x2
  y1 = y1
  v1 = v1
  v2 = v2
  v3 = v3
  Launch = {l1, l2}
  Person = {ann}
  School = {s1, s2}
  User = {u1, u2}
  PersonOf <- MCPersonOf
  SchoolOf <- MCSchoolOf
  Staff = {l1, l2}
  Post = {x1, x2, y1}
  LaunchOf <- MCLaunchOf
  Visit = {v1, v2, v3}
  TicketOf <- MCTicketOf
  Managed = {s2}
  Disabled = {s1}
  None = None
SPECIFICATION LtiSpec
INVARIANTS
  LtiTypeOK
  OneAccountPerPerson
  TicketOpensOneSession
PROPERTIES
  LaunchKeepsMemberships
  OneTabGetsIn
