\* The dashboard's start and the school switch, two moves of the user.
SPECIFICATION Spec
CONSTANTS
  a = a
  b = b
  x = x
  g = g
  h = h
  None = None
  Schools <- MCSchools
  Foreign = {x}
  Scopes = {g, h}
  ScopeOf <- MCScopeOf
  MaxMoves = 2
INVARIANT
  DashboardTypeOK
PROPERTIES
  SwitchSettles
  FirstVisitLoads
  RefreshOpens
CHECK_DEADLOCK FALSE
