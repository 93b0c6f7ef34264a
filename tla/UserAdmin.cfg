\* Two administrators act on overlapping accounts while users sign in.
SPECIFICATION FairSpec
CONSTANTS
  root = root
  adm = adm
  new = new
  late = late
  Users = {root, adm, new, late}
  Admins = {root, adm}
  Supers = {root}
  Present = {root, adm}
  Requests = {1, 2}
  Lists <- MCLists
  Concurrency = 2
INVARIANTS
  UserAdminTypeOK
  BannedIsSignedOut
  AnswerIsWhole
  ShownIsProvisioned
PROPERTY
  ConsoleIsReleased
CHECK_DEADLOCK FALSE
