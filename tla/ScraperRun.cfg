CONSTANTS
  s1 = s1
  s2 = s2
  a1 = a1
  a2 = a2
  b1 = b1
  acc = acc
  School = {s1, s2}
  Assessment = {a1, a2, b1}
  SchoolOf <- MCSchoolOf
  PageOf <- MCPageOf
  LastPage = 3
  MaxPages = 3
  FileType = {qd, other}
  Wanted = {qd}
  Unsubmitted = {a2}
  Credentials = {acc}
  NoCredentials = NoCredentials
  Concurrency = 2
  Retries = 1
  MaxPolls = 3
  Nothing = Nothing
  RowsMayOutrun = FALSE
  qd = qd
  other = other
SPECIFICATION ScraperSpec
INVARIANTS
  ScraperTypeOK
  DiscoveryIsWhole
  FiledUnderItsAssessment
  GreenIsShipped
PROPERTIES
  BatchEnds
CHECK_DEADLOCK FALSE
