CONSTANTS
  c1 = c1
  c2 = c2
  s1 = s1
  NoRun = NoRun
  NoWorker = NoWorker
  W = w
  Worker = {w}
  Run = {r1, r2, r3}
  Scrape = {c1, c2}
  SchoolOf <- SameSchool
  PostAttempts <- FirstRetries
  MaxAttempts = 2
SPECIFICATION Spec
INVARIANTS
  TypeOK
  AcceptedIsLanded
PROPERTIES
  AcceptedIsWorkedOn
CHECK_DEADLOCK FALSE
