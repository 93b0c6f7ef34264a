CONSTANTS
  r1 = r1
  r2 = r2
  s1 = s1
  s2 = s2
  f1 = f1
  f2 = f2
  f3 = f3
  w1 = w1
  w2 = w2
  NoRun = NoRun
  NoWorker = NoWorker
  Run = {r1}
  School = {s1}
  File = {f1}
  Worker = {w1, w2}
  SchoolOf <- OneSchool
  FileSchool <- FilesOfOne
  FileSubject <- OwnSubject
  FileKind <- AllSubmissions
  Modes = {TRUE}
  LeaseCanLapse = TRUE
  FaultBudget = 1
  MaxAttempts = 2
SPECIFICATION FairSpec
INVARIANTS
  RetryBudget
PROPERTIES
  NeverStuckRunning
