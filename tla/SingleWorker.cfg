CONSTANTS
  r1 = r1
  r2 = r2
  s1 = s1
  s2 = s2
  f1 = f1
  f2 = f2
  f3 = f3
  w1 = w1
  w2 = w2
  NoRun = NoRun
  NoWorker = NoWorker
  Run = {r1, r2}
  School = {s1, s2}
  File = {f1, f2}
  Worker = {w1}
  SchoolOf <- TwoSchools
  FileSchool <- FilesOfTwo
  FileSubject <- OwnSubject
  FileKind <- AllSubmissions
  Modes = {TRUE, FALSE}
  LeaseCanLapse = TRUE
  FaultBudget = 2
  MaxAttempts = 2
SPECIFICATION Spec
INVARIANTS
  TypeOK
  RetryBudget
  NoSubmissionLost
PROPERTIES
  VerdictIsFinal
