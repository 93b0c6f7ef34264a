CONSTANTS
  r1 = r1
  r2 = r2
  s1 = s1
  s2 = s2
  f1 = f1
  f2 = f2
  f3 = f3
  w1 = w1
  w2 = w2
  NoRun = NoRun
  NoWorker = NoWorker
  Run = {r1, r2}
  School = {s1}
  File = {f1}
  Worker = {w1, w2}
  SchoolOf <- OneSchool
  FileSchool <- FilesOfOne
  FileSubject <- OwnSubject
  FileKind <- AllSubmissions
  Modes = {TRUE}
  LeaseCanLapse = FALSE
  FaultBudget = 2
  MaxAttempts = 2
SYMMETRY WorkerSymmetry
SPECIFICATION Spec
INVARIANTS
  ExclusiveLanding
