CONSTANTS
  k1 = k1
  k2 = k2
  good = good
  better = better
  bad = bad
  Key = {k1, k2}
  Content = {good, better, bad}
  Corrupt = {bad}
  Worker = {w1}
  Nothing = Nothing
  MaxUploads = 3
  MaxFaults = 2
  QuietArchive = TRUE
  MayDeactivate = FALSE
SPECIFICATION FairSpec
INVARIANTS
  TypeOK
  ArchivedIsIngested
PROPERTIES
  UploadIsIngested
