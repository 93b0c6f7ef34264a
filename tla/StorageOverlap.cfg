CONSTANTS
  k1 = k1
  k2 = k2
  good = good
  better = better
  bad = bad
  Key = {k1, k2}
  Content = {good, bad}
  Corrupt = {bad}
  Worker = {w1, w2}
  Nothing = Nothing
  MaxUploads = 2
  MaxFaults = 2
  QuietArchive = FALSE
  MayDeactivate = TRUE
SPECIFICATION FairSpec
PROPERTIES
  LivePrefixDrains
