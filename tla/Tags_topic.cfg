SPECIFICATION Spec
CONSTANTS
  t = t  r1 = r1  r2 = r2  c1 = c1  b1 = b1  b2 = b2  k1 = k1  k2 = k2
  NoProc = NoProc  NoTags = NoTags  NoMark = NoMark
  Requests = {r1, r2}
  Cleaners = {c1}
  Topics = {t}
  Brokers = {b1, b2}
  Keys = {k1, k2}
  Ops <- AllOps
  Clusters <- BrokersUp
  External = {}
  Locking = TRUE
  Staleness = 1
  MaxRetries = 2
  Faults = {"error", "crash"}
  MaxTime = 2
SYMMETRY RequestSymmetry
INVARIANT TypeOK
INVARIANT AckedTagsStored
PROPERTY OtherTagsUnmodified
PROPERTY MarkedTopicIsMissing
