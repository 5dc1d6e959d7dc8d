SPECIFICATION FairSpec
CONSTANTS
  t = t  r1 = r1  r2 = r2  c1 = c1  b1 = b1  b2 = b2  k1 = k1  k2 = k2
  NoProc = NoProc  NoTags = NoTags  NoMark = NoMark
  Requests = {r1}
  Cleaners = {c1}
  Topics = {t}
  Brokers = {b1, b2}
  Keys = {k1}
  Ops <- MixedOps
  Clusters <- AnyCluster
  External = {b1}
  Locking = TRUE
  Staleness = 0
  MaxRetries = 2
  Faults = {}
  MaxTime = 1
PROPERTY RequestReturns
PROPERTY OverdueSwept
