SPECIFICATION FairSpec
CONSTANTS
  r1 = r1  r2 = r2  r3 = r3  cl = cl  A = A  B = B
  NoOwner = NoOwner  NoClient = NoClient
  Instances = {A}
  Clients <- PairClients
  InstOf <- PairInst
  OwnerOf <- MCOwnerOf
  Deadlined <- MCDeadlined
  TTLInstances = {A}
  Faults = {"session", "zkerr", "lostreply"}
  MaxInterval = 2
  MaxSeq = 3
PROPERTY LockReturns
CHECK_DEADLOCK FALSE
