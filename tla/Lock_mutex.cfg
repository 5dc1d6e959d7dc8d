SPECIFICATION FairSpec
CONSTANTS
  r1 = r1  r2 = r2  r3 = r3  cl = cl  A = A  B = B
  NoOwner = NoOwner  NoClient = NoClient
  Instances = {A, B}
  Clients <- CleanerClients
  InstOf <- CleanerInst
  OwnerOf <- MCOwnerOf
  Deadlined <- MCDeadlined
  TTLInstances = {}
  Faults = {"zkerr", "lostreply", "crash"}
  MaxInterval = 1
  MaxSeq = 4
INVARIANT TypeOK
INVARIANT MutualExclusion
INVARIANT HolderIsOwner
PROPERTY UnlockReleasesOwnClaim
PROPERTY UnlockReturns
CHECK_DEADLOCK FALSE
