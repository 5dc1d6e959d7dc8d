SPECIFICATION FairSpec
CONSTANTS
  r1 = r1  r2 = r2  r3 = r3  cl = cl  A = A  B = B
  NoOwner = NoOwner  NoClient = NoClient
  Instances = {A, B}
  Clients <- CleanerClients
  InstOf <- CleanerInst
  OwnerOf <- MCOwnerOf
  Deadlined <- MCDeadlined
  TTLInstances = {}
  Faults = {"crash"}
  MaxInterval = 2
  MaxSeq = 4
INVARIANT NoLeakedClaim
PROPERTY ClaimGranted
CHECK_DEADLOCK FALSE
