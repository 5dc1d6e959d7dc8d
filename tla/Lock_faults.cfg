SPECIFICATION Spec
CONSTANTS
  r1 = r1  r2 = r2  r3 = r3  cl = cl  A = A  B = B
  NoOwner = NoOwner  NoClient = NoClient
  Instances = {A, B}
  Clients <- SharedClients
  InstOf <- SharedInst
  OwnerOf <- MCOwnerOf
  Deadlined <- MCDeadlined
  TTLInstances = {A}
  Faults = {"zkerr", "lostreply", "session"}
  MaxInterval = 1
  MaxSeq = 3
INVARIANT AtMostOneLiveHolder
PROPERTY ImplementsTicketLock
CHECK_DEADLOCK FALSE
