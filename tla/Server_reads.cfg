SPECIFICATION Spec
CONSTANTS
    t1 = t1  t2 = t2  q1 = q1  X = X  Y = Y  g = g  h = h
    NoTopic = NoTopic  NoGroup = NoGroup  Malformed = Malformed
    Requests = {t1, t2, q1}
    Capacity = 1
    Deadline <- MCDeadline
    Topic <- MCTopic
    Group <- MCGroup
    Logs <- MCLogs
    Initial <- MCInitial
    Faulty = {t2}
    MaxFired = 1
INVARIANTS TypeOK BurstBounded SoleTranslationRight
PROPERTY RequestReturns
