---------------------------- MODULE ZKLockProofs ----------------------------
(***************************************************************************)
(* Proofs about ZKLock, for any number of clients, instances and claims.   *)
(***************************************************************************)
EXTENDS ZKLock, TLAPS

-----------------------------------------------------------------------------
(***************************************************************************)
(* What the steps do to the claims under the lock path.                    *)
(***************************************************************************)

\* A claim is under the lock path when a session, running or dead, has it.
LEMMA InZnodes ==
  /\ \A z : z \in Znodes <=> z \in ghosts \/ \E i \in Instances : z \in claims[i]
  /\ \A z : z \in Znodes' <=> z \in ghosts' \/ \E i \in Instances : z \in claims'[i]
  BY DEF Znodes

\* The lock path holds sequence numbers.
LEMMA ZnodesType == TypeOK => Znodes \subseteq Nat
  <1> SUFFICES ASSUME TypeOK, NEW z \in Znodes PROVE z \in Nat
    OBVIOUS
  <1> QED
    BY InZnodes DEF TypeOK

\* Deleting a claim removes it from the lock path and nothing else.
LEMMA DeleteZnodes ==
  ASSUME NEW z, deleteLockZnode(z)
  PROVE  Znodes' = Znodes \ {z}
  <1>1. \A y : y \in Znodes' <=> y \in Znodes /\ y # z
    BY InZnodes DEF deleteLockZnode
  <1> QED
    BY <1>1

\* Creating one adds the next sequence number.
LEMMA CreateZnodes ==
  ASSUME TypeOK, NEW c \in Clients, CreateClaim(c)
  PROVE  Znodes' = Znodes \union {nextSeq}
  <1>1. \A y : y \in Znodes' <=> y \in Znodes \/ y = nextSeq
    BY InZnodes, ConstantsAssumption DEF CreateClaim, inst, TypeOK
  <1> QED
    BY <1>1

\* Steps that leave the sessions' claims alone leave the lock path alone.
LEMMA SameZnodes ==
  ASSUME claims' = claims, ghosts' = ghosts
  PROVE  Znodes' = Znodes
  BY DEF Znodes


-----------------------------------------------------------------------------
(***************************************************************************)
(* Type correctness                                                        *)
(***************************************************************************)

\* The type invariant holds initially.
LEMMA InitTypeOK == Init => TypeOK
  BY ConstantsAssumption
  DEF Init, TypeOK, ZnodeIDs, NoZnode, Owners, Locking, Holding, MaxAttempts

\* The types of ZooKeeper's part and of a call's part of the state.
ZKTypes == /\ claims \in [Instances -> SUBSET Nat]
           /\ ghosts \in SUBSET Nat
           /\ nextSeq \in Nat
           /\ expired \in SUBSET Nat

CallTypes == /\ pc \in [Clients -> {"idle"} \union Locking \union Holding]
             /\ thisID \in [Clients -> ZnodeIDs]
             /\ lockAhead \in [Clients -> ZnodeIDs]
             /\ interval \in [Clients -> 0 .. (MaxInterval + 1)]
             /\ lockWaitingErr \in [Clients -> BOOLEAN]
             /\ attempt \in [Clients -> 0 .. (MaxAttempts - 1)]

\* Deleting a claim, and returning from a call, preserve the types.
LEMMA DeleteTypes ==
  ASSUME TypeOK, NEW z, deleteLockZnode(z)
  PROVE  ZKTypes'
  BY DEF TypeOK, ZKTypes, deleteLockZnode

\* A delete that reports an error removed nothing or, its reply lost, the claim.
LEMMA DeleteFailsTypes ==
  ASSUME TypeOK, NEW z, deleteFails(z)
  PROVE  /\ ZKTypes'
         /\ UNCHANGED <<nextSeq, expired>>
         /\ Znodes' = Znodes \/ Znodes' = Znodes \ {z}
         /\ \A i \in Instances : claims[i] \ {z} \subseteq claims'[i]
  <1>1. CASE UNCHANGED zkVars
    BY <1>1, SameZnodes DEF TypeOK, ZKTypes, zkVars
  <1>2. CASE deleteLockZnode(z)
    BY <1>2, DeleteTypes, DeleteZnodes DEF deleteLockZnode
  <1> QED
    BY <1>1, <1>2 DEF deleteFails

\* A call that returns leaves its caller well typed.
LEMMA ReturnTypes ==
  ASSUME TypeOK, NEW c \in Clients, Return(c)
  PROVE  CallTypes'
  BY ConstantsAssumption
  DEF TypeOK, CallTypes, Return, Goto, Locking, Holding, ZnodeIDs, NoZnode, MaxAttempts

\* Every step of Lock, Unlock and the environment preserves the types.
LEMMA NextTypeOK == TypeOK /\ [Next]_vars => TypeOK'
  <1> SUFFICES ASSUME TypeOK, [Next]_vars PROVE TypeOK'
    OBVIOUS
  <1> USE ConstantsAssumption, ZnodesType DEF TypeOK, ZnodeIDs, NoZnode, Owners, MaxAttempts,
        Locking, Holding, zkVars, instVars, callVars, inst, At, Goto
  <1>1. ASSUME NEW c \in Clients, LockStart(c) PROVE TypeOK'
    BY <1>1 DEF LockStart
  <1>2. ASSUME NEW c \in Clients, Create(c) PROVE TypeOK'
    BY <1>2 DEF Create, CreateClaim
  <1>3. ASSUME NEW c \in Clients, CreateFails(c) PROVE TypeOK'
    <2>1. CASE UNCHANGED zkVars
      BY <1>3, <2>1 DEF CreateFails, Return
    <2>2. CASE CreateClaim(c)
      BY <1>3, <2>2 DEF CreateFails, CreateClaim, Return
    <2> QED
      BY <1>3, <2>1, <2>2 DEF CreateFails
  <1>4. ASSUME NEW c \in Clients, GiveUp(c) PROVE TypeOK'
    BY <1>4 DEF GiveUp
  <1>5. ASSUME NEW c \in Clients, List(c) PROVE TypeOK'
    BY <1>5 DEF List, LockAhead, LockPath, NextInterval
  <1>6. ASSUME NEW c \in Clients, ListFails(c) PROVE TypeOK'
    BY <1>6 DEF ListFails
  <1>7. ASSUME NEW c \in Clients, Grant(c) PROVE TypeOK'
    BY <1>7 DEF Grant
  <1>8. ASSUME NEW c \in Clients, ExpireCheck(c) PROVE TypeOK'
    BY <1>8 DEF ExpireCheck
  <1>9. ASSUME NEW c \in Clients, ExpireCheckFails(c) PROVE TypeOK'
    BY <1>9 DEF ExpireCheckFails, Retry
  <1>10. ASSUME NEW c \in Clients, Purge(c) PROVE TypeOK'
    BY <1>10 DEF Purge, deleteLockZnode
  <1>11. ASSUME NEW c \in Clients, PurgeFails(c) PROVE TypeOK'
    BY <1>11, DeleteFailsTypes DEF PurgeFails, Retry, ZKTypes
  <1>12. ASSUME NEW c \in Clients, Clear(c) PROVE TypeOK'
    BY <1>12 DEF Clear
  <1>13. ASSUME NEW c \in Clients, Watch(c) PROVE TypeOK'
    BY <1>13 DEF Watch
  <1>14. ASSUME NEW c \in Clients, WatchFails(c) PROVE TypeOK'
    BY <1>14 DEF WatchFails, Retry
  <1>15. ASSUME NEW c \in Clients, Wake(c) PROVE TypeOK'
    BY <1>15 DEF Wake
  <1>16. ASSUME NEW c \in Clients, TimeOut(c) PROVE TypeOK'
    BY <1>16 DEF TimeOut
  <1>17. ASSUME NEW c \in Clients, Remove(c) PROVE TypeOK'
    <2>1. CASE deleteLockZnode(thisID[c])
      BY <1>17, <2>1, DeleteTypes, ReturnTypes DEF Remove, ZKTypes, CallTypes
    <2>2. CASE deleteFails(thisID[c])
      BY <1>17, <2>2, DeleteFailsTypes, ReturnTypes DEF Remove, ZKTypes, CallTypes
    <2> QED
      BY <1>17, <2>1, <2>2 DEF Remove
  <1>18. ASSUME NEW c \in Clients, UnlockStart(c) PROVE TypeOK'
    BY <1>18 DEF UnlockStart
  <1>19. ASSUME NEW c \in Clients, NotOwner(c) PROVE TypeOK'
    BY <1>19 DEF NotOwner, Return
  <1>20. ASSUME NEW c \in Clients, UnlockMu(c) PROVE TypeOK'
    BY <1>20 DEF UnlockMu
  <1>21. ASSUME NEW c \in Clients, UnlockDelete(c) PROVE TypeOK'
    BY <1>21, DeleteTypes, ReturnTypes DEF UnlockDelete, ZKTypes, CallTypes
  <1>22. ASSUME NEW c \in Clients, UnlockDeleteFails(c) PROVE TypeOK'
    <2>0. ZKTypes'
      BY <1>22, DeleteFailsTypes DEF UnlockDeleteFails
    <2>1. CASE attempt[c] + 1 < MaxAttempts
      BY <1>22, <2>0, <2>1 DEF UnlockDeleteFails, MaxAttempts, ZKTypes
    <2>2. CASE ~(attempt[c] + 1 < MaxAttempts)
      <3>1. /\ mu' = [mu EXCEPT ![inst(c)] = NoClient]
            /\ Return(c)
            /\ UNCHANGED <<lockZnode, owner>>
        BY <1>22, <2>2 DEF UnlockDeleteFails
      <3> QED
        BY <2>0, <3>1, ReturnTypes DEF ZKTypes, CallTypes
    <2> QED
      BY <2>1, <2>2
  <1>23. ASSUME NEW i \in Instances, SessionExpire(i) PROVE TypeOK'
    BY <1>23 DEF SessionExpire, Peers
  <1>24. ASSUME NEW i \in Instances, Crash(i) PROVE TypeOK'
    <2>1. ZKTypes' /\ UNCHANGED <<nextSeq, expired>>
      BY <1>24 DEF Crash, ZKTypes
    <2>2. CallTypes'
      <3>1. /\ pc' \in [Clients -> {"idle"} \union Locking \union Holding]
            /\ thisID' \in [Clients -> ZnodeIDs]
            /\ lockAhead' \in [Clients -> ZnodeIDs]
        BY <1>24 DEF Crash
      <3>2. interval' \in [Clients -> 0 .. (MaxInterval + 1)]
        BY <1>24 DEF Crash
      <3>3. lockWaitingErr' \in [Clients -> BOOLEAN]
        BY <1>24 DEF Crash
      <3>4. attempt' \in [Clients -> 0 .. (MaxAttempts - 1)]
        BY <1>24 DEF Crash
      <3> QED
        BY <3>1, <3>2, <3>3, <3>4 DEF CallTypes
    <2> QED
      BY <1>24, <2>1, <2>2 DEF Crash, ZKTypes, CallTypes
  <1>25. CASE TTLPass
    BY <1>25 DEF TTLPass
  <1>26. CASE GhostsExpire
    BY <1>26 DEF GhostsExpire
  <1>27. CASE UNCHANGED vars
    BY <1>27 DEF vars
  <1> QED
    BY <1>1, <1>2, <1>3, <1>4, <1>5, <1>6, <1>7, <1>8, <1>9, <1>10, <1>11, <1>12, <1>13, <1>14, <1>15, <1>16, <1>17, <1>18, <1>19, <1>20, <1>21, <1>22, <1>23, <1>24, <1>25, <1>26, <1>27
    DEF Next, LockStep, UnlockStep

\* Every reachable state is well typed.
THEOREM TypeCorrect == Spec => []TypeOK
  BY InitTypeOK, NextTypeOK, PTL DEF Spec

-----------------------------------------------------------------------------
(***************************************************************************)
(* The lock invariant.  A step either moves one call between places where  *)
(* it has a claim number, or returns from a call, or creates a claim; the  *)
(* lock path only shrinks otherwise.                                       *)
(***************************************************************************)

\* A call that keeps its claim number moves from one place to the next.
LEMMA MovePreserves ==
  ASSUME LockInv, TypeOK', NEW c \in Clients, NEW l,
         HasID(c), l \notin {"idle", "create"},
         pc' = [pc EXCEPT ![c] = l], thisID' = thisID, nextSeq' = nextSeq,
         Znodes' \subseteq Znodes,
         l \in Holding \union {"grant"} =>
           pc[c] \in Holding \union {"grant"} \/ IsFirst(Znodes, thisID[c])
  PROVE  LockInv'
  <1> USE DEF LockInv, Holds, At, HasID
  <1>1. IDsFresh'
    BY DEF IDsFresh, TypeOK
  <1>2. ASSUME NEW d \in Clients, (Holds(d) \/ At(d, "grant"))',
               NEW z \in Znodes'
        PROVE  thisID'[d] <= z
    <2>1. z \in Znodes /\ z \in Nat
      BY ZnodesType
    <2>2. CASE d = c /\ IsFirst(Znodes, thisID[c])
      BY <2>1, <2>2 DEF IsFirst
    <2>3. CASE Holds(d) \/ At(d, "grant")
      BY <2>1, <2>3 DEF NothingAhead
    <2> QED
      BY <1>2, <2>2, <2>3 DEF TypeOK
  <1> QED
    BY <1>1, <1>2 DEF NothingAhead

\* A call returns.
LEMMA ReturnPreserves ==
  ASSUME LockInv, TypeOK', NEW c \in Clients, Return(c),
         \/ nextSeq' = nextSeq /\ Znodes' \subseteq Znodes
         \/ nextSeq' = nextSeq + 1 /\ Znodes' = Znodes \union {nextSeq}
  PROVE  LockInv'
  <1> USE DEF LockInv, Holds, At, HasID, Return, Goto
  <1>0. Znodes \subseteq Nat /\ nextSeq \in Nat /\ nextSeq' >= nextSeq
    BY ZnodesType DEF TypeOK
  <1>1. \A d \in Clients : thisID[d] \in Int /\ thisID[d] < nextSeq
    BY DEF TypeOK, ZnodeIDs, NoZnode, IDsFresh
  <1>2. /\ thisID'[c] = NoZnode /\ pc'[c] = "idle"
        /\ \A d \in Clients \ {c} : thisID'[d] = thisID[d] /\ pc'[d] = pc[d]
    BY DEF TypeOK
  <1>3. \A z \in Znodes' : z \in Nat /\ z < nextSeq' /\ (z \in Znodes \/ z = nextSeq)
    <2>1. \A z \in Znodes : z \in Nat /\ z < nextSeq
      BY <1>0 DEF IDsFresh
    <2>2. CASE nextSeq' = nextSeq /\ Znodes' \subseteq Znodes
      BY <2>1, <2>2
    <2>3. CASE nextSeq' = nextSeq + 1 /\ Znodes' = Znodes \union {nextSeq}
      BY <1>0, <2>1, <2>3
    <2> QED
      BY <2>2, <2>3
  <1> HIDE DEF Return
  <1>4. IDsFresh'
    BY <1>0, <1>1, <1>2, <1>3 DEF IDsFresh, NoZnode
  <1>5. NothingAhead'
    BY <1>0, <1>1, <1>2, <1>3 DEF NothingAhead, Holding
  <1> QED
    BY <1>4, <1>5

\* A claim is created.
LEMMA CreatePreserves ==
  ASSUME LockInv, TypeOK', NEW c \in Clients, Create(c)
  PROVE  LockInv'
  <1> USE DEF LockInv, Holds, At, HasID, Goto
  <1>0. Znodes \subseteq Nat /\ nextSeq \in Nat /\ nextSeq' = nextSeq + 1
    BY ZnodesType DEF TypeOK, Create, CreateClaim
  <1>1. \A d \in Clients : thisID[d] \in Int /\ thisID[d] < nextSeq
    BY DEF TypeOK, ZnodeIDs, NoZnode, IDsFresh
  <1>2. Znodes' = Znodes \union {nextSeq}
    BY CreateZnodes DEF Create
  <1>3. /\ thisID'[c] = nextSeq /\ pc'[c] = "list"
        /\ \A d \in Clients \ {c} : thisID'[d] = thisID[d] /\ pc'[d] = pc[d]
    BY DEF TypeOK, Create
  <1>4. IDsFresh'
    BY <1>0, <1>1, <1>2, <1>3 DEF IDsFresh, NoZnode
  <1>5. NothingAhead'
    BY <1>0, <1>1, <1>2, <1>3 DEF NothingAhead, Holding
  <1> QED
    BY <1>4, <1>5

\* The lock path shrinks, and some calls are moved off the lock.
LEMMA LossPreserves ==
  ASSUME LockInv, TypeOK', nextSeq' = nextSeq, Znodes' \subseteq Znodes,
         \A c \in Clients :
           \/ pc'[c] = pc[c] /\ thisID'[c] = thisID[c]
           \/ pc[c] = "wait" /\ pc'[c] = "list" /\ thisID'[c] = thisID[c]
           \/ pc'[c] = "idle" /\ thisID'[c] = NoZnode
  PROVE  LockInv'
  <1> USE DEF LockInv, Holds, At, HasID
  <1>0. Znodes \subseteq Nat /\ nextSeq \in Nat
    BY ZnodesType DEF TypeOK
  <1>1. \A d \in Clients : thisID[d] \in Int
    BY DEF TypeOK, ZnodeIDs, NoZnode
  <1>2. IDsFresh'
    BY <1>0, <1>1 DEF IDsFresh, NoZnode
  <1>3. NothingAhead'
    BY <1>0, <1>1 DEF NothingAhead, Holding
  <1> QED
    BY <1>2, <1>3

\* The lock invariant holds initially.
LEMMA InitLockInv == Init => LockInv
  <1> SUFFICES ASSUME Init PROVE LockInv
    OBVIOUS
  <1>1. Znodes = {}
    BY InZnodes DEF Init
  <1> QED
    BY <1>1, InitTypeOK
    DEF Init, LockInv, IDsFresh, NothingAhead, HasID, Holds, At, Holding, NoZnode

\* Every step preserves it.
LEMMA NextLockInv == LockInv /\ [Next]_vars => LockInv'
  <1> SUFFICES ASSUME LockInv, [Next]_vars PROVE LockInv'
    OBVIOUS
  <1>0. TypeOK /\ TypeOK'
    BY NextTypeOK DEF LockInv
  <1> USE <1>0 DEF zkVars, instVars, callVars, At, Goto, HasID, Holding
  <1>1. ASSUME NEW c \in Clients, LockStart(c) PROVE LockInv'
    BY <1>1, SameZnodes DEF LockStart, LockInv, IDsFresh, NothingAhead, Holds, TypeOK
  <1>2. ASSUME NEW c \in Clients, Create(c) PROVE LockInv'
    BY <1>2, CreatePreserves
  <1>3. ASSUME NEW c \in Clients, CreateFails(c) PROVE LockInv'
    <2>1. CASE UNCHANGED zkVars
      BY <1>3, <2>1, SameZnodes, ReturnPreserves DEF CreateFails
    <2>2. CASE CreateClaim(c)
      BY <1>3, <2>2, CreateZnodes, ReturnPreserves DEF CreateFails, CreateClaim
    <2> QED
      BY <1>3, <2>1, <2>2 DEF CreateFails
  <1>4. ASSUME NEW c \in Clients, GiveUp(c) PROVE LockInv'
    BY <1>4, SameZnodes, MovePreserves DEF GiveUp
  <1>5. ASSUME NEW c \in Clients, ListFails(c) PROVE LockInv'
    BY <1>5, SameZnodes, MovePreserves DEF ListFails
  <1>6. ASSUME NEW c \in Clients, Grant(c) PROVE LockInv'
    BY <1>6, SameZnodes, MovePreserves DEF Grant
  <1>7. ASSUME NEW c \in Clients, ExpireCheckFails(c) PROVE LockInv'
    BY <1>7, SameZnodes, MovePreserves DEF ExpireCheckFails, Retry
  <1>8. ASSUME NEW c \in Clients, Clear(c) PROVE LockInv'
    BY <1>8, SameZnodes, MovePreserves DEF Clear
  <1>9. ASSUME NEW c \in Clients, Watch(c) PROVE LockInv'
    BY <1>9, SameZnodes, MovePreserves DEF Watch
  <1>10. ASSUME NEW c \in Clients, WatchFails(c) PROVE LockInv'
    BY <1>10, SameZnodes, MovePreserves DEF WatchFails, Retry
  <1>11. ASSUME NEW c \in Clients, Wake(c) PROVE LockInv'
    BY <1>11, SameZnodes, MovePreserves DEF Wake
  <1>12. ASSUME NEW c \in Clients, TimeOut(c) PROVE LockInv'
    BY <1>12, SameZnodes, MovePreserves DEF TimeOut
  <1>13. ASSUME NEW c \in Clients, UnlockStart(c) PROVE LockInv'
    BY <1>13, SameZnodes, MovePreserves DEF UnlockStart
  <1>14. ASSUME NEW c \in Clients, UnlockMu(c) PROVE LockInv'
    BY <1>14, SameZnodes, MovePreserves DEF UnlockMu
  <1>15. ASSUME NEW c \in Clients, PurgeFails(c) PROVE LockInv'
    BY <1>15, DeleteFailsTypes, MovePreserves DEF PurgeFails, Retry
  <1>16. ASSUME NEW c \in Clients, ExpireCheck(c) PROVE LockInv'
    BY <1>16, SameZnodes, MovePreserves DEF ExpireCheck
  <1>17. ASSUME NEW c \in Clients, List(c) PROVE LockInv'
    <2>1. CASE pc' = [pc EXCEPT ![c] = "grant"] /\ IsFirst(Znodes, thisID[c])
      BY <1>17, <2>1, SameZnodes, MovePreserves DEF List
    <2>2. CASE \E l \in {"expire", "watch"} : pc' = [pc EXCEPT ![c] = l]
      BY <1>17, <2>2, SameZnodes, MovePreserves DEF List
    <2> QED
      BY <1>17, <2>1, <2>2 DEF List
  <1>18. ASSUME NEW c \in Clients, Purge(c) PROVE LockInv'
    BY <1>18, DeleteZnodes, MovePreserves DEF Purge, deleteLockZnode
  <1>19. ASSUME NEW c \in Clients, Remove(c) PROVE LockInv'
    <2>1. CASE deleteLockZnode(thisID[c])
      BY <1>19, <2>1, DeleteZnodes, ReturnPreserves DEF Remove, deleteLockZnode
    <2>2. CASE deleteFails(thisID[c])
      BY <1>19, <2>2, DeleteFailsTypes, ReturnPreserves DEF Remove
    <2> QED
      BY <1>19, <2>1, <2>2 DEF Remove
  <1>20. ASSUME NEW c \in Clients, NotOwner(c) PROVE LockInv'
    BY <1>20, SameZnodes, ReturnPreserves DEF NotOwner
  <1>21. ASSUME NEW c \in Clients, UnlockDelete(c) PROVE LockInv'
    BY <1>21, DeleteZnodes, ReturnPreserves DEF UnlockDelete, deleteLockZnode
  <1>22. ASSUME NEW c \in Clients, UnlockDeleteFails(c) PROVE LockInv'
    <2>0. nextSeq' = nextSeq /\ Znodes' \subseteq Znodes
      BY <1>22, DeleteFailsTypes DEF UnlockDeleteFails
    <2>1. CASE UNCHANGED <<pc, thisID>>
      BY <2>0, <2>1, LossPreserves
    <2>2. CASE Return(c)
      BY <2>0, <2>2, ReturnPreserves
    <2> QED
      BY <1>22, <2>1, <2>2 DEF UnlockDeleteFails
  <1>23. ASSUME NEW i \in Instances, SessionExpire(i) PROVE LockInv'
    <2>1. Znodes' \subseteq Znodes
      BY <1>23, InZnodes DEF SessionExpire, TypeOK
    <2> QED
      BY <1>23, <2>1, LossPreserves DEF SessionExpire, TypeOK
  <1>24. ASSUME NEW i \in Instances, Crash(i) PROVE LockInv'
    <2>1. Znodes' \subseteq Znodes
      BY <1>24, InZnodes DEF Crash, TypeOK
    <2> QED
      BY <1>24, <2>1, LossPreserves DEF Crash, TypeOK
  <1>25. CASE TTLPass
    BY <1>25, SameZnodes, LossPreserves DEF TTLPass
  <1>26. CASE GhostsExpire
    <2>1. Znodes' \subseteq Znodes
      BY <1>26, InZnodes DEF GhostsExpire
    <2> QED
      BY <1>26, <2>1, LossPreserves DEF GhostsExpire
  <1>27. CASE UNCHANGED vars
    BY <1>27, SameZnodes, LossPreserves DEF vars
  <1> QED
    BY <1>1, <1>2, <1>3, <1>4, <1>5, <1>6, <1>7, <1>8, <1>9, <1>10, <1>11, <1>12, <1>13, <1>14, <1>15, <1>16, <1>17, <1>18, <1>19, <1>20, <1>21, <1>22, <1>23, <1>24, <1>25, <1>26, <1>27
    DEF Next, LockStep, UnlockStep

\* The lock invariant, and with it the central safety property: at most one of
\* the callers that Lock returned nil to has a live claim.
THEOREM LockInvariant == Spec => []LockInv
  BY InitLockInv, NextLockInv, PTL DEF Spec

\* Two holders with live claims each have nothing ahead of them, so they have
\* the same claim number and are the same caller.
LEMMA LockInvOneHolder == LockInv => AtMostOneLiveHolder
  <1> SUFFICES ASSUME LockInv, NEW c \in Clients, NEW d \in Clients,
                      HoldsLive(c), HoldsLive(d)
               PROVE  c = d
    BY DEF AtMostOneLiveHolder
  <1>1. thisID[c] <= thisID[d] /\ thisID[d] <= thisID[c]
    BY DEF LockInv, NothingAhead, HoldsLive
  <1>2. thisID[c] = thisID[d]
    BY <1>1, ZnodesType DEF LockInv, HoldsLive
  <1> QED
    BY <1>2 DEF LockInv, IDsFresh, HasID, HoldsLive, Holds, Holding

\* In every reachable state, whatever TTL purges, session losses, crashes and
\* failing requests happened, at most one holder has a live claim.
THEOREM OneLiveHolder == Spec => []AtMostOneLiveHolder
  BY LockInvariant, LockInvOneHolder, PTL

-----------------------------------------------------------------------------
(***************************************************************************)
(* Mutual exclusion where nothing preempts a running holder.  The claims   *)
(* of all running calls are then live until their Unlock has deleted them, *)
(* so the user of the lock is unique, and the fields of its instance are   *)
(* its own: an Unlock that has deleted its claim and does not know it has  *)
(* mu, so that no caller of its instance lists or is granted meanwhile.  A *)
(* crash ends the calls of its process and leaves its claims as ghosts.    *)
(***************************************************************************)

\* A claim that its Unlock has not deleted is under the lock path.
LEMMA KeptIsLive ==
  ASSUME ClaimsKept, NEW c \in Clients, HasID(c), ~Released(c)
  PROVE  thisID[c] \in Znodes
  BY InZnodes, ConstantsAssumption DEF ClaimsKept, inst

\* Of the calls with a live claim, only one can be first.
LEMMA FirstUnique ==
  ASSUME LockInv, ClaimsKept, NEW c \in Clients, NEW d \in Clients,
         Holds(c) \/ At(c, "grant"), Holds(d) \/ At(d, "grant"),
         ~Released(c), ~Released(d)
  PROVE  c = d
  <1>0. HasID(c) /\ HasID(d)
    BY DEF HasID, Holds, Holding, At
  <1>1. thisID[c] \in Znodes /\ thisID[d] \in Znodes
    BY <1>0, KeptIsLive
  <1>2. thisID[c] <= thisID[d] /\ thisID[d] <= thisID[c]
    BY <1>1 DEF LockInv, NothingAhead
  <1>3. thisID[c] = thisID[d]
    BY <1>1, <1>2, ZnodesType DEF LockInv
  <1> QED
    BY <1>0, <1>3 DEF LockInv, IDsFresh

\* When a call with a live claim is first and its instance's mu is not another
\* call's, nobody else on its instance holds the lock or is about to.
LEMMA FirstOnInstance ==
  ASSUME LockInv, ClaimsKept, NEW c \in Clients, NEW d \in Clients,
         Holds(c) \/ At(c, "grant"), Holds(d) \/ At(d, "grant"),
         ~Released(c), inst(c) = inst(d), mu[inst(c)] \in {c, NoClient}
  PROVE  c = d
  <1>1. CASE Released(d)
    BY <1>1, ConstantsAssumption DEF Released, ClaimsKept
  <1>2. CASE ~Released(d)
    BY <1>2, FirstUnique
  <1> QED
    BY <1>1, <1>2

\* Initially nobody has a claim.
LEMMA InitClaimsKept == Init => ClaimsKept
  BY DEF Init, ClaimsKept, HasID, Holds, Holding, At

\* The next sequence number is nobody's claim yet.
LEMMA FreshID ==
  ASSUME LockInv
  PROVE  \A c \in Clients : thisID[c] # nextSeq
  <1>1. \A d \in Clients : thisID[d] < nextSeq /\ thisID[d] \in Int /\ nextSeq \in Int
    BY DEF LockInv, IDsFresh, TypeOK, ZnodeIDs, NoZnode
  <1> QED
    BY <1>1

\* A call that keeps its claim, and does not enter or leave the lock, moves on.
LEMMA MoveKeeps ==
  ASSUME LockInv, ClaimsKept, NEW c \in Clients, NEW l,
         HasID(c), ~Holds(c), ~At(c, "grant"),
         l \in {"list", "watch", "wait", "remove"},
         pc' = [pc EXCEPT ![c] = l], thisID' = thisID,
         \A d \in Clients \ {c} : lockAhead'[d] = lockAhead[d],
         UNCHANGED <<claims, ghosts, lockZnode, owner, mu>>
  PROVE  ClaimsKept'
  BY SameZnodes
  DEF LockInv, TypeOK, ClaimsKept, Released, HasID, Holds, Holding, At, inst

\* A call returns, its claim deleted or not and mu given back if it had it.
LEMMA ReturnKeeps ==
  ASSUME LockInv, ClaimsKept, NEW c \in Clients, Return(c),
         \A i \in Instances : claims[i] \ {thisID[c]} \subseteq claims'[i],
         Znodes' \subseteq Znodes \union {nextSeq},
         UNCHANGED <<lockZnode, owner>>,
         \/ mu' = mu
         \/ mu[inst(c)] = c /\ mu' = [mu EXCEPT ![inst(c)] = NoClient]
  PROVE  ClaimsKept'
  <1>1. /\ pc'[c] = "idle"
        /\ \A d \in Clients \ {c} : /\ pc'[d] = pc[d]
                                    /\ thisID'[d] = thisID[d]
                                    /\ lockAhead'[d] = lockAhead[d]
    BY DEF Return, Goto, LockInv, TypeOK
  <1>2. \A d \in Clients \ {c} : HasID(d) => thisID[d] # thisID[c]
    BY DEF LockInv, IDsFresh
  <1>3. \A d \in Clients : Released(d) /\ d # c => Released(d)'
    BY <1>1, FreshID DEF Released, At
  <1>4. \A d \in Clients \ {c} : At(d, "delete") => mu'[inst(d)] = d
    BY ConstantsAssumption DEF ClaimsKept, LockInv, TypeOK, inst
  <1> QED
    BY <1>1, <1>2, <1>3, <1>4, ConstantsAssumption
    DEF ClaimsKept, HasID, Holds, Holding, At, inst

\* Every step keeps the claims of the running calls, where nothing preempts.
LEMMA NextClaimsKept ==
  ASSUME NoPreemption, LockInv, ClaimsKept, [Next]_vars
  PROVE  ClaimsKept'
  <1> USE DEF zkVars, instVars, callVars, At, Goto, HasID, Holds, Holding
  <1>0. TypeOK
    BY DEF LockInv
  <1>1. ASSUME NEW c \in Clients, LockStart(c) PROVE ClaimsKept'
    BY <1>1, <1>0, SameZnodes DEF LockStart, ClaimsKept, Released, TypeOK, inst
  <1>2. ASSUME NEW c \in Clients, Create(c) PROVE ClaimsKept'
    <2>1. Znodes' = Znodes \union {nextSeq}
      BY <1>2, <1>0, CreateZnodes DEF Create
    <2>2. \A d \in Clients : Released(d) => Released(d)'
      BY <1>2, <1>0, <2>1, FreshID DEF Released, Create, TypeOK
    <2> QED
      BY <1>2, <1>0, <2>2, ConstantsAssumption
      DEF Create, CreateClaim, ClaimsKept, TypeOK, inst
  <1>3. ASSUME NEW c \in Clients, CreateFails(c) PROVE ClaimsKept'
    <2>1. \A i \in Instances : claims[i] \subseteq claims'[i]
      BY <1>3, <1>0 DEF CreateFails, CreateClaim, TypeOK
    <2>2. Znodes' \subseteq Znodes \union {nextSeq}
      BY <1>3, <1>0, SameZnodes, CreateZnodes DEF CreateFails
    <2> QED
      BY <1>3, <2>1, <2>2, ReturnKeeps DEF CreateFails
  <1>4. ASSUME NEW c \in Clients, GiveUp(c) PROVE ClaimsKept'
    BY <1>4, MoveKeeps DEF GiveUp
  <1>5. ASSUME NEW c \in Clients, ListFails(c) PROVE ClaimsKept'
    BY <1>5, MoveKeeps DEF ListFails
  <1>6. ASSUME NEW c \in Clients, WatchFails(c) PROVE ClaimsKept'
    BY <1>6, MoveKeeps DEF WatchFails, Retry
  <1>7. ASSUME NEW c \in Clients, Watch(c) PROVE ClaimsKept'
    BY <1>7, MoveKeeps DEF Watch
  <1>8. ASSUME NEW c \in Clients, Wake(c) PROVE ClaimsKept'
    BY <1>8, MoveKeeps DEF Wake
  <1>9. ASSUME NEW c \in Clients, TimeOut(c) PROVE ClaimsKept'
    BY <1>9, MoveKeeps DEF TimeOut
  <1>10. ASSUME NEW c \in Clients, List(c) PROVE ClaimsKept'
    <2>1. CASE IsFirst(Znodes, thisID[c])
      <3>1. thisID[c] \in Znodes
        BY <1>10, KeptIsLive DEF List, Released
      <3> QED
        BY <1>10, <1>0, <2>1, <3>1, SameZnodes
        DEF List, ClaimsKept, Released, TypeOK, LockPath, inst
    <2>2. CASE ~IsFirst(Znodes, thisID[c])
      <3>1. pc' = [pc EXCEPT ![c] = "watch"]
        BY <1>10, <2>2 DEF List, NoPreemption
      <3> QED
        BY <1>10, <1>0, <2>2, <3>1, MoveKeeps DEF List, TypeOK
    <2> QED
      BY <2>1, <2>2
  <1>11. ASSUME NEW c \in Clients, Grant(c) PROVE ClaimsKept'
    <2>1. \A d \in Clients \ {c} : Holds(d) \/ At(d, "grant") => inst(d) # inst(c)
      BY <1>11, FirstOnInstance DEF Grant, MuFree, Released
    <2> QED
      BY <1>11, <1>0, <2>1, SameZnodes, ConstantsAssumption
      DEF Grant, ClaimsKept, Released, TypeOK, inst
  <1>12. ASSUME NEW c \in Clients, Remove(c) PROVE ClaimsKept'
    <2>1. \A i \in Instances : claims[i] \ {thisID[c]} \subseteq claims'[i]
      BY <1>12, <1>0, DeleteFailsTypes DEF Remove, deleteLockZnode
    <2>2. Znodes' \subseteq Znodes
      BY <1>12, <1>0, DeleteFailsTypes, DeleteZnodes DEF Remove
    <2> QED
      BY <1>12, <2>1, <2>2, ReturnKeeps DEF Remove
  <1>13. ASSUME NEW c \in Clients, UnlockStart(c) PROVE ClaimsKept'
    BY <1>13, <1>0, SameZnodes DEF UnlockStart, ClaimsKept, Released, TypeOK, inst
  <1>14. ASSUME NEW c \in Clients, UnlockMu(c) PROVE ClaimsKept'
    <2>1. \A d \in Clients : At(d, "delete") => inst(d) # inst(c)
      BY <1>14, ConstantsAssumption DEF UnlockMu, MuFree, ClaimsKept
    <2> QED
      BY <1>14, <1>0, <2>1, SameZnodes, ConstantsAssumption
      DEF UnlockMu, ClaimsKept, Released, TypeOK, inst
  <1>15. ASSUME NEW c \in Clients, NotOwner(c) PROVE ClaimsKept'
    BY <1>15, SameZnodes, ReturnKeeps DEF NotOwner
  <1>16. ASSUME NEW c \in Clients, UnlockDelete(c) PROVE ClaimsKept'
    <2>1. \A i \in Instances : claims'[i] = claims[i] \ {thisID[c]}
      BY <1>16 DEF UnlockDelete, deleteLockZnode, ClaimsKept
    <2>2. ~Released(c) /\ mu[inst(c)] = c /\ Znodes' \subseteq Znodes
      BY <1>16, DeleteZnodes DEF UnlockDelete, deleteLockZnode, ClaimsKept, Released
    <2>3. \A d \in Clients \ {c} : Holds(d) \/ At(d, "grant") => inst(d) # inst(c)
      BY <1>16, <2>2, FirstOnInstance DEF UnlockDelete
    <2>4. /\ pc'[c] = "idle"
          /\ \A d \in Clients \ {c} : /\ pc'[d] = pc[d]
                                      /\ thisID'[d] = thisID[d]
                                      /\ lockAhead'[d] = lockAhead[d]
      BY <1>16, <1>0 DEF UnlockDelete, Return, TypeOK
    <2>5. \A d \in Clients \ {c} : HasID(d) => thisID[d] # thisID[c]
      BY DEF LockInv, IDsFresh
    <2>6. \A i \in Instances \ {inst(c)} :
            lockZnode'[i] = lockZnode[i] /\ owner'[i] = owner[i] /\ mu'[i] = mu[i]
      BY <1>16, <1>0 DEF UnlockDelete, TypeOK
    <2>7. \A d \in Clients \ {c} : Released(d) => Released(d)'
      BY <2>2, <2>4 DEF Released
    <2> QED
      BY <2>1, <2>3, <2>4, <2>5, <2>6, <2>7, ConstantsAssumption
      DEF ClaimsKept, inst
  <1>17. ASSUME NEW c \in Clients, UnlockDeleteFails(c) PROVE ClaimsKept'
    <2>1. lockZnode[inst(c)] = thisID[c] /\ mu[inst(c)] = c
      BY <1>17 DEF UnlockDeleteFails, ClaimsKept
    <2>2. /\ Znodes' \subseteq Znodes
          /\ \A i \in Instances : claims[i] \ {thisID[c]} \subseteq claims'[i]
      BY <1>17, <1>0, <2>1, DeleteFailsTypes DEF UnlockDeleteFails
    <2>3. CASE UNCHANGED <<pc, thisID, lockAhead, lockZnode, owner, mu>>
      <3>1. \A d \in Clients : Released(d) => Released(d)'
        BY <2>2, <2>3 DEF Released
      <3>2. \A d \in Clients \ {c} : HasID(d) => thisID[d] # thisID[c]
        BY DEF LockInv, IDsFresh
      <3>3. thisID[c] \in claims'[inst(c)] \/ Released(c)'
        <4>1. Released(c) \/ thisID[c] \in claims[inst(c)]
          BY <1>17 DEF UnlockDeleteFails, ClaimsKept
        <4>2. CASE Znodes' = Znodes \ {thisID[c]}
          BY <1>17, <2>3, <4>2 DEF Released, UnlockDeleteFails
        <4>3. CASE claims' = claims
          BY <3>1, <4>1, <4>3
        <4> QED
          BY <1>17, <2>1, <4>2, <4>3, DeleteZnodes DEF UnlockDeleteFails, deleteFails
      <3> QED
        BY <2>2, <2>3, <3>1, <3>2, <3>3, ConstantsAssumption DEF ClaimsKept, inst
    <2>4. CASE /\ Return(c) /\ UNCHANGED <<lockZnode, owner>>
               /\ mu' = [mu EXCEPT ![inst(c)] = NoClient]
      BY <2>1, <2>2, <2>4, ReturnKeeps
    <2> QED
      BY <1>17, <2>3, <2>4 DEF UnlockDeleteFails
  <1>18. ASSUME NEW c \in Clients,
               ExpireCheck(c) \/ ExpireCheckFails(c) \/ Purge(c) \/ PurgeFails(c) \/ Clear(c)
        PROVE  FALSE
    BY <1>18 DEF ExpireCheck, ExpireCheckFails, Purge, PurgeFails, Clear, ClaimsKept
  <1>19. ASSUME NEW i \in Instances, SessionExpire(i) PROVE FALSE
    BY <1>19 DEF SessionExpire, NoPreemption
  <1>20. ASSUME NEW i \in Instances, Crash(i) PROVE ClaimsKept'
    <2>1. \A c \in Peers(i) : pc'[c] = "idle"
      BY <1>20, <1>0 DEF Crash, Peers
    <2>2. \A c \in Clients \ Peers(i) :
            /\ pc'[c] = pc[c] /\ thisID'[c] = thisID[c] /\ lockAhead'[c] = lockAhead[c]
            /\ claims'[inst(c)] = claims[inst(c)]
            /\ lockZnode'[inst(c)] = lockZnode[inst(c)]
            /\ owner'[inst(c)] = owner[inst(c)] /\ mu'[inst(c)] = mu[inst(c)]
      BY <1>20, <1>0, ConstantsAssumption DEF Crash, Peers, inst, TypeOK
    <2>3. Znodes' \subseteq Znodes
      BY <1>20, InZnodes DEF Crash
    <2>4. \A c \in Clients \ Peers(i) : Released(c) => Released(c)'
      BY <2>2, <2>3 DEF Released
    <2> QED
      BY <2>1, <2>2, <2>4 DEF ClaimsKept, inst
  <1>21. CASE TTLPass
    BY <1>21, SameZnodes DEF TTLPass, ClaimsKept, Released, inst
  <1>22. CASE GhostsExpire
    <2>1. Znodes' \subseteq Znodes
      BY <1>22, InZnodes DEF GhostsExpire
    <2> QED
      BY <1>22, <2>1 DEF GhostsExpire, ClaimsKept, Released, inst
  <1>23. CASE UNCHANGED vars
    BY <1>23, SameZnodes DEF vars, ClaimsKept, Released, inst
  <1> QED
    BY <1>1, <1>2, <1>3, <1>4, <1>5, <1>6, <1>7, <1>8, <1>9, <1>10, <1>11, <1>12, <1>13, <1>14, <1>15, <1>16, <1>17, <1>18, <1>19, <1>20, <1>21, <1>22, <1>23
    DEF Next, LockStep, UnlockStep

\* Where nothing preempts a holder, the strengthened invariant always holds.
LEMMA ClaimsKeptInvariant ==
  ASSUME NoPreemption
  PROVE  Spec => [](LockInv /\ ClaimsKept)
  <1>1. Init => LockInv /\ ClaimsKept
    BY InitLockInv, InitClaimsKept
  <1>2. LockInv /\ ClaimsKept /\ [Next]_vars => (LockInv /\ ClaimsKept)'
    BY NextLockInv, NextClaimsKept
  <1> QED
    BY <1>1, <1>2, PTL DEF Spec

\* Without TTLs and lost sessions the lock is a mutual exclusion lock, failing
\* ZooKeeper requests, lost replies and crashes included: at most one caller is
\* between a successful Lock and the deletion of its claim.
THEOREM MutualExclusionHolds ==
  ASSUME NoPreemption
  PROVE  Spec => []MutualExclusion
  <1>1. LockInv /\ ClaimsKept => MutualExclusion
    BY FirstUnique DEF MutualExclusion, InUse, Released
  <1> QED
    BY <1>1, ClaimsKeptInvariant, PTL

\* And the instance of a holder knows it as the owner until it has unlocked.
THEOREM HolderIsOwnerHolds ==
  ASSUME NoPreemption
  PROVE  Spec => []HolderIsOwner
  <1>1. ClaimsKept => HolderIsOwner
    BY DEF ClaimsKept, HolderIsOwner, Holds, Holding, At
  <1> QED
    BY <1>1, ClaimsKeptInvariant, PTL

\* A step of a delete attempt of Unlock removes the instance's lockZnode or
\* nothing: a crash leaves the claims of its process under the lock path.
LEMMA LeaveDelete ==
  ASSUME NoPreemption, TypeOK, Next, NEW c \in Clients, At(c, "delete"),
         pc'[c] # "delete" \/ attempt'[c] # attempt[c]
  PROVE  Znodes' = Znodes \/ Znodes' = Znodes \ {lockZnode[inst(c)]}
  <1> USE DEF At, Goto, TypeOK, zkVars, instVars, callVars
  <1>1. ASSUME NEW d \in Clients, LockStart(d) \/ LockStep(d) PROVE FALSE
    BY <1>1 DEF LockStart, LockStep, Create, CreateFails, GiveUp, List, ListFails,
      Grant, ExpireCheck, ExpireCheckFails, Purge, PurgeFails, Clear, Watch,
      WatchFails, Wake, TimeOut, Remove, Retry, Return
  <1>2. ASSUME NEW d \in Clients, UnlockStep(d)
        PROVE  Znodes' = Znodes \/ Znodes' = Znodes \ {lockZnode[inst(c)]}
    <2>1. CASE UnlockDelete(d) \/ UnlockDeleteFails(d)
      <3>1. d = c
        BY <2>1 DEF UnlockDelete, UnlockDeleteFails, Return
      <3> QED
        BY <2>1, <3>1, DeleteZnodes, DeleteFailsTypes DEF UnlockDelete, UnlockDeleteFails
    <2>2. CASE ~(UnlockDelete(d) \/ UnlockDeleteFails(d))
      BY <1>2, <2>2, SameZnodes DEF UnlockStep, UnlockStart, NotOwner, UnlockMu
    <2> QED
      BY <2>1, <2>2
  <1>3. ASSUME NEW j \in Instances, SessionExpire(j) PROVE FALSE
    BY <1>3 DEF SessionExpire, NoPreemption
  <1>4. ASSUME NEW j \in Instances, Crash(j) PROVE Znodes' = Znodes
    <2>1. \A z : z \in Znodes' <=> z \in Znodes
      BY <1>4, InZnodes DEF Crash
    <2> QED
      BY <2>1 DEF Znodes
  <1> QED
    BY <1>1, <1>2, <1>3, <1>4 DEF Next, TTLPass, GhostsExpire

\* No delete attempt of an Unlock releases another requestor's claim, where nothing
\* preempts a holder.  (With TTLs one can.)
THEOREM UnlockReleasesOwn ==
  ASSUME NoPreemption
  PROVE  Spec => UnlockReleasesOwnClaim
  <1>1. ASSUME LockInv, ClaimsKept, [Next]_vars
        PROVE  [\A c \in Clients :
                  At(c, "delete") /\ (pc'[c] # "delete" \/ attempt'[c] # attempt[c])
                    => Znodes \ Znodes' \subseteq {thisID[c]}]_vars
    <2> SUFFICES ASSUME Next, NEW c \in Clients, At(c, "delete"),
                        pc'[c] # "delete" \/ attempt'[c] # attempt[c]
                 PROVE  Znodes \ Znodes' \subseteq {thisID[c]}
      BY <1>1
    <2>1. lockZnode[inst(c)] = thisID[c]
      BY <1>1 DEF ClaimsKept, Holds, Holding, At
    <2>2. Znodes' = Znodes \/ Znodes' = Znodes \ {lockZnode[inst(c)]}
      BY <1>1, LeaveDelete DEF LockInv
    <2> QED
      BY <2>1, <2>2
  <1> QED
    BY <1>1, ClaimsKeptInvariant, PTL DEF Spec, UnlockReleasesOwnClaim

-----------------------------------------------------------------------------
(***************************************************************************)
(* Claims are not left behind.  The holder's instance knows the holder's   *)
(* own claim and owner (ClaimsKept), so Unlock is not refused and deletes  *)
(* that claim; a failed Lock deletes its claim, which is there.            *)
(***************************************************************************)

\* A step in which no claim appears and no call loses its claim number, but one
\* whose claim goes with it.
LEMMA OwnedKept ==
  ASSUME ClaimsOwned, NEW S,
         \A i \in Instances : claims'[i] \subseteq claims[i] \ S,
         \A c \in Clients : thisID[c] \in S \/ thisID'[c] = thisID[c]
  PROVE  ClaimsOwned'
  BY DEF ClaimsOwned, Peers

\* No step deletes the claim of an Unlock that goes on, where no request fails.
LEMMA NextAllLive ==
  ASSUME NoFailedRequest, LockInv, ClaimsKept, AllLive, [Next]_vars
  PROVE  AllLive'
  <1> SUFFICES ASSUME NEW c \in Clients, Released(c)' PROVE FALSE
    BY DEF AllLive
  <1> USE DEF zkVars, instVars, callVars, At, Goto, HasID, Holds, Holding
  <1>0. TypeOK /\ pc'[c] = "delete" /\ thisID'[c] \notin Znodes'
    BY DEF LockInv, Released
  <1>1. ASSUME pc[c] = "delete" \/ pc[c] = "unlock"
        PROVE  thisID[c] \in Znodes /\ thisID[c] \in claims[inst(c)]
    BY <1>1, KeptIsLive DEF AllLive, ClaimsKept
  <1>2. ASSUME NEW d \in Clients, LockStart(d) \/ LockStep(d)
        PROVE  pc[c] = "delete" /\ thisID'[c] = thisID[c] /\ d # c
    BY <1>0, <1>2 DEF LockStart, LockStep, Create, CreateFails, GiveUp, List, ListFails,
      Grant, ExpireCheck, ExpireCheckFails, Purge, PurgeFails, Clear, Watch,
      WatchFails, Wake, TimeOut, Remove, Retry, Return, TypeOK
  <1>3. ASSUME NEW d \in Clients, Remove(d) PROVE FALSE
    <2>1. thisID[c] # thisID[d]
      BY <1>2, <1>3 DEF LockStep, LockInv, IDsFresh
    <2>2. Znodes \ {thisID[d]} \subseteq Znodes'
      BY <1>0, <1>3, DeleteZnodes, DeleteFailsTypes DEF Remove
    <2> QED
      BY <1>0, <1>1, <1>2, <1>3, <2>1, <2>2 DEF LockStep
  <1>4. ASSUME NEW d \in Clients, LockStart(d) \/ LockStep(d), ~Remove(d) PROVE FALSE
    <2>1. Znodes \subseteq Znodes'
      <3>1. ~(ExpireCheck(d) \/ ExpireCheckFails(d) \/ Purge(d) \/ PurgeFails(d) \/ Clear(d))
        BY DEF ExpireCheck, ExpireCheckFails, Purge, PurgeFails, Clear, ClaimsKept
      <3> QED
        BY <1>0, <1>4, <3>1, SameZnodes, CreateZnodes
        DEF LockStart, LockStep, Create, CreateFails, GiveUp, List, ListFails,
          Grant, Watch, WatchFails, Wake, TimeOut, Retry
    <2> QED
      BY <1>0, <1>1, <1>2, <1>4, <2>1
  <1>5. ASSUME NEW d \in Clients, UnlockDelete(d) PROVE FALSE
    <2>1. pc[c] = "delete" /\ thisID'[c] = thisID[c] /\ c # d
      BY <1>0, <1>5 DEF UnlockDelete, Return, TypeOK
    <2>2. Znodes' = Znodes \ {thisID[d]}
      BY <1>5, DeleteZnodes DEF UnlockDelete, ClaimsKept
    <2>3. thisID[c] # thisID[d]
      BY <2>1 DEF LockInv, IDsFresh
    <2> QED
      BY <1>0, <1>1, <2>1, <2>2, <2>3
  <1>6. ASSUME NEW d \in Clients, UnlockDeleteFails(d) PROVE FALSE
    <2>1. thisID[d] \in Znodes
      BY <1>6, KeptIsLive DEF UnlockDeleteFails, AllLive
    <2> QED
      BY <1>6, <2>1 DEF UnlockDeleteFails, deleteFails, NoFailedRequest, ZKMayFail, ClaimsKept
  <1>7. ASSUME NEW d \in Clients, UnlockStart(d) \/ NotOwner(d) \/ UnlockMu(d) PROVE FALSE
    <2>1. /\ pc[c] = "delete" \/ pc[c] = "unlock"
          /\ thisID'[c] = thisID[c]
      BY <1>0, <1>7 DEF UnlockStart, NotOwner, UnlockMu, Return, TypeOK
    <2>2. Znodes' = Znodes
      BY <1>7, SameZnodes DEF UnlockStart, NotOwner, UnlockMu
    <2> QED
      BY <1>0, <1>1, <2>1, <2>2
  <1>8. ASSUME NEW i \in Instances, SessionExpire(i) PROVE FALSE
    BY <1>8 DEF SessionExpire, NoFailedRequest, NoPreemption
  <1>9. ASSUME NEW i \in Instances, Crash(i) PROVE FALSE
    <2>1. pc[c] = "delete" /\ thisID'[c] = thisID[c]
      BY <1>0, <1>9 DEF Crash
    <2>2. Znodes \subseteq Znodes'
      BY <1>9, InZnodes, <1>0 DEF Crash, TypeOK
    <2> QED
      BY <1>0, <1>1, <2>1, <2>2
  <1>10. CASE TTLPass \/ GhostsExpire \/ UNCHANGED vars
    <2>1. pc[c] = "delete" /\ thisID'[c] = thisID[c] /\ claims' = claims
      BY <1>0, <1>10 DEF TTLPass, GhostsExpire, vars
    <2>2. inst(c) \in Instances
      BY ConstantsAssumption DEF inst
    <2> QED
      BY <1>0, <1>1, <2>1, <2>2, InZnodes
  <1> QED
    BY <1>3, <1>4, <1>5, <1>6, <1>7, <1>8, <1>9, <1>10 DEF Next, UnlockStep

\* Every step leaves each claim with its call, where no request fails.
LEMMA NextClaimsOwned ==
  ASSUME NoFailedRequest, LockInv, ClaimsKept, AllLive, ClaimsOwned, [Next]_vars
  PROVE  ClaimsOwned'
  <1> USE DEF zkVars, instVars, callVars, At, Goto, HasID, Holds, Holding
  <1>0. TypeOK
    BY DEF LockInv
  <1>1. ASSUME UNCHANGED <<claims, thisID>> PROVE ClaimsOwned'
    BY <1>1 DEF ClaimsOwned, Peers
  <1>2. ASSUME NEW c \in Clients, Create(c) PROVE ClaimsOwned'
    <2>1. /\ thisID'[c] = nextSeq
          /\ \A d \in Clients \ {c} : thisID'[d] = thisID[d]
          /\ claims'[inst(c)] = claims[inst(c)] \union {nextSeq}
          /\ \A i \in Instances \ {inst(c)} : claims'[i] = claims[i]
      BY <1>2, <1>0, ConstantsAssumption DEF Create, CreateClaim, TypeOK, inst
    <2>2. \A i \in Instances : \A z \in claims[i] : z # thisID[c]
      <3>1. \A i \in Instances : claims[i] \subseteq Nat
        BY <1>0 DEF TypeOK
      <3>2. thisID[c] = NoZnode
        BY <1>2 DEF LockInv, IDsFresh, Create
      <3> QED
        BY <3>1, <3>2 DEF NoZnode
    <2>3. c \in Peers(inst(c))
      BY DEF Peers, inst
    <2> SUFFICES ASSUME NEW i \in Instances, NEW z \in claims'[i]
                 PROVE  \E d \in Peers(i) : thisID'[d] = z
      BY DEF ClaimsOwned, Peers
    <2>4. CASE z \in claims[i]
      BY <2>1, <2>2, <2>4 DEF ClaimsOwned, Peers
    <2>5. CASE z \notin claims[i]
      BY <2>1, <2>3, <2>5
    <2> QED
      BY <2>4, <2>5
  <1>3. ASSUME NEW c \in Clients, CreateFails(c) \/ NotOwner(c) \/ UnlockDeleteFails(c)
        PROVE  FALSE
    <2>1. ~CreateFails(c)
      BY DEF CreateFails, NoFailedRequest, ZKMayFail
    <2>2. ~NotOwner(c)
      BY DEF NotOwner, ClaimsKept
    <2>3. ~UnlockDeleteFails(c)
      <3> SUFFICES ASSUME UnlockDeleteFails(c) PROVE FALSE
        OBVIOUS
      <3>1. thisID[c] \in Znodes
        BY KeptIsLive DEF UnlockDeleteFails, AllLive
      <3> QED
        BY <3>1 DEF UnlockDeleteFails, deleteFails, NoFailedRequest, ZKMayFail, ClaimsKept
    <2> QED
      BY <1>3, <2>1, <2>2, <2>3
  <1>4. ASSUME NEW c \in Clients, Remove(c) PROVE ClaimsOwned'
    <2>1. deleteLockZnode(thisID[c])
      BY <1>4, KeptIsLive DEF Remove, deleteFails, NoFailedRequest, ZKMayFail, Released
    <2>2. \A d \in Clients : thisID[d] \in {thisID[c]} \/ thisID'[d] = thisID[d]
      BY <1>4, <1>0 DEF Remove, Return, TypeOK
    <2> QED
      BY <2>1, <2>2, OwnedKept DEF deleteLockZnode
  <1>5. ASSUME NEW c \in Clients, UnlockDelete(c) PROVE ClaimsOwned'
    <2>1. deleteLockZnode(thisID[c])
      BY <1>5 DEF UnlockDelete, ClaimsKept
    <2>2. \A d \in Clients : thisID[d] \in {thisID[c]} \/ thisID'[d] = thisID[d]
      BY <1>5, <1>0 DEF UnlockDelete, Return, TypeOK
    <2> QED
      BY <2>1, <2>2, OwnedKept DEF deleteLockZnode
  <1>6. ASSUME NEW c \in Clients,
               ExpireCheck(c) \/ ExpireCheckFails(c) \/ Purge(c) \/ PurgeFails(c) \/ Clear(c)
        PROVE  FALSE
    BY <1>6 DEF ExpireCheck, ExpireCheckFails, Purge, PurgeFails, Clear, ClaimsKept
  <1>7. ASSUME NEW i \in Instances, SessionExpire(i) PROVE FALSE
    BY <1>7 DEF SessionExpire, NoFailedRequest, NoPreemption
  <1>8. ASSUME NEW i \in Instances, Crash(i) PROVE ClaimsOwned'
    <2>1. \A c \in Clients \ Peers(i) : thisID'[c] = thisID[c]
      BY <1>8 DEF Crash
    <2>2. claims'[i] = {} /\ \A j \in Instances \ {i} : claims'[j] = claims[j]
      BY <1>8, <1>0 DEF Crash, TypeOK
    <2>3. \A j \in Instances \ {i} : Peers(j) \intersect Peers(i) = {}
      BY DEF Peers
    <2> QED
      BY <2>1, <2>2, <2>3 DEF ClaimsOwned, Peers
  <1>9. ASSUME NEW c \in Clients, LockStart(c) \/ LockStep(c) PROVE ClaimsOwned'
    BY <1>9, <1>1, <1>2, <1>3, <1>4, <1>6
    DEF LockStart, LockStep, GiveUp, List, ListFails, Grant, Watch, WatchFails, Retry,
      Wake, TimeOut
  <1>10. ASSUME NEW c \in Clients, UnlockStep(c) PROVE ClaimsOwned'
    BY <1>10, <1>1, <1>3, <1>5 DEF UnlockStep, UnlockStart, UnlockMu
  <1>11. CASE TTLPass \/ GhostsExpire \/ UNCHANGED vars
    BY <1>11, <1>1 DEF TTLPass, GhostsExpire, vars
  <1> QED
    BY <1>7, <1>8, <1>9, <1>10, <1>11 DEF Next

\* Without TTLs, lost sessions and failing requests, no way out of Lock or Unlock
\* and no crash leaves a claim in a running session that no call will release.
THEOREM NoClaimLeaks ==
  ASSUME NoFailedRequest
  PROVE  Spec => []NoLeakedClaim
  <1>0. NoPreemption
    BY DEF NoFailedRequest
  <1>1. Init => AllLive /\ ClaimsOwned
    BY DEF Init, AllLive, Released, At, ClaimsOwned
  <1>2. LockInv /\ ClaimsKept /\ AllLive /\ ClaimsOwned /\ [Next]_vars
          => AllLive' /\ ClaimsOwned'
    BY NextAllLive, NextClaimsOwned
  <1>3. ClaimsOwned => NoLeakedClaim
    BY InZnodes DEF ClaimsOwned, NoLeakedClaim, Peers
  <1>4. Spec => [](LockInv /\ ClaimsKept)
    BY <1>0, ClaimsKeptInvariant
  <1> QED
    BY <1>1, <1>2, <1>3, <1>4, PTL DEF Spec

-----------------------------------------------------------------------------
(***************************************************************************)
(* ZKLock implements TicketLock.                                           *)
(***************************************************************************)

\* Membership in the refinement mapping of held.
LEMMA InLiveHeld ==
  /\ \A t : t \in LiveHeld <=>
       \E c \in Clients : HoldsLive(c) /\ t = thisID[c]
  /\ \A t : t \in LiveHeld' <=>
       \E c \in Clients : HoldsLive(c)' /\ t = thisID'[c]
  BY DEF LiveHeld

\* A step in which the lock path only shrinks and nobody new holds the lock is
\* a Leave step.
LEMMA LeaveStep ==
  ASSUME nextSeq' = nextSeq, Znodes' \subseteq Znodes,
         \A c \in Clients : Holds(c)' => Holds(c) /\ thisID'[c] = thisID[c]
  PROVE  Ticket!Leave
  <1>1. LiveHeld' \subseteq LiveHeld \intersect Znodes'
    BY InLiveHeld DEF HoldsLive
  <1> QED
    BY <1>1 DEF Ticket!Leave

\* Entering a claim is an Enqueue step: nobody holds the new claim yet.
LEMMA EnqueueStep ==
  ASSUME LockInv, NEW c \in Clients, CreateClaim(c), Create(c) \/ Return(c),
         At(c, "create")
  PROVE  Ticket!Enqueue
  <1>1. Znodes' = Znodes \union {nextSeq} /\ nextSeq' = nextSeq + 1
    BY CreateZnodes DEF LockInv, CreateClaim
  <1>2. /\ ~Holds(c) /\ ~Holds(c)'
        /\ \A d \in Clients \ {c} : thisID'[d] = thisID[d] /\ pc'[d] = pc[d]
    BY DEF LockInv, TypeOK, Create, Return, Goto, At, Holds, Holding
  <1>3. \A d \in Clients : thisID[d] # nextSeq
    BY FreshID
  <1>4. \A d \in Clients : HoldsLive(d)' <=> HoldsLive(d)
    BY <1>1, <1>2, <1>3 DEF HoldsLive, Holds
  <1>5. \A d \in Clients : HoldsLive(d) => thisID'[d] = thisID[d]
    BY <1>2 DEF HoldsLive
  <1>6. LiveHeld' = LiveHeld
    <2>1. \A t : t \in LiveHeld' <=> t \in LiveHeld
      BY <1>4, <1>5, InLiveHeld
    <2> QED
      BY <2>1 DEF LiveHeld
  <1> QED
    BY <1>1, <1>6 DEF Ticket!Enqueue

\* Granting a live claim grants the lowest ticket; granting a claim that has
\* been lost in the meantime changes nothing anyone can rely on.
LEMMA GrantStep ==
  ASSUME LockInv, NEW c \in Clients, Grant(c)
  PROVE  Ticket!GrantLowest \/ UNCHANGED <<Znodes, nextSeq, LiveHeld>>
  <1>1. Znodes' = Znodes /\ nextSeq' = nextSeq /\ thisID' = thisID
    BY SameZnodes DEF Grant, zkVars, callVars
  <1>2. /\ Holds(c)' /\ ~Holds(c)
        /\ \A d \in Clients \ {c} : Holds(d)' <=> Holds(d)
    BY DEF Grant, Goto, LockInv, TypeOK, At, Holds, Holding
  <1>3. CASE thisID[c] \in Znodes
    <2>1. \A t : t \in LiveHeld' <=> t \in LiveHeld \union {thisID[c]}
      BY <1>1, <1>2, <1>3, InLiveHeld DEF HoldsLive
    <2>2. LiveHeld' = LiveHeld \union {thisID[c]}
      BY <2>1
    <2>3. \A u \in Znodes : thisID[c] <= u
      BY DEF Grant, LockInv, NothingAhead
    <2> QED
      BY <1>1, <1>3, <2>2, <2>3 DEF Ticket!GrantLowest
  <1>4. CASE thisID[c] \notin Znodes
    <2>1. \A t : t \in LiveHeld' <=> t \in LiveHeld
      BY <1>1, <1>2, <1>4, InLiveHeld DEF HoldsLive
    <2> QED
      BY <1>1, <2>1 DEF LiveHeld
  <1> QED
    BY <1>3, <1>4

\* Every step of ZKLock is a step of TicketLock or a stuttering step of it.
LEMMA NextRefines ==
  ASSUME LockInv, [Next]_vars
  PROVE  [Ticket!TicketNext]_(Ticket!ticketVars)
  <1>0. TypeOK
    BY DEF LockInv
  <1> USE <1>0 DEF Ticket!TicketNext, zkVars, instVars, callVars, At, Goto, Holds,
        Holding, TypeOK
  <1>1. ASSUME NEW c \in Clients, Create(c) PROVE Ticket!TicketNext
    BY <1>1, EnqueueStep DEF Create
  <1>2. ASSUME NEW c \in Clients, CreateFails(c) PROVE Ticket!TicketNext
    <2>1. CASE UNCHANGED zkVars
      BY <1>2, <2>1, SameZnodes, LeaveStep DEF CreateFails, Return
    <2>2. CASE CreateClaim(c)
      BY <1>2, <2>2, EnqueueStep DEF CreateFails
    <2> QED
      BY <1>2, <2>1, <2>2 DEF CreateFails
  <1>3. ASSUME NEW c \in Clients, LockStart(c) PROVE Ticket!TicketNext
    BY <1>3, SameZnodes, LeaveStep DEF LockStart
  <1>4. ASSUME NEW c \in Clients, GiveUp(c) PROVE Ticket!TicketNext
    BY <1>4, SameZnodes, LeaveStep DEF GiveUp
  <1>5. ASSUME NEW c \in Clients, List(c) PROVE Ticket!TicketNext
    BY <1>5, SameZnodes, LeaveStep DEF List
  <1>6. ASSUME NEW c \in Clients, ListFails(c) PROVE Ticket!TicketNext
    BY <1>6, SameZnodes, LeaveStep DEF ListFails
  <1>7. ASSUME NEW c \in Clients, ExpireCheck(c) PROVE Ticket!TicketNext
    BY <1>7, SameZnodes, LeaveStep DEF ExpireCheck
  <1>8. ASSUME NEW c \in Clients, ExpireCheckFails(c) PROVE Ticket!TicketNext
    BY <1>8, SameZnodes, LeaveStep DEF ExpireCheckFails, Retry
  <1>9. ASSUME NEW c \in Clients, PurgeFails(c) PROVE Ticket!TicketNext
    BY <1>9, DeleteFailsTypes, LeaveStep DEF PurgeFails, Retry
  <1>10. ASSUME NEW c \in Clients, Clear(c) PROVE Ticket!TicketNext
    BY <1>10, SameZnodes, LeaveStep DEF Clear
  <1>11. ASSUME NEW c \in Clients, Watch(c) PROVE Ticket!TicketNext
    BY <1>11, SameZnodes, LeaveStep DEF Watch
  <1>12. ASSUME NEW c \in Clients, WatchFails(c) PROVE Ticket!TicketNext
    BY <1>12, SameZnodes, LeaveStep DEF WatchFails, Retry
  <1>13. ASSUME NEW c \in Clients, Wake(c) PROVE Ticket!TicketNext
    BY <1>13, SameZnodes, LeaveStep DEF Wake
  <1>14. ASSUME NEW c \in Clients, TimeOut(c) PROVE Ticket!TicketNext
    BY <1>14, SameZnodes, LeaveStep DEF TimeOut
  <1>15. ASSUME NEW c \in Clients, UnlockStart(c) PROVE Ticket!TicketNext
    BY <1>15, SameZnodes, LeaveStep DEF UnlockStart
  <1>16. ASSUME NEW c \in Clients, NotOwner(c) PROVE Ticket!TicketNext
    BY <1>16, SameZnodes, LeaveStep DEF NotOwner, Return
  <1>17. ASSUME NEW c \in Clients, UnlockMu(c) PROVE Ticket!TicketNext
    BY <1>17, SameZnodes, LeaveStep DEF UnlockMu
  <1>18. ASSUME NEW c \in Clients, UnlockDeleteFails(c) PROVE Ticket!TicketNext
    <2>1. nextSeq' = nextSeq /\ Znodes' \subseteq Znodes
      BY <1>18, DeleteFailsTypes DEF UnlockDeleteFails
    <2> QED
      BY <1>18, <2>1, LeaveStep DEF UnlockDeleteFails, Return
  <1>19. ASSUME NEW c \in Clients, Purge(c) PROVE Ticket!TicketNext
    BY <1>19, DeleteZnodes, LeaveStep DEF Purge, deleteLockZnode
  <1>20. ASSUME NEW c \in Clients, Remove(c) PROVE Ticket!TicketNext
    <2>1. CASE deleteLockZnode(thisID[c])
      BY <1>20, <2>1, DeleteZnodes, LeaveStep DEF Remove, deleteLockZnode, Return
    <2>2. CASE deleteFails(thisID[c])
      BY <1>20, <2>2, DeleteFailsTypes, LeaveStep DEF Remove, Return
    <2> QED
      BY <1>20, <2>1, <2>2 DEF Remove
  <1>21. ASSUME NEW c \in Clients, UnlockDelete(c) PROVE Ticket!TicketNext
    BY <1>21, DeleteZnodes, LeaveStep DEF UnlockDelete, deleteLockZnode, Return
  <1>22. ASSUME NEW i \in Instances, SessionExpire(i) PROVE Ticket!TicketNext
    <2>1. Znodes' \subseteq Znodes
      BY <1>22, InZnodes DEF SessionExpire
    <2> QED
      BY <1>22, <2>1, LeaveStep DEF SessionExpire
  <1>23. ASSUME NEW i \in Instances, Crash(i) PROVE Ticket!TicketNext
    <2>1. Znodes' \subseteq Znodes
      BY <1>23, InZnodes DEF Crash
    <2> QED
      BY <1>23, <2>1, LeaveStep DEF Crash
  <1>24. ASSUME NEW c \in Clients, Grant(c)
        PROVE  Ticket!TicketNext \/ UNCHANGED Ticket!ticketVars
    BY <1>24, GrantStep DEF Ticket!ticketVars
  <1>25. CASE TTLPass
    BY <1>25, SameZnodes, LeaveStep DEF TTLPass
  <1>26. CASE GhostsExpire
    <2>1. Znodes' \subseteq Znodes
      BY <1>26, InZnodes DEF GhostsExpire
    <2> QED
      BY <1>26, <2>1, LeaveStep DEF GhostsExpire
  <1>27. CASE UNCHANGED vars
    BY <1>27, SameZnodes, LeaveStep DEF vars
  <1> QED
    BY <1>1, <1>2, <1>3, <1>4, <1>5, <1>6, <1>7, <1>8, <1>9, <1>10, <1>11, <1>12, <1>13, <1>14, <1>15, <1>16, <1>17, <1>18, <1>19, <1>20, <1>21, <1>22, <1>23, <1>24, <1>25, <1>26, <1>27
    DEF Next, LockStep, UnlockStep

\* The lock implements TicketLock through every fault: claims are granted one at
\* a time and in the order in which they were entered.
THEOREM Refinement == Spec => ImplementsTicketLock
  <1>1. Init => Ticket!TicketInit
    <2> SUFFICES ASSUME Init PROVE Ticket!TicketInit
      OBVIOUS
    <2>1. Znodes = {}
      BY InZnodes DEF Init
    <2>2. LiveHeld = {}
      BY <2>1 DEF LiveHeld, HoldsLive
    <2> QED
      BY <2>1, <2>2 DEF Init, Ticket!TicketInit
  <1>2. LockInv /\ [Next]_vars => [Ticket!TicketNext]_(Ticket!ticketVars)
    BY NextRefines
  <1> QED
    BY <1>1, <1>2, LockInvariant, PTL
    DEF Spec, ImplementsTicketLock, Ticket!TicketSpec

=============================================================================
