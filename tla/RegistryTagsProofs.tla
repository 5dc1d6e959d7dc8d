------------------------- MODULE RegistryTagsProofs -------------------------
(***************************************************************************)
(* Proofs about RegistryTags, for any requests, cleaners, objects and tags. *)
(***************************************************************************)
EXTENDS RegistryTags, TLAPS

-----------------------------------------------------------------------------
(***************************************************************************)
(* Tag sets                                                                *)
(***************************************************************************)

\* No tags are a tag set, and a missing znode is not one.
LEMMA EmptyType == EmptyTagSet \in TagSets /\ NoTags \notin TagSets
  BY ConstantsAssumption DEF EmptyTagSet, TagSets

\* What SetTags and DeleteTags write is a tag set.
LEMMA UpdatedType ==
  ASSUME NEW cl \in Calls, NEW tags \in TagSets
  PROVE  Updated(cl, tags) \in TagSets
  BY ConstantsAssumption DEF Updated, TagSets, Calls

\* A call is about an object.
LEMMA CallObject == \A cl \in Calls : cl.obj \in Objects /\ cl.ts \in TagSets
  BY DEF Calls

\* How a call is made up.
LEMMA TagSetType ==
  ASSUME NEW K \in SUBSET Keys, NEW m \in (0 .. MaxTime) \union {NoMark}
  PROVE  [keys |-> K, mark |-> m] \in TagSets
  BY DEF TagSets

\* What a tag set is made up of.
LEMMA TagSetFields ==
  \A ts \in TagSets : ts.keys \in SUBSET Keys /\ ts.mark \in (0 .. MaxTime) \union {NoMark}
  BY DEF TagSets

\* A verb, an object and tags make a call.
LEMMA CallType ==
  ASSUME NEW v \in {"set", "delete"}, NEW o \in Objects, NEW ts \in TagSets
  PROVE  [verb |-> v, obj |-> o, ts |-> ts] \in Calls
  BY DEF Calls

\* A request is about the objects it names.
LEMMA IdsObjects ==
  ASSUME NEW s \in Seq(Objects)
  PROVE  /\ Len(s) > 0 => Head(s) \in Objects
         /\ \A n \in Nat : n < Len(s) => s[n + 1] \in Objects
  OBVIOUS

-----------------------------------------------------------------------------
(***************************************************************************)
(* Type correctness                                                        *)
(***************************************************************************)
TypeInv == TypeOK /\ WorkOK

\* The attempts of a request are counted by a natural number.
LEMMA CounterTypes ==
  ASSUME TypeOK, NEW r \in Requests
  PROVE  tries[r] \in Nat
  <1>1. tries[r] \in 0 .. MaxRetries
    BY DEF TypeOK
  <1> QED
    BY <1>1, ConstantsAssumption

\* Both hold initially.
LEMMA InitTypeInv == Init => TypeInv
  BY ConstantsAssumption, EmptyType
  DEF Init, TypeInv, TypeOK, WorkOK, At, Labels, RequestKinds, CleanerKinds, Editing, Procs

\* So do a request that returns and a cleaner that starts a pass, whatever else
\* the step does to the lock.
LEMMA ReturnTypes ==
  ASSUME TypeInv, NEW r \in Requests, ReturnRequest(r),
         UNCHANGED <<kafkaVars, store, clock>>, holder' \in Procs \union {NoProc}
  PROVE  TypeInv'
  <1>1. TypeOK'
    BY ConstantsAssumption, EmptyType
    DEF TypeInv, TypeOK, ReturnRequest, Goto, Labels, Procs, RequestKinds,
        kafkaVars, cleanerVars
  <1>2. WorkOK'
    BY ConstantsAssumption
    DEF TypeInv, TypeOK, WorkOK, ReturnRequest, Goto, At, Editing, Procs, cleanerVars
  <1> QED
    BY <1>1, <1>2 DEF TypeInv

\* A cleaner that starts over is well typed.
LEMMA RestartTypes ==
  ASSUME TypeInv, NEW c \in Cleaners, NEW k \in CleanerKinds, RestartCleaner(c, k),
         UNCHANGED <<kafkaVars, store, clock>>, holder' \in Procs \union {NoProc}
  PROVE  TypeInv'
  <1>1. TypeOK'
    BY ConstantsAssumption, EmptyType
    DEF TypeInv, TypeOK, RestartCleaner, Goto, Labels, Procs, CleanerKinds,
        kafkaVars, requestVars
  <1>2. WorkOK'
    BY ConstantsAssumption
    DEF TypeInv, TypeOK, WorkOK, RestartCleaner, Goto, At, Editing, Procs, requestVars
  <1> QED
    BY <1>1, <1>2 DEF TypeInv

\* Every step preserves them.
LEMMA NextTypeInv == TypeInv /\ [Next]_vars => TypeInv'
  <1> SUFFICES ASSUME TypeInv, [Next]_vars PROVE TypeInv'
    OBVIOUS
  <1> USE ConstantsAssumption, EmptyType, UpdatedType, CallObject
      DEF TypeInv, TypeOK, WorkOK, At, Goto, Labels, Critical, Editing, Procs,
          RequestKinds, CleanerKinds, kafkaVars, handlerVars, editVars,
          requestVars, cleanerVars
  <1>1. ASSUME NEW p \in Procs, Get(p) PROVE TypeInv'
    BY <1>1 DEF Get
  <1>2. ASSUME NEW p \in Procs, GetNoNode(p) PROVE TypeInv'
    BY <1>2 DEF GetNoNode
  <1>3. ASSUME NEW p \in Procs, GetFails(p) PROVE TypeInv'
    BY <1>3 DEF GetFails, Finish
  <1>4. ASSUME NEW p \in Procs, CreateNode(p) PROVE TypeInv'
    BY <1>4 DEF CreateNode, CreateZnode
  <1>5. ASSUME NEW p \in Procs, CreateNodeFails(p) PROVE TypeInv'
    <2>1. store' \in [Objects -> TagSets \union {NoTags}]
      <3>1. CASE UNCHANGED store
        BY <3>1
      <3>2. CASE CreateZnode(p)
        BY <3>2, EmptyType DEF CreateZnode
      <3> QED
        BY <1>5, <3>1, <3>2 DEF CreateNodeFails
    <2> QED
      BY <1>5, <2>1 DEF CreateNodeFails, Finish
  <1>6. ASSUME NEW p \in Procs, Put(p) PROVE TypeInv'
    BY <1>6 DEF Put, Finish, SetZnode
  <1>7. ASSUME NEW p \in Procs, PutFails(p) PROVE TypeInv'
    <2>1. store' \in [Objects -> TagSets \union {NoTags}]
      <3>1. CASE UNCHANGED store
        BY <3>1
      <3>2. CASE SetZnode(p)
        <4>1. call[p] \in Calls /\ snap[p] \in TagSets
          BY <1>7 DEF PutFails, Editing
        <4>2. Updated(call[p], snap[p]) \in TagSets
          BY <4>1, UpdatedType
        <4> QED
          BY <3>2, <4>2 DEF SetZnode
      <3> QED
        BY <1>7, <3>1, <3>2 DEF PutFails
    <2> QED
      BY <1>7, <2>1 DEF PutFails, Finish
  <1>8. ASSUME NEW p \in Procs, Lock(p) PROVE TypeInv'
    BY <1>8 DEF Lock, AfterLock
  <1>9. ASSUME NEW p \in Procs, LockFails(p) PROVE TypeInv'
    BY <1>9, ReturnTypes, RestartTypes DEF LockFails
  <1>10. ASSUME NEW p \in Procs, Unlock(p) PROVE TypeInv'
    BY <1>10, ReturnTypes, RestartTypes DEF Unlock
  <1>11. ASSUME NEW p \in Procs, Crash(p) PROVE TypeInv'
    BY <1>11, ReturnTypes, RestartTypes DEF Crash
  <1>12. ASSUME NEW r \in Requests, Receive(r) PROVE TypeInv'
    BY <1>12 DEF Receive
  <1>13. ASSUME NEW r \in Requests, CheckTopic(r) PROVE TypeInv'
    BY <1>13 DEF CheckTopic
  <1>14. ASSUME NEW r \in Requests, CheckTopicFails(r) PROVE TypeInv'
    BY <1>14 DEF CheckTopicFails, ReturnRequest
  <1>15. ASSUME NEW r \in Requests, CreateTopic(r) PROVE TypeInv'
    <2>1. Head(ids[r]) \in Objects
      BY <1>15, IdsObjects DEF CreateTopic, TopicCreated, kafkaVars
    <2> QED
      BY <1>15, <2>1 DEF CreateTopic, Proceed, TopicCreated, kafkaVars
  <1>16. ASSUME NEW r \in Requests, CreateTopicFails(r) PROVE TypeInv'
    BY <1>16 DEF CreateTopicFails, Proceed, TopicCreated, kafkaVars
  <1>17. ASSUME NEW r \in Requests, Relock(r) PROVE TypeInv'
    BY <1>17 DEF Relock, Proceed
  <1>18. ASSUME NEW r \in Requests, TagTimeout(r) PROVE TypeInv'
    BY <1>18 DEF TagTimeout, Proceed
  <1>19. ASSUME NEW r \in Requests, Retry(r) PROVE TypeInv'
    <2>1. tries[r] \in Nat
      BY CounterTypes
    <2>2. pc[r] = "retry"
      BY <1>19 DEF Retry
    <2>3. tries[r] < MaxRetries
      BY <2>2
    <2>4. tries[r] + 1 \in 0 .. MaxRetries
      BY <2>1, <2>3
    <2> QED
      BY <1>19, <2>1, <2>3, <2>4 DEF Retry
  <1>20. ASSUME NEW r \in Requests, Describe(r) PROVE TypeInv'
    BY <1>20 DEF Describe
  <1>21. ASSUME NEW r \in Requests, DescribeFails(r) PROVE TypeInv'
    BY <1>21 DEF DescribeFails, Proceed
  <1>22. ASSUME NEW r \in Requests, DeleteTopic(r) PROVE TypeInv'
    BY <1>22 DEF DeleteTopic, Proceed, TopicDeleted, kafkaVars
  <1>23. ASSUME NEW r \in Requests, DeleteTopicFails(r) PROVE TypeInv'
    BY <1>23 DEF DeleteTopicFails, Proceed, TopicDeleted, kafkaVars
  <1>24. ASSUME NEW r \in Requests, NextObject(r) PROVE TypeInv'
    <2> DEFINE v == IF kind[r] \in {"DeleteTopicTags", "DeleteBrokerTags"}
                    THEN "delete" ELSE "set"
               o == ids[r][nth[r] + 1]
               ts == [keys |-> keys[r], mark |-> NoMark]
    <2>1. o \in Objects
      BY <1>24, IdsObjects DEF NextObject
    <2>2. ts \in TagSets
      BY TagSetType
    <2>3. [verb |-> v, obj |-> o, ts |-> ts] \in Calls
      BY <2>1, <2>2, CallType
    <2> QED
      BY <1>24, <2>3 DEF NextObject
  <1>25. ASSUME NEW r \in Requests, LastObject(r) PROVE TypeInv'
    BY <1>25 DEF LastObject
  <1>26. ASSUME NEW c \in Cleaners, MarkBegin(c) PROVE TypeInv'
    BY <1>26 DEF MarkBegin
  <1>27. ASSUME NEW c \in Cleaners, SweepBegin(c) PROVE TypeInv'
    BY <1>27 DEF SweepBegin
  <1>28. ASSUME NEW c \in Cleaners, GetTopics(c) PROVE TypeInv'
    BY <1>28 DEF GetTopics
  <1>29. ASSUME NEW c \in Cleaners, GetAllTags(c) PROVE TypeInv'
    BY <1>29 DEF GetAllTags
  <1>30. ASSUME NEW c \in Cleaners, ReadFails(c) PROVE TypeInv'
    BY <1>30 DEF ReadFails
  <1>31. ASSUME NEW c \in Cleaners, NEW o \in Objects, Mark(c, o) PROVE TypeInv'
    <2> DEFINE ts == [keys |-> allTags[c][o].keys, mark |-> time[c]]
    <2>0. allTags[c][o] \in TagSets
      BY <1>31 DEF Mark
    <2>1. ts \in TagSets
      BY <2>0, TagSetFields, TagSetType
    <2>2. [verb |-> "set", obj |-> o, ts |-> ts] \in Calls
      BY <2>1, CallType
    <2> QED
      BY <1>31, <2>2 DEF Mark, Edit
  <1>32. ASSUME NEW c \in Cleaners, NEW o \in Objects, Unmark(c, o) PROVE TypeInv'
    <2> DEFINE ts == [keys |-> {}, mark |-> allTags[c][o].mark]
    <2>0. allTags[c][o] \in TagSets
      BY <1>32 DEF Unmark
    <2>1. ts \in TagSets
      BY <2>0, TagSetFields, TagSetType
    <2>2. [verb |-> "delete", obj |-> o, ts |-> ts] \in Calls
      BY <2>1, CallType
    <2> QED
      BY <1>32, <2>2 DEF Unmark, Edit
  <1>33. ASSUME NEW c \in Cleaners, NEW o \in Objects, Sweep(c, o) PROVE TypeInv'
    <2>1. allTags[c][o] \in TagSets
      BY <1>33 DEF Sweep
    <2>2. [verb |-> "delete", obj |-> o, ts |-> allTags[c][o]] \in Calls
      BY <2>1, CallType
    <2> QED
      BY <1>33, <2>2 DEF Sweep, Edit
  <1>34. ASSUME NEW c \in Cleaners, NEW o \in Objects, Skip(c, o) PROVE TypeInv'
    BY <1>34 DEF Skip
  <1>35. ASSUME NEW c \in Cleaners, EndPass(c) PROVE TypeInv'
    BY <1>35 DEF EndPass
  <1>36. ASSUME NEW o \in External, ComeOrGo(o) PROVE TypeInv'
    BY <1>36 DEF ComeOrGo
  <1>37. ASSUME NEW t \in Topics, BecomeVisible(t) PROVE TypeInv'
    BY <1>37 DEF BecomeVisible
  <1>38. ASSUME Tick PROVE TypeInv'
    BY <1>38 DEF Tick
  <1>39. CASE UNCHANGED vars
    BY <1>39 DEF vars
  <1> QED
    BY <1>1, <1>2, <1>3, <1>4, <1>5, <1>6, <1>7, <1>8, <1>9, <1>10,
       <1>11, <1>12, <1>13, <1>14, <1>15, <1>16, <1>17, <1>18, <1>19,
       <1>20, <1>21, <1>22, <1>23, <1>24, <1>25, <1>26, <1>27, <1>28,
       <1>29, <1>30, <1>31, <1>32, <1>33, <1>34, <1>35, <1>36, <1>37,
       <1>38, <1>39
    DEF Next, EditStep, RequestStep, CleanerStep

\* The types of the tag store and of every handler's variables are kept by
\* all interleavings of requests and cleaners, and no CreateTopic makes more
\* than MaxRetries attempts to tag its topic.
THEOREM TypeCorrect == Spec => []TypeOK
  <1>1. TypeInv => TypeOK
    BY DEF TypeInv
  <1> QED
    BY <1>1, InitTypeInv, NextTypeInv, PTL DEF Spec

-----------------------------------------------------------------------------
(***************************************************************************)
(* With locking enabled, handlers exclude each other.                      *)
(***************************************************************************)

\* A process that gets no lock, unlocks or crashes leaves the store and the
\* variables of all others alone, and starts again.
LEMMA ReturnsOnly ==
  ASSUME TypeOK, NEW p \in Procs, LockFails(p) \/ Unlock(p) \/ Crash(p)
  PROVE  /\ store' = store /\ exists' = exists
         /\ pc'[p] \in {"idle", "begin"}
         /\ \A q \in Procs \ {p} : /\ pc'[q] = pc[q] /\ kind'[q] = kind[q]
                                  /\ snap'[q] = snap[q] /\ call'[q] = call[q]
         /\ \A c \in Cleaners \ {p} : seen'[c] = seen[c]
  <1>1. store' = store /\ exists' = exists
    BY DEF LockFails, Unlock, Crash, kafkaVars
  <1>2. \/ p \in Requests /\ ReturnRequest(p)
        \/ \E k \in {"MarkForDeletion", "DeleteStaleTags"} : p \in Cleaners /\ RestartCleaner(p, k)
    BY Zenon DEF LockFails, Unlock, Crash
  <1>3. CASE p \in Requests /\ ReturnRequest(p)
    BY <1>1, <1>3 DEF ReturnRequest, Goto, cleanerVars, TypeOK, Procs
  <1>4. ASSUME NEW k \in {"MarkForDeletion", "DeleteStaleTags"},
               p \in Cleaners, RestartCleaner(p, k)
        PROVE  /\ pc'[p] \in {"idle", "begin"}
               /\ \A q \in Procs \ {p} : /\ pc'[q] = pc[q] /\ kind'[q] = kind[q]
                                        /\ snap'[q] = snap[q] /\ call'[q] = call[q]
               /\ \A c \in Cleaners \ {p} : seen'[c] = seen[c]
    BY <1>4 DEF RestartCleaner, Goto, TypeOK, Procs
  <1> QED
    BY <1>1, <1>2, <1>3, <1>4

\* The steps of a handler between Lock and Unlock, and the lock, stay together.
LEMMA NextExclusive ==
  ASSUME Locking, TypeOK, Exclusive, [Next]_vars
  PROVE  Exclusive'
  <1> USE DEF Exclusive, TypeOK, At, Goto, Critical, Procs
  <1>1. ASSUME NEW p \in Procs, Get(p) PROVE Exclusive'
    BY <1>1 DEF Get
  <1>2. ASSUME NEW p \in Procs, GetNoNode(p) PROVE Exclusive'
    BY <1>2 DEF GetNoNode
  <1>3. ASSUME NEW p \in Procs, GetFails(p) PROVE Exclusive'
    BY <1>3 DEF GetFails, Finish
  <1>4. ASSUME NEW p \in Procs, CreateNode(p) PROVE Exclusive'
    BY <1>4 DEF CreateNode, CreateZnode
  <1>5. ASSUME NEW p \in Procs, CreateNodeFails(p) PROVE Exclusive'
    BY <1>5 DEF CreateNodeFails, Finish, CreateZnode
  <1>6. ASSUME NEW p \in Procs, Put(p) PROVE Exclusive'
    BY <1>6 DEF Put, Finish, SetZnode
  <1>7. ASSUME NEW p \in Procs, PutFails(p) PROVE Exclusive'
    BY <1>7 DEF PutFails, Finish, SetZnode
  <1>8. ASSUME NEW p \in Procs, Lock(p) PROVE Exclusive'
    BY <1>8, ConstantsAssumption DEF Lock, AfterLock
  <1>9. ASSUME NEW p \in Procs, LockFails(p) PROVE Exclusive'
    BY <1>9 DEF LockFails, ReturnRequest, RestartCleaner
  <1>10. ASSUME NEW p \in Procs, Unlock(p) PROVE Exclusive'
    BY <1>10, ReturnsOnly DEF Unlock
  <1>11. ASSUME NEW p \in Procs, Crash(p) PROVE Exclusive'
    BY <1>11 DEF Crash, ReturnRequest, RestartCleaner
  <1>12. ASSUME NEW r \in Requests, Receive(r) PROVE Exclusive'
    BY <1>12 DEF Receive
  <1>13. ASSUME NEW r \in Requests, CheckTopic(r) PROVE Exclusive'
    BY <1>13 DEF CheckTopic
  <1>14. ASSUME NEW r \in Requests, CheckTopicFails(r) PROVE Exclusive'
    BY <1>14 DEF CheckTopicFails, ReturnRequest
  <1>15. ASSUME NEW r \in Requests, CreateTopic(r) PROVE Exclusive'
    BY <1>15 DEF CreateTopic, Proceed, TopicCreated, kafkaVars
  <1>16. ASSUME NEW r \in Requests, CreateTopicFails(r) PROVE Exclusive'
    BY <1>16 DEF CreateTopicFails, Proceed, TopicCreated, kafkaVars
  <1>17. ASSUME NEW r \in Requests, Relock(r) PROVE Exclusive'
    BY <1>17 DEF Relock, Proceed
  <1>18. ASSUME NEW r \in Requests, TagTimeout(r) PROVE Exclusive'
    BY <1>18 DEF TagTimeout, Proceed
  <1>19. ASSUME NEW r \in Requests, Retry(r) PROVE Exclusive'
    BY <1>19 DEF Retry
  <1>20. ASSUME NEW r \in Requests, Describe(r) PROVE Exclusive'
    BY <1>20 DEF Describe
  <1>21. ASSUME NEW r \in Requests, DescribeFails(r) PROVE Exclusive'
    BY <1>21 DEF DescribeFails, Proceed
  <1>22. ASSUME NEW r \in Requests, DeleteTopic(r) PROVE Exclusive'
    BY <1>22 DEF DeleteTopic, Proceed, TopicDeleted, kafkaVars
  <1>23. ASSUME NEW r \in Requests, DeleteTopicFails(r) PROVE Exclusive'
    BY <1>23 DEF DeleteTopicFails, Proceed, TopicDeleted, kafkaVars
  <1>24. ASSUME NEW r \in Requests, NextObject(r) PROVE Exclusive'
    BY <1>24 DEF NextObject
  <1>25. ASSUME NEW r \in Requests, LastObject(r) PROVE Exclusive'
    BY <1>25 DEF LastObject
  <1>26. ASSUME NEW c \in Cleaners, MarkBegin(c) PROVE Exclusive'
    BY <1>26 DEF MarkBegin
  <1>27. ASSUME NEW c \in Cleaners, SweepBegin(c) PROVE Exclusive'
    BY <1>27 DEF SweepBegin
  <1>28. ASSUME NEW c \in Cleaners, GetTopics(c) PROVE Exclusive'
    BY <1>28 DEF GetTopics
  <1>29. ASSUME NEW c \in Cleaners, GetAllTags(c) PROVE Exclusive'
    BY <1>29 DEF GetAllTags
  <1>30. ASSUME NEW c \in Cleaners, ReadFails(c) PROVE Exclusive'
    BY <1>30 DEF ReadFails
  <1>31. ASSUME NEW c \in Cleaners, NEW o \in Objects, Mark(c, o) PROVE Exclusive'
    BY <1>31 DEF Mark, Edit
  <1>32. ASSUME NEW c \in Cleaners, NEW o \in Objects, Unmark(c, o) PROVE Exclusive'
    BY <1>32 DEF Unmark, Edit
  <1>33. ASSUME NEW c \in Cleaners, NEW o \in Objects, Sweep(c, o) PROVE Exclusive'
    BY <1>33 DEF Sweep, Edit
  <1>34. ASSUME NEW c \in Cleaners, NEW o \in Objects, Skip(c, o) PROVE Exclusive'
    BY <1>34 DEF Skip
  <1>35. ASSUME NEW c \in Cleaners, EndPass(c) PROVE Exclusive'
    BY <1>35 DEF EndPass
  <1>36. ASSUME NEW o \in External, ComeOrGo(o) PROVE Exclusive'
    BY <1>36 DEF ComeOrGo
  <1>37. ASSUME NEW t \in Topics, BecomeVisible(t) PROVE Exclusive'
    BY <1>37 DEF BecomeVisible
  <1>38. ASSUME Tick PROVE Exclusive'
    BY <1>38 DEF Tick
  <1>39. CASE UNCHANGED vars
    BY <1>39 DEF vars
  <1> QED
    BY <1>1, <1>2, <1>3, <1>4, <1>5, <1>6, <1>7, <1>8, <1>9, <1>10,
       <1>11, <1>12, <1>13, <1>14, <1>15, <1>16, <1>17, <1>18, <1>19,
       <1>20, <1>21, <1>22, <1>23, <1>24, <1>25, <1>26, <1>27, <1>28,
       <1>29, <1>30, <1>31, <1>32, <1>33, <1>34, <1>35, <1>36, <1>37,
       <1>38, <1>39
    DEF Next, EditStep, RequestStep, CleanerStep

\* What a handler has read stays current: nobody else writes.
LEMMA NextSnapCurrent ==
  ASSUME TypeInv, Exclusive, SnapCurrent, [Next]_vars
  PROVE  SnapCurrent'
  <1>0. ASSUME NEW p \in Procs, LockFails(p) \/ Unlock(p) \/ Crash(p) PROVE SnapCurrent'
    <2> SUFFICES ASSUME NEW q \in Procs, pc'[q] = "put"
                 PROVE  snap'[q] = store'[call'[q].obj]
      BY DEF SnapCurrent, At
    <2>1. q # p
      BY <1>0, ReturnsOnly DEF TypeInv
    <2>2. pc[q] = "put" /\ snap'[q] = snap[q] /\ call'[q] = call[q] /\ store' = store
      BY <1>0, <2>1, ReturnsOnly DEF TypeInv
    <2> QED
      BY <2>2 DEF SnapCurrent, At
  <1> USE ConstantsAssumption DEF SnapCurrent, TypeInv, TypeOK, At, Goto, Procs, editVars
  <1>1. ASSUME NEW p \in Procs, Get(p) PROVE SnapCurrent'
    BY <1>1 DEF Get
  <1>2. ASSUME NEW p \in Procs, GetNoNode(p) PROVE SnapCurrent'
    BY <1>2 DEF GetNoNode
  <1>3. ASSUME NEW p \in Procs, GetFails(p) PROVE SnapCurrent'
    BY <1>3 DEF GetFails, Finish
  <1>4. ASSUME NEW p \in Procs, CreateNode(p) PROVE SnapCurrent'
    BY <1>4, CallObject DEF CreateNode, Exclusive, Critical, WorkOK, Editing, CreateZnode
  <1>5. ASSUME NEW p \in Procs, CreateNodeFails(p) PROVE SnapCurrent'
    BY <1>5, CallObject DEF CreateNodeFails, Finish, CreateZnode, Exclusive, Critical, WorkOK, Editing
  <1>6. ASSUME NEW p \in Procs, Put(p) PROVE SnapCurrent'
    BY <1>6, CallObject DEF Put, Finish, Exclusive, Critical, WorkOK, Editing, SetZnode
  <1>7. ASSUME NEW p \in Procs, PutFails(p) PROVE SnapCurrent'
    BY <1>7, CallObject DEF PutFails, Finish, SetZnode, Exclusive, Critical, WorkOK, Editing
  <1>8. ASSUME NEW p \in Procs, Lock(p) PROVE SnapCurrent'
    BY <1>8 DEF Lock, AfterLock, RequestKinds, CleanerKinds
  <1>9. ASSUME NEW p \in Procs, LockFails(p) PROVE SnapCurrent'
    BY <1>0, <1>9
  <1>10. ASSUME NEW p \in Procs, Unlock(p) PROVE SnapCurrent'
    BY <1>0, <1>10
  <1>11. ASSUME NEW p \in Procs, Crash(p) PROVE SnapCurrent'
    BY <1>0, <1>11
  <1>12. ASSUME NEW r \in Requests, Receive(r) PROVE SnapCurrent'
    BY <1>12 DEF Receive
  <1>13. ASSUME NEW r \in Requests, CheckTopic(r) PROVE SnapCurrent'
    BY <1>13 DEF CheckTopic
  <1>14. ASSUME NEW r \in Requests, CheckTopicFails(r) PROVE SnapCurrent'
    BY <1>14 DEF CheckTopicFails, ReturnRequest
  <1>15. ASSUME NEW r \in Requests, CreateTopic(r) PROVE SnapCurrent'
    BY <1>15 DEF CreateTopic, Proceed, TopicCreated, kafkaVars
  <1>16. ASSUME NEW r \in Requests, CreateTopicFails(r) PROVE SnapCurrent'
    BY <1>16 DEF CreateTopicFails, Proceed, TopicCreated, kafkaVars
  <1>17. ASSUME NEW r \in Requests, Relock(r) PROVE SnapCurrent'
    BY <1>17 DEF Relock, Proceed
  <1>18. ASSUME NEW r \in Requests, TagTimeout(r) PROVE SnapCurrent'
    BY <1>18 DEF TagTimeout, Proceed
  <1>19. ASSUME NEW r \in Requests, Retry(r) PROVE SnapCurrent'
    BY <1>19 DEF Retry
  <1>20. ASSUME NEW r \in Requests, Describe(r) PROVE SnapCurrent'
    BY <1>20 DEF Describe
  <1>21. ASSUME NEW r \in Requests, DescribeFails(r) PROVE SnapCurrent'
    BY <1>21 DEF DescribeFails, Proceed
  <1>22. ASSUME NEW r \in Requests, DeleteTopic(r) PROVE SnapCurrent'
    BY <1>22 DEF DeleteTopic, Proceed, TopicDeleted, kafkaVars
  <1>23. ASSUME NEW r \in Requests, DeleteTopicFails(r) PROVE SnapCurrent'
    BY <1>23 DEF DeleteTopicFails, Proceed, TopicDeleted, kafkaVars
  <1>24. ASSUME NEW r \in Requests, NextObject(r) PROVE SnapCurrent'
    BY <1>24 DEF NextObject
  <1>25. ASSUME NEW r \in Requests, LastObject(r) PROVE SnapCurrent'
    BY <1>25 DEF LastObject
  <1>26. ASSUME NEW c \in Cleaners, MarkBegin(c) PROVE SnapCurrent'
    BY <1>26 DEF MarkBegin
  <1>27. ASSUME NEW c \in Cleaners, SweepBegin(c) PROVE SnapCurrent'
    BY <1>27 DEF SweepBegin
  <1>28. ASSUME NEW c \in Cleaners, GetTopics(c) PROVE SnapCurrent'
    BY <1>28 DEF GetTopics
  <1>29. ASSUME NEW c \in Cleaners, GetAllTags(c) PROVE SnapCurrent'
    BY <1>29 DEF GetAllTags
  <1>30. ASSUME NEW c \in Cleaners, ReadFails(c) PROVE SnapCurrent'
    BY <1>30 DEF ReadFails
  <1>31. ASSUME NEW c \in Cleaners, NEW o \in Objects, Mark(c, o) PROVE SnapCurrent'
    BY <1>31 DEF Mark, Edit
  <1>32. ASSUME NEW c \in Cleaners, NEW o \in Objects, Unmark(c, o) PROVE SnapCurrent'
    BY <1>32 DEF Unmark, Edit
  <1>33. ASSUME NEW c \in Cleaners, NEW o \in Objects, Sweep(c, o) PROVE SnapCurrent'
    BY <1>33 DEF Sweep, Edit
  <1>34. ASSUME NEW c \in Cleaners, NEW o \in Objects, Skip(c, o) PROVE SnapCurrent'
    BY <1>34 DEF Skip
  <1>35. ASSUME NEW c \in Cleaners, EndPass(c) PROVE SnapCurrent'
    BY <1>35 DEF EndPass
  <1>36. ASSUME NEW o \in External, ComeOrGo(o) PROVE SnapCurrent'
    BY <1>36 DEF ComeOrGo
  <1>37. ASSUME NEW t \in Topics, BecomeVisible(t) PROVE SnapCurrent'
    BY <1>37 DEF BecomeVisible
  <1>38. ASSUME Tick PROVE SnapCurrent'
    BY <1>38 DEF Tick
  <1>39. CASE UNCHANGED vars
    BY <1>39 DEF vars
  <1> QED
    BY <1>1, <1>2, <1>3, <1>4, <1>5, <1>6, <1>7, <1>8, <1>9, <1>10,
       <1>11, <1>12, <1>13, <1>14, <1>15, <1>16, <1>17, <1>18, <1>19,
       <1>20, <1>21, <1>22, <1>23, <1>24, <1>25, <1>26, <1>27, <1>28,
       <1>29, <1>30, <1>31, <1>32, <1>33, <1>34, <1>35, <1>36, <1>37,
       <1>38, <1>39
    DEF Next, EditStep, RequestStep, CleanerStep

\* With locking enabled, whoever is between Lock and Unlock is the holder, and
\* the tags a SetTags or DeleteTags has read are still the stored ones when it
\* writes.
THEOREM TagsInvariant ==
  ASSUME Locking
  PROVE  Spec => []TagsInv
  <1>1. Init => TagsInv
    BY InitTypeInv DEF Init, TypeInv, TagsInv, Exclusive, SnapCurrent, Critical, At
  <1>2. TagsInv /\ [Next]_vars => TagsInv'
    BY NextTypeInv, NextExclusive, NextSnapCurrent DEF TypeInv, TagsInv
  <1> QED
    BY <1>1, <1>2, PTL DEF Spec

\* What a write of the tags does, whether the call then succeeds or not.
LEMMA PutApplies ==
  ASSUME TagsInv, NEW p \in Procs, At(p, "put"), SetZnode(p)
  PROVE  store' = [store EXCEPT ![call[p].obj] =
                     Updated(call[p], TagsOf(store[call[p].obj]))]
  <1>1. snap[p] = store[call[p].obj] /\ snap[p] \in TagSets
    BY DEF TagsInv, TypeOK, SnapCurrent, At
  <1>2. TagsOf(store[call[p].obj]) = snap[p]
    BY <1>1, EmptyType DEF TagsOf
  <1> QED
    BY <1>2 DEF SetZnode

\* The tags change only in the step that writes them.
LEMMA OnlyPutWrites ==
  ASSUME TypeOK, [Next]_vars, NEW p \in Procs, At(p, "put"), pc'[p] # "put",
         store' # store
  PROVE  SetZnode(p)
  <1> USE DEF TypeOK, At, Goto, Procs
  <1>1. ASSUME NEW q \in Procs, Get(q) PROVE SetZnode(p)
    BY <1>1 DEF Get
  <1>2. ASSUME NEW q \in Procs, GetNoNode(q) PROVE SetZnode(p)
    BY <1>2 DEF GetNoNode
  <1>3. ASSUME NEW q \in Procs, GetFails(q) PROVE SetZnode(p)
    BY <1>3 DEF GetFails, Finish
  <1>4. ASSUME NEW q \in Procs, CreateNode(q) PROVE SetZnode(p)
    BY <1>4 DEF CreateNode, CreateZnode
  <1>5. ASSUME NEW q \in Procs, CreateNodeFails(q) PROVE SetZnode(p)
    BY <1>5 DEF CreateNodeFails, Finish, CreateZnode
  <1>6. ASSUME NEW q \in Procs, Put(q) PROVE SetZnode(p)
    BY <1>6 DEF Put, Finish, SetZnode
  <1>7. ASSUME NEW q \in Procs, PutFails(q) PROVE SetZnode(p)
    BY <1>7 DEF PutFails, Finish, SetZnode
  <1>8. ASSUME NEW q \in Procs, Lock(q) PROVE SetZnode(p)
    BY <1>8 DEF Lock, AfterLock
  <1>9. ASSUME NEW q \in Procs, LockFails(q) PROVE SetZnode(p)
    BY <1>9 DEF LockFails, ReturnRequest, RestartCleaner
  <1>10. ASSUME NEW q \in Procs, Unlock(q) PROVE SetZnode(p)
    BY <1>10 DEF Unlock, ReturnRequest, RestartCleaner
  <1>11. ASSUME NEW q \in Procs, Crash(q) PROVE SetZnode(p)
    BY <1>11 DEF Crash, ReturnRequest, RestartCleaner
  <1>12. ASSUME NEW r \in Requests, Receive(r) PROVE SetZnode(p)
    BY <1>12 DEF Receive
  <1>13. ASSUME NEW r \in Requests, CheckTopic(r) PROVE SetZnode(p)
    BY <1>13 DEF CheckTopic
  <1>14. ASSUME NEW r \in Requests, CheckTopicFails(r) PROVE SetZnode(p)
    BY <1>14 DEF CheckTopicFails, ReturnRequest
  <1>15. ASSUME NEW r \in Requests, CreateTopic(r) PROVE SetZnode(p)
    BY <1>15 DEF CreateTopic, Proceed, TopicCreated, kafkaVars
  <1>16. ASSUME NEW r \in Requests, CreateTopicFails(r) PROVE SetZnode(p)
    BY <1>16 DEF CreateTopicFails, Proceed, TopicCreated, kafkaVars
  <1>17. ASSUME NEW r \in Requests, Relock(r) PROVE SetZnode(p)
    BY <1>17 DEF Relock, Proceed
  <1>18. ASSUME NEW r \in Requests, TagTimeout(r) PROVE SetZnode(p)
    BY <1>18 DEF TagTimeout, Proceed
  <1>19. ASSUME NEW r \in Requests, Retry(r) PROVE SetZnode(p)
    BY <1>19 DEF Retry
  <1>20. ASSUME NEW r \in Requests, Describe(r) PROVE SetZnode(p)
    BY <1>20 DEF Describe
  <1>21. ASSUME NEW r \in Requests, DescribeFails(r) PROVE SetZnode(p)
    BY <1>21 DEF DescribeFails, Proceed
  <1>22. ASSUME NEW r \in Requests, DeleteTopic(r) PROVE SetZnode(p)
    BY <1>22 DEF DeleteTopic, Proceed, TopicDeleted, kafkaVars
  <1>23. ASSUME NEW r \in Requests, DeleteTopicFails(r) PROVE SetZnode(p)
    BY <1>23 DEF DeleteTopicFails, Proceed, TopicDeleted, kafkaVars
  <1>24. ASSUME NEW r \in Requests, NextObject(r) PROVE SetZnode(p)
    BY <1>24 DEF NextObject
  <1>25. ASSUME NEW r \in Requests, LastObject(r) PROVE SetZnode(p)
    BY <1>25 DEF LastObject
  <1>26. ASSUME NEW c \in Cleaners, MarkBegin(c) PROVE SetZnode(p)
    BY <1>26 DEF MarkBegin
  <1>27. ASSUME NEW c \in Cleaners, SweepBegin(c) PROVE SetZnode(p)
    BY <1>27 DEF SweepBegin
  <1>28. ASSUME NEW c \in Cleaners, GetTopics(c) PROVE SetZnode(p)
    BY <1>28 DEF GetTopics
  <1>29. ASSUME NEW c \in Cleaners, GetAllTags(c) PROVE SetZnode(p)
    BY <1>29 DEF GetAllTags
  <1>30. ASSUME NEW c \in Cleaners, ReadFails(c) PROVE SetZnode(p)
    BY <1>30 DEF ReadFails
  <1>31. ASSUME NEW c \in Cleaners, NEW o \in Objects, Mark(c, o) PROVE SetZnode(p)
    BY <1>31 DEF Mark, Edit
  <1>32. ASSUME NEW c \in Cleaners, NEW o \in Objects, Unmark(c, o) PROVE SetZnode(p)
    BY <1>32 DEF Unmark, Edit
  <1>33. ASSUME NEW c \in Cleaners, NEW o \in Objects, Sweep(c, o) PROVE SetZnode(p)
    BY <1>33 DEF Sweep, Edit
  <1>34. ASSUME NEW c \in Cleaners, NEW o \in Objects, Skip(c, o) PROVE SetZnode(p)
    BY <1>34 DEF Skip
  <1>35. ASSUME NEW c \in Cleaners, EndPass(c) PROVE SetZnode(p)
    BY <1>35 DEF EndPass
  <1>36. ASSUME NEW o \in External, ComeOrGo(o) PROVE SetZnode(p)
    BY <1>36 DEF ComeOrGo
  <1>37. ASSUME NEW t \in Topics, BecomeVisible(t) PROVE SetZnode(p)
    BY <1>37 DEF BecomeVisible
  <1>38. ASSUME Tick PROVE SetZnode(p)
    BY <1>38 DEF Tick
  <1>39. CASE UNCHANGED vars
    BY <1>39 DEF vars
  <1> QED
    BY <1>1, <1>2, <1>3, <1>4, <1>5, <1>6, <1>7, <1>8, <1>9, <1>10,
       <1>11, <1>12, <1>13, <1>14, <1>15, <1>16, <1>17, <1>18, <1>19,
       <1>20, <1>21, <1>22, <1>23, <1>24, <1>25, <1>26, <1>27, <1>28,
       <1>29, <1>30, <1>31, <1>32, <1>33, <1>34, <1>35, <1>36, <1>37,
       <1>38, <1>39
    DEF Next, EditStep, RequestStep, CleanerStep

\* With locking enabled, concurrent requests and cleaners never lose or revive
\* each other's tags: every write is one request applied to the current tags.
THEOREM OtherTagsUnmodifiedHolds ==
  ASSUME Locking
  PROVE  Spec => OtherTagsUnmodified
  <1>1. ASSUME TagsInv, [Next]_vars
        PROVE  [\A p \in Procs : At(p, "put") /\ pc'[p] # "put" /\ store' # store
                  => LET o == call[p].obj
                     IN store' = [store EXCEPT ![o] =
                                    Updated(call[p], TagsOf(store[o]))]]_vars
    BY <1>1, PutApplies, OnlyPutWrites DEF TagsInv
  <1> QED
    BY <1>1, TagsInvariant, PTL DEF Spec, OtherTagsUnmodified

-----------------------------------------------------------------------------
(***************************************************************************)
(* With locking enabled, and topics created through the registry only, the *)
(* cleaner never marks the tags of a topic that exists.                    *)
(***************************************************************************)

\* A request that returns and a cleaner that starts a pass have no call.
LEMMA ReturnMarkCalls ==
  ASSUME TypeOK, MarkCalls, NEW r \in Requests, ReturnRequest(r)
  PROVE  MarkCalls'
  BY ConstantsAssumption
  DEF MarkCalls, TypeOK, ReturnRequest, Goto, Editing, Procs, cleanerVars

\* A cleaner that starts over keeps what is known of the marks it sets.
LEMMA RestartMarkCalls ==
  ASSUME TypeOK, MarkCalls, NEW c \in Cleaners, NEW k, RestartCleaner(c, k)
  PROVE  MarkCalls'
  BY ConstantsAssumption
  DEF MarkCalls, TypeOK, RestartCleaner, Goto, Editing, Procs

\* Only MarkForDeletion sets marks.
LEMMA NextMarkCalls ==
  ASSUME TypeInv, MarkCalls, [Next]_vars
  PROVE  MarkCalls'
  <1> USE ConstantsAssumption
      DEF MarkCalls, TypeInv, TypeOK, At, Goto, Editing, Procs, handlerVars,
          editVars, cleanerVars
  <1>1. ASSUME NEW p \in Procs, Get(p) PROVE MarkCalls'
    BY <1>1 DEF Get
  <1>2. ASSUME NEW p \in Procs, GetNoNode(p) PROVE MarkCalls'
    BY <1>2 DEF GetNoNode
  <1>3. ASSUME NEW p \in Procs, GetFails(p) PROVE MarkCalls'
    BY <1>3 DEF GetFails, Finish
  <1>4. ASSUME NEW p \in Procs, CreateNode(p) PROVE MarkCalls'
    BY <1>4 DEF CreateNode, CreateZnode
  <1>5. ASSUME NEW p \in Procs, CreateNodeFails(p) PROVE MarkCalls'
    BY <1>5 DEF CreateNodeFails, Finish, CreateZnode
  <1>6. ASSUME NEW p \in Procs, Put(p) PROVE MarkCalls'
    BY <1>6 DEF Put, Finish, SetZnode
  <1>7. ASSUME NEW p \in Procs, PutFails(p) PROVE MarkCalls'
    BY <1>7 DEF PutFails, Finish, SetZnode
  <1>8. ASSUME NEW p \in Procs, Lock(p) PROVE MarkCalls'
    BY <1>8 DEF Lock, AfterLock, RequestKinds, CleanerKinds
  <1>9. ASSUME NEW p \in Procs, LockFails(p) PROVE MarkCalls'
    BY <1>9, ReturnMarkCalls, RestartMarkCalls DEF LockFails
  <1>10. ASSUME NEW p \in Procs, Unlock(p) PROVE MarkCalls'
    BY <1>10, ReturnMarkCalls, RestartMarkCalls DEF Unlock
  <1>11. ASSUME NEW p \in Procs, Crash(p) PROVE MarkCalls'
    BY <1>11, ReturnMarkCalls, RestartMarkCalls DEF Crash
  <1>12. ASSUME NEW r \in Requests, Receive(r) PROVE MarkCalls'
    BY <1>12 DEF Receive
  <1>13. ASSUME NEW r \in Requests, CheckTopic(r) PROVE MarkCalls'
    BY <1>13 DEF CheckTopic
  <1>14. ASSUME NEW r \in Requests, CheckTopicFails(r) PROVE MarkCalls'
    BY <1>14 DEF CheckTopicFails, ReturnRequest
  <1>15. ASSUME NEW r \in Requests, CreateTopic(r) PROVE MarkCalls'
    BY <1>15 DEF CreateTopic, Proceed, TopicCreated, kafkaVars
  <1>16. ASSUME NEW r \in Requests, CreateTopicFails(r) PROVE MarkCalls'
    BY <1>16 DEF CreateTopicFails, Proceed, TopicCreated, kafkaVars
  <1>17. ASSUME NEW r \in Requests, Relock(r) PROVE MarkCalls'
    BY <1>17 DEF Relock, Proceed
  <1>18. ASSUME NEW r \in Requests, TagTimeout(r) PROVE MarkCalls'
    BY <1>18 DEF TagTimeout, Proceed
  <1>19. ASSUME NEW r \in Requests, Retry(r) PROVE MarkCalls'
    BY <1>19 DEF Retry
  <1>20. ASSUME NEW r \in Requests, Describe(r) PROVE MarkCalls'
    BY <1>20 DEF Describe
  <1>21. ASSUME NEW r \in Requests, DescribeFails(r) PROVE MarkCalls'
    BY <1>21 DEF DescribeFails, Proceed
  <1>22. ASSUME NEW r \in Requests, DeleteTopic(r) PROVE MarkCalls'
    BY <1>22 DEF DeleteTopic, Proceed, TopicDeleted, kafkaVars
  <1>23. ASSUME NEW r \in Requests, DeleteTopicFails(r) PROVE MarkCalls'
    BY <1>23 DEF DeleteTopicFails, Proceed, TopicDeleted, kafkaVars
  <1>24. ASSUME NEW r \in Requests, NextObject(r) PROVE MarkCalls'
    BY <1>24 DEF NextObject
  <1>25. ASSUME NEW r \in Requests, LastObject(r) PROVE MarkCalls'
    BY <1>25 DEF LastObject
  <1>26. ASSUME NEW c \in Cleaners, MarkBegin(c) PROVE MarkCalls'
    BY <1>26 DEF MarkBegin
  <1>27. ASSUME NEW c \in Cleaners, SweepBegin(c) PROVE MarkCalls'
    BY <1>27 DEF SweepBegin
  <1>28. ASSUME NEW c \in Cleaners, GetTopics(c) PROVE MarkCalls'
    BY <1>28 DEF GetTopics
  <1>29. ASSUME NEW c \in Cleaners, GetAllTags(c) PROVE MarkCalls'
    BY <1>29 DEF GetAllTags
  <1>30. ASSUME NEW c \in Cleaners, ReadFails(c) PROVE MarkCalls'
    BY <1>30 DEF ReadFails
  <1>31. ASSUME NEW c \in Cleaners, NEW o \in Objects, Mark(c, o) PROVE MarkCalls'
    BY <1>31 DEF Mark, Edit, ToMark
  <1>32. ASSUME NEW c \in Cleaners, NEW o \in Objects, Unmark(c, o) PROVE MarkCalls'
    BY <1>32 DEF Unmark, Edit
  <1>33. ASSUME NEW c \in Cleaners, NEW o \in Objects, Sweep(c, o) PROVE MarkCalls'
    BY <1>33 DEF Sweep, Edit
  <1>34. ASSUME NEW c \in Cleaners, NEW o \in Objects, Skip(c, o) PROVE MarkCalls'
    BY <1>34 DEF Skip
  <1>35. ASSUME NEW c \in Cleaners, EndPass(c) PROVE MarkCalls'
    BY <1>35 DEF EndPass
  <1>36. ASSUME NEW o \in External, ComeOrGo(o) PROVE MarkCalls'
    BY <1>36 DEF ComeOrGo
  <1>37. ASSUME NEW t \in Topics, BecomeVisible(t) PROVE MarkCalls'
    BY <1>37 DEF BecomeVisible
  <1>38. ASSUME Tick PROVE MarkCalls'
    BY <1>38 DEF Tick
  <1>39. CASE UNCHANGED vars
    BY <1>39 DEF vars
  <1> QED
    BY <1>1, <1>2, <1>3, <1>4, <1>5, <1>6, <1>7, <1>8, <1>9, <1>10,
       <1>11, <1>12, <1>13, <1>14, <1>15, <1>16, <1>17, <1>18, <1>19,
       <1>20, <1>21, <1>22, <1>23, <1>24, <1>25, <1>26, <1>27, <1>28,
       <1>29, <1>30, <1>31, <1>32, <1>33, <1>34, <1>35, <1>36, <1>37,
       <1>38, <1>39
    DEF Next, EditStep, RequestStep, CleanerStep

\* What MarkForDeletion has seen of the topics stays current.
LEMMA NextSeenTopics ==
  ASSUME External \intersect Topics = {}, TypeInv, Exclusive, SeenTopics, [Next]_vars
  PROVE  SeenTopics'
  <1> USE ConstantsAssumption
      DEF SeenTopics, TypeInv, TypeOK, At, Goto, Editing, Procs, kafkaVars,
          handlerVars, cleanerVars
  <1>1. ASSUME NEW p \in Procs, Get(p) PROVE SeenTopics'
    BY <1>1 DEF Get
  <1>2. ASSUME NEW p \in Procs, GetNoNode(p) PROVE SeenTopics'
    BY <1>2 DEF GetNoNode
  <1>3. ASSUME NEW p \in Procs, GetFails(p) PROVE SeenTopics'
    BY <1>3 DEF GetFails, Finish
  <1>4. ASSUME NEW p \in Procs, CreateNode(p) PROVE SeenTopics'
    BY <1>4 DEF CreateNode, CreateZnode
  <1>5. ASSUME NEW p \in Procs, CreateNodeFails(p) PROVE SeenTopics'
    BY <1>5 DEF CreateNodeFails, Finish, CreateZnode
  <1>6. ASSUME NEW p \in Procs, Put(p) PROVE SeenTopics'
    BY <1>6 DEF Put, Finish, SetZnode
  <1>7. ASSUME NEW p \in Procs, PutFails(p) PROVE SeenTopics'
    BY <1>7 DEF PutFails, Finish, SetZnode
  <1>8. ASSUME NEW p \in Procs, Lock(p) PROVE SeenTopics'
    BY <1>8 DEF Lock, AfterLock, RequestKinds, CleanerKinds
  <1>9. ASSUME NEW p \in Procs, LockFails(p) PROVE SeenTopics'
    BY <1>9, ReturnsOnly
  <1>10. ASSUME NEW p \in Procs, Unlock(p) PROVE SeenTopics'
    BY <1>10, ReturnsOnly
  <1>11. ASSUME NEW p \in Procs, Crash(p) PROVE SeenTopics'
    BY <1>11, ReturnsOnly
  <1>12. ASSUME NEW r \in Requests, Receive(r) PROVE SeenTopics'
    BY <1>12 DEF Receive
  <1>13. ASSUME NEW r \in Requests, CheckTopic(r) PROVE SeenTopics'
    BY <1>13 DEF CheckTopic
  <1>14. ASSUME NEW r \in Requests, CheckTopicFails(r) PROVE SeenTopics'
    BY <1>14 DEF CheckTopicFails, ReturnRequest
  <1>15. ASSUME NEW r \in Requests, CreateTopic(r) PROVE SeenTopics'
    BY <1>15 DEF CreateTopic, Proceed, Exclusive, Critical, TopicCreated, kafkaVars
  <1>16. ASSUME NEW r \in Requests, CreateTopicFails(r) PROVE SeenTopics'
    BY <1>16 DEF CreateTopicFails, Proceed, TopicCreated, kafkaVars, Exclusive, Critical
  <1>17. ASSUME NEW r \in Requests, Relock(r) PROVE SeenTopics'
    BY <1>17 DEF Relock, Proceed
  <1>18. ASSUME NEW r \in Requests, TagTimeout(r) PROVE SeenTopics'
    BY <1>18 DEF TagTimeout, Proceed
  <1>19. ASSUME NEW r \in Requests, Retry(r) PROVE SeenTopics'
    BY <1>19 DEF Retry
  <1>20. ASSUME NEW r \in Requests, Describe(r) PROVE SeenTopics'
    BY <1>20 DEF Describe
  <1>21. ASSUME NEW r \in Requests, DescribeFails(r) PROVE SeenTopics'
    BY <1>21 DEF DescribeFails, Proceed
  <1>22. ASSUME NEW r \in Requests, DeleteTopic(r) PROVE SeenTopics'
    BY <1>22 DEF DeleteTopic, Proceed, TopicDeleted, kafkaVars
  <1>23. ASSUME NEW r \in Requests, DeleteTopicFails(r) PROVE SeenTopics'
    BY <1>23 DEF DeleteTopicFails, Proceed, TopicDeleted, kafkaVars
  <1>24. ASSUME NEW r \in Requests, NextObject(r) PROVE SeenTopics'
    BY <1>24 DEF NextObject
  <1>25. ASSUME NEW r \in Requests, LastObject(r) PROVE SeenTopics'
    BY <1>25 DEF LastObject
  <1>26. ASSUME NEW c \in Cleaners, MarkBegin(c) PROVE SeenTopics'
    BY <1>26 DEF MarkBegin
  <1>27. ASSUME NEW c \in Cleaners, SweepBegin(c) PROVE SeenTopics'
    BY <1>27 DEF SweepBegin
  <1>28. ASSUME NEW c \in Cleaners, GetTopics(c) PROVE SeenTopics'
    BY <1>28 DEF GetTopics
  <1>29. ASSUME NEW c \in Cleaners, GetAllTags(c) PROVE SeenTopics'
    BY <1>29 DEF GetAllTags
  <1>30. ASSUME NEW c \in Cleaners, ReadFails(c) PROVE SeenTopics'
    BY <1>30 DEF ReadFails
  <1>31. ASSUME NEW c \in Cleaners, NEW o \in Objects, Mark(c, o) PROVE SeenTopics'
    BY <1>31 DEF Mark, Edit
  <1>32. ASSUME NEW c \in Cleaners, NEW o \in Objects, Unmark(c, o) PROVE SeenTopics'
    BY <1>32 DEF Unmark, Edit
  <1>33. ASSUME NEW c \in Cleaners, NEW o \in Objects, Sweep(c, o) PROVE SeenTopics'
    BY <1>33 DEF Sweep, Edit
  <1>34. ASSUME NEW c \in Cleaners, NEW o \in Objects, Skip(c, o) PROVE SeenTopics'
    BY <1>34 DEF Skip
  <1>35. ASSUME NEW c \in Cleaners, EndPass(c) PROVE SeenTopics'
    BY <1>35 DEF EndPass
  <1>36. ASSUME NEW o \in External, ComeOrGo(o) PROVE SeenTopics'
    BY <1>36 DEF ComeOrGo
  <1>37. ASSUME NEW t \in Topics, BecomeVisible(t) PROVE SeenTopics'
    BY <1>37 DEF BecomeVisible
  <1>38. ASSUME Tick PROVE SeenTopics'
    BY <1>38 DEF Tick
  <1>39. CASE UNCHANGED vars
    BY <1>39 DEF vars
  <1> QED
    BY <1>1, <1>2, <1>3, <1>4, <1>5, <1>6, <1>7, <1>8, <1>9, <1>10,
       <1>11, <1>12, <1>13, <1>14, <1>15, <1>16, <1>17, <1>18, <1>19,
       <1>20, <1>21, <1>22, <1>23, <1>24, <1>25, <1>26, <1>27, <1>28,
       <1>29, <1>30, <1>31, <1>32, <1>33, <1>34, <1>35, <1>36, <1>37,
       <1>38, <1>39
    DEF Next, EditStep, RequestStep, CleanerStep

\* A step that changes the tag store is a write of some SetTags or DeleteTags.
StoreWrite ==
  \E p \in Procs : \/ At(p, "put") /\ SetZnode(p)
                   \/ At(p, "mknode") /\ CreateZnode(p)

LEMMA StoreSteps ==
  ASSUME [Next]_vars, store' # store
  PROVE  StoreWrite
  <1>1. ASSUME NEW q \in Procs, Get(q) PROVE StoreWrite
    BY <1>1 DEF Get
  <1>2. ASSUME NEW q \in Procs, GetNoNode(q) PROVE StoreWrite
    BY <1>2 DEF GetNoNode
  <1>3. ASSUME NEW q \in Procs, GetFails(q) PROVE StoreWrite
    BY <1>3 DEF GetFails, Finish
  <1>4. ASSUME NEW q \in Procs, CreateNode(q) PROVE StoreWrite
    BY <1>4 DEF CreateNode, StoreWrite
  <1>5. ASSUME NEW q \in Procs, CreateNodeFails(q) PROVE StoreWrite
    BY <1>5 DEF CreateNodeFails, StoreWrite
  <1>6. ASSUME NEW q \in Procs, Put(q) PROVE StoreWrite
    BY <1>6 DEF Put, StoreWrite
  <1>7. ASSUME NEW q \in Procs, PutFails(q) PROVE StoreWrite
    BY <1>7 DEF PutFails, StoreWrite
  <1>8. ASSUME NEW q \in Procs, Lock(q) PROVE StoreWrite
    BY <1>8 DEF Lock, AfterLock
  <1>9. ASSUME NEW q \in Procs, LockFails(q) PROVE StoreWrite
    BY <1>9 DEF LockFails, ReturnRequest, RestartCleaner
  <1>10. ASSUME NEW q \in Procs, Unlock(q) PROVE StoreWrite
    BY <1>10 DEF Unlock, ReturnRequest, RestartCleaner
  <1>11. ASSUME NEW q \in Procs, Crash(q) PROVE StoreWrite
    BY <1>11 DEF Crash, ReturnRequest, RestartCleaner
  <1>12. ASSUME NEW r \in Requests, Receive(r) PROVE StoreWrite
    BY <1>12 DEF Receive
  <1>13. ASSUME NEW r \in Requests, CheckTopic(r) PROVE StoreWrite
    BY <1>13 DEF CheckTopic
  <1>14. ASSUME NEW r \in Requests, CheckTopicFails(r) PROVE StoreWrite
    BY <1>14 DEF CheckTopicFails, ReturnRequest
  <1>15. ASSUME NEW r \in Requests, CreateTopic(r) PROVE StoreWrite
    BY <1>15 DEF CreateTopic, Proceed, TopicCreated, kafkaVars
  <1>16. ASSUME NEW r \in Requests, CreateTopicFails(r) PROVE StoreWrite
    BY <1>16 DEF CreateTopicFails, Proceed, TopicCreated, kafkaVars
  <1>17. ASSUME NEW r \in Requests, Relock(r) PROVE StoreWrite
    BY <1>17 DEF Relock, Proceed
  <1>18. ASSUME NEW r \in Requests, TagTimeout(r) PROVE StoreWrite
    BY <1>18 DEF TagTimeout, Proceed
  <1>19. ASSUME NEW r \in Requests, Retry(r) PROVE StoreWrite
    BY <1>19 DEF Retry
  <1>20. ASSUME NEW r \in Requests, Describe(r) PROVE StoreWrite
    BY <1>20 DEF Describe
  <1>21. ASSUME NEW r \in Requests, DescribeFails(r) PROVE StoreWrite
    BY <1>21 DEF DescribeFails, Proceed
  <1>22. ASSUME NEW r \in Requests, DeleteTopic(r) PROVE StoreWrite
    BY <1>22 DEF DeleteTopic, Proceed, TopicDeleted, kafkaVars
  <1>23. ASSUME NEW r \in Requests, DeleteTopicFails(r) PROVE StoreWrite
    BY <1>23 DEF DeleteTopicFails, Proceed, TopicDeleted, kafkaVars
  <1>24. ASSUME NEW r \in Requests, NextObject(r) PROVE StoreWrite
    BY <1>24 DEF NextObject
  <1>25. ASSUME NEW r \in Requests, LastObject(r) PROVE StoreWrite
    BY <1>25 DEF LastObject
  <1>26. ASSUME NEW c \in Cleaners, MarkBegin(c) PROVE StoreWrite
    BY <1>26 DEF MarkBegin
  <1>27. ASSUME NEW c \in Cleaners, SweepBegin(c) PROVE StoreWrite
    BY <1>27 DEF SweepBegin
  <1>28. ASSUME NEW c \in Cleaners, GetTopics(c) PROVE StoreWrite
    BY <1>28 DEF GetTopics
  <1>29. ASSUME NEW c \in Cleaners, GetAllTags(c) PROVE StoreWrite
    BY <1>29 DEF GetAllTags
  <1>30. ASSUME NEW c \in Cleaners, ReadFails(c) PROVE StoreWrite
    BY <1>30 DEF ReadFails
  <1>31. ASSUME NEW c \in Cleaners, NEW o \in Objects, Mark(c, o) PROVE StoreWrite
    BY <1>31 DEF Mark, Edit
  <1>32. ASSUME NEW c \in Cleaners, NEW o \in Objects, Unmark(c, o) PROVE StoreWrite
    BY <1>32 DEF Unmark, Edit
  <1>33. ASSUME NEW c \in Cleaners, NEW o \in Objects, Sweep(c, o) PROVE StoreWrite
    BY <1>33 DEF Sweep, Edit
  <1>34. ASSUME NEW c \in Cleaners, NEW o \in Objects, Skip(c, o) PROVE StoreWrite
    BY <1>34 DEF Skip
  <1>35. ASSUME NEW c \in Cleaners, EndPass(c) PROVE StoreWrite
    BY <1>35 DEF EndPass
  <1>36. ASSUME NEW o \in External, ComeOrGo(o) PROVE StoreWrite
    BY <1>36 DEF ComeOrGo
  <1>37. ASSUME NEW t \in Topics, BecomeVisible(t) PROVE StoreWrite
    BY <1>37 DEF BecomeVisible
  <1>38. ASSUME Tick PROVE StoreWrite
    BY <1>38 DEF Tick
  <1>39. CASE UNCHANGED vars
    BY <1>39 DEF vars
  <1> QED
    BY <1>1, <1>2, <1>3, <1>4, <1>5, <1>6, <1>7, <1>8, <1>9, <1>10,
       <1>11, <1>12, <1>13, <1>14, <1>15, <1>16, <1>17, <1>18, <1>19,
       <1>20, <1>21, <1>22, <1>23, <1>24, <1>25, <1>26, <1>27, <1>28,
       <1>29, <1>30, <1>31, <1>32, <1>33, <1>34, <1>35, <1>36, <1>37,
       <1>38, <1>39
    DEF Next, EditStep, RequestStep, CleanerStep

MarkInv == TagsInv /\ MarkCalls /\ SeenTopics

\* A write that marks a topic is MarkForDeletion's, of a topic it has not seen.
LEMMA MarkStep ==
  ASSUME MarkInv, [Next]_vars, NEW o \in Topics,
         TagsOf(store[o]).mark = NoMark, TagsOf(store'[o]).mark # NoMark
  PROVE  o \notin exists
  <1>1. PICK p \in Procs : \/ At(p, "put") /\ SetZnode(p)
                           \/ At(p, "mknode") /\ CreateZnode(p)
    BY StoreSteps DEF StoreWrite
  <1>2. call[p] \in Calls /\ call[p].obj \in Objects /\ o \in Objects
    BY <1>1, CallObject
    DEF MarkInv, TagsInv, WorkOK, At, Editing, Objects
  <1>3. CASE At(p, "mknode") /\ CreateZnode(p)
    BY <1>2, <1>3 DEF CreateZnode, MarkInv, TagsInv, TypeOK, TagsOf, EmptyTagSet
  <1>4. CASE At(p, "put") /\ SetZnode(p)
    <2>1. store' = [store EXCEPT ![call[p].obj] =
                      Updated(call[p], TagsOf(store[call[p].obj]))]
      BY <1>4, PutApplies DEF MarkInv
    <2>2. call[p].obj = o
      BY <2>1, <1>2 DEF MarkInv, TagsInv, TypeOK
    <2>3. store'[o] = Updated(call[p], TagsOf(store[o]))
      BY <2>1, <2>2, <1>2 DEF MarkInv, TagsInv, TypeOK
    <2>4. TagsOf(store[o]) \in TagSets
      BY <1>2, EmptyType DEF MarkInv, TagsInv, TypeOK, TagsOf
    <2>5. Updated(call[p], TagsOf(store[o])).mark # NoMark
      BY <2>3, <2>4, <1>2, UpdatedType, EmptyType DEF TagsOf
    <2>6. call[p].verb = "set" /\ call[p].ts.mark # NoMark
      BY <2>5 DEF Updated
    <2>7. p \in Cleaners /\ kind[p] = "MarkForDeletion" /\ o \notin seen[p]
      BY <1>4, <2>2, <2>6 DEF MarkInv, MarkCalls, At, Editing, Procs
    <2> QED
      BY <1>4, <2>7 DEF MarkInv, SeenTopics, At, Editing
  <1> QED
    BY <1>1, <1>3, <1>4

\* With locking enabled and topics created through the registry only, tags are
\* marked for deletion only while their topic does not exist, whatever requests
\* create, delete and tag it meanwhile.
THEOREM MarkedTopicIsMissingHolds ==
  ASSUME Locking, External \intersect Topics = {}
  PROVE  Spec => MarkedTopicIsMissing
  <1>1. Init => MarkCalls /\ SeenTopics
    BY DEF Init, MarkCalls, SeenTopics, Editing, Procs
  <1>2. MarkInv /\ [Next]_vars /\ TagsInv' => MarkInv'
    BY NextMarkCalls, NextSeenTopics DEF MarkInv, TagsInv, TypeInv
  <1>3. MarkInv /\ [Next]_vars =>
          [\A o \in Topics :
             TagsOf(store[o]).mark = NoMark /\ TagsOf(store'[o]).mark # NoMark
               => o \notin exists]_vars
    BY MarkStep
  <1>4. TagsInv /\ MarkCalls /\ SeenTopics => MarkInv
    BY DEF MarkInv
  <1> QED
    BY <1>1, <1>2, <1>3, <1>4, TagsInvariant, PTL DEF Spec, MarkedTopicIsMissing

-----------------------------------------------------------------------------
(***************************************************************************)
(* What a request was told it has stored is stored.                        *)
(***************************************************************************)
AckOK(r) == /\ RequestOf(r)
            /\ PositionOK(r)
            /\ kind[r] \in SetKinds => ProgressOK(r)
            /\ kind[r] \in SetTopicKinds => TaggedTopicOK(r)

\* The steps of r, and the steps that leave its variables alone.
RequestActs(r) == \/ EditStep(r) \/ Lock(r) \/ LockFails(r) \/ Unlock(r) \/ Crash(r)
                  \/ Receive(r) \/ RequestStep(r)
SameRequest(r) == /\ pc'[r] = pc[r] /\ kind'[r] = kind[r] /\ call'[r] = call[r]
                  /\ res'[r] = res[r] /\ ids'[r] = ids[r] /\ nth'[r] = nth[r]
                  /\ keys'[r] = keys[r]

\* While r has the lock, nobody else writes tags or removes a topic.
Undisturbed(r) == pc[r] \in Critical => store' = store /\ exists \intersect Topics \subseteq exists'

\* A handler that returns changes its own variables only.
LEMMA ReturnsAlone ==
  ASSUME TypeOK, NEW p \in Procs, LockFails(p) \/ Unlock(p) \/ Crash(p),
         NEW r \in Requests \ {p}
  PROVE  SameRequest(r)
  <1>1. \/ p \in Requests /\ ReturnRequest(p)
        \/ \E k \in {"MarkForDeletion", "DeleteStaleTags"} : p \in Cleaners /\ RestartCleaner(p, k)
    BY Zenon DEF LockFails, Unlock, Crash
  <1>2. CASE p \in Requests /\ ReturnRequest(p)
    BY <1>2 DEF ReturnRequest, Goto, SameRequest, TypeOK, Procs
  <1>3. ASSUME NEW k, p \in Cleaners, RestartCleaner(p, k)
        PROVE  SameRequest(r)
    BY <1>3 DEF RestartCleaner, Goto, SameRequest, requestVars, TypeOK, Procs
  <1> QED
    BY <1>1, <1>2, <1>3

\* A step is one of r, or leaves it alone and undisturbed.
LEMMA OthersStep ==
  ASSUME External \intersect Topics = {}, TypeInv, Exclusive, [Next]_vars, NEW r \in Requests
  PROVE  RequestActs(r) \/ (SameRequest(r) /\ Undisturbed(r))
  <1> SUFFICES ASSUME ~RequestActs(r) PROVE SameRequest(r) /\ Undisturbed(r)
    OBVIOUS
  <1>0. r \in Procs
    BY DEF Procs
  <1>1. ASSUME NEW p \in Procs, LockFails(p) \/ Unlock(p) \/ Crash(p)
        PROVE  SameRequest(r) /\ Undisturbed(r)
    BY <1>1, ReturnsOnly, ReturnsAlone DEF RequestActs, Undisturbed, TypeInv
  <1>2. ASSUME NEW p \in Procs, EditStep(p) \/ Lock(p) PROVE SameRequest(r) /\ Undisturbed(r)
    <2>1. p # r
      BY <1>2 DEF RequestActs
    <2> USE DEF SameRequest, Undisturbed, At, Goto, TypeInv, TypeOK, Procs, kafkaVars,
                handlerVars, editVars, requestVars
    <2>2. CASE Get(p)
      BY <2>1, <2>2 DEF Get
    <2>3. CASE GetNoNode(p)
      BY <2>1, <2>3 DEF GetNoNode
    <2>4. CASE GetFails(p)
      BY <2>1, <2>4 DEF GetFails, Finish
    <2>5. CASE CreateNode(p)
      BY <2>1, <2>5, <1>0 DEF CreateNode, Exclusive, Critical, CreateZnode
    <2>6. CASE CreateNodeFails(p)
      BY <2>1, <2>6, <1>0 DEF CreateNodeFails, Finish, Exclusive, Critical
    <2>7. CASE Put(p)
      BY <2>1, <2>7, <1>0 DEF Put, Finish, Exclusive, Critical, SetZnode
    <2>8. CASE PutFails(p)
      BY <2>1, <2>8, <1>0 DEF PutFails, Finish, Exclusive, Critical
    <2>9. CASE Lock(p)
      BY <2>1, <2>9 DEF Lock
    <2> QED
      BY <1>2, <2>2, <2>3, <2>4, <2>5, <2>6, <2>7, <2>8, <2>9 DEF EditStep
  <1>3. ASSUME NEW q \in Requests, Receive(q) \/ RequestStep(q)
        PROVE  SameRequest(r) /\ Undisturbed(r)
    <2>1. q # r
      BY <1>3 DEF RequestActs
    <2> USE DEF SameRequest, Undisturbed, At, Goto, TypeInv, TypeOK, Procs, kafkaVars,
                handlerVars, editVars, requestVars
    <2>2. CASE Receive(q)
      BY <2>1, <2>2 DEF Receive
    <2>3. CASE CheckTopic(q)
      BY <2>1, <2>3 DEF CheckTopic
    <2>4. CASE CheckTopicFails(q)
      BY <2>1, <2>4 DEF CheckTopicFails, ReturnRequest
    <2>5. CASE CreateTopic(q)
      BY <2>1, <2>5 DEF CreateTopic, Proceed, TopicCreated, kafkaVars
    <2>6. CASE CreateTopicFails(q)
      BY <2>1, <2>6 DEF CreateTopicFails, Proceed, TopicCreated, kafkaVars
    <2>7. CASE Relock(q)
      BY <2>1, <2>7 DEF Relock, Proceed
    <2>8. CASE TagTimeout(q)
      BY <2>1, <2>8 DEF TagTimeout, Proceed
    <2>9. CASE Retry(q)
      BY <2>1, <2>9 DEF Retry
    <2>10. CASE Describe(q)
      BY <2>1, <2>10 DEF Describe
    <2>11. CASE DescribeFails(q)
      BY <2>1, <2>11 DEF DescribeFails, Proceed
    <2>12. CASE DeleteTopic(q)
      BY <2>1, <2>12, <1>0 DEF DeleteTopic, Proceed, Exclusive, Critical, TopicDeleted, kafkaVars
    <2>13. CASE DeleteTopicFails(q)
      BY <2>1, <2>13, <1>0 DEF DeleteTopicFails, Proceed, TopicDeleted, Exclusive, Critical
    <2>14. CASE NextObject(q)
      BY <2>1, <2>14 DEF NextObject
    <2>15. CASE LastObject(q)
      BY <2>1, <2>15 DEF LastObject
    <2> QED
      BY <1>3, <2>2, <2>3, <2>4, <2>5, <2>6, <2>7, <2>8, <2>9, <2>10, <2>11, <2>12, <2>13, <2>14, <2>15 DEF RequestStep
  <1>4. ASSUME NEW c \in Cleaners, CleanerStep(c) PROVE SameRequest(r) /\ Undisturbed(r)
    <2>1. c # r
      BY ConstantsAssumption
    <2> USE DEF SameRequest, Undisturbed, At, Goto, TypeInv, TypeOK, Procs, kafkaVars,
                handlerVars, editVars, requestVars
    <2>2. CASE MarkBegin(c) \/ SweepBegin(c) \/ GetTopics(c) \/ GetAllTags(c) \/ ReadFails(c) \/ EndPass(c)
      BY <2>1, <2>2 DEF MarkBegin, SweepBegin, GetTopics, GetAllTags, ReadFails, EndPass
    <2>3. ASSUME NEW o \in Objects, Mark(c, o) \/ Unmark(c, o) \/ Sweep(c, o)
          PROVE  SameRequest(r) /\ Undisturbed(r)
      BY <2>1, <2>3 DEF Mark, Unmark, Sweep, Edit
    <2>4. ASSUME NEW o \in Objects, Skip(c, o) PROVE SameRequest(r) /\ Undisturbed(r)
      BY <2>4 DEF Skip
    <2> QED
      BY <1>4, <2>2, <2>3, <2>4 DEF CleanerStep
  <1>5. ASSUME NEW o \in External, ComeOrGo(o) PROVE SameRequest(r) /\ Undisturbed(r)
    BY <1>5 DEF ComeOrGo, SameRequest, Undisturbed, handlerVars, editVars, requestVars
  <1>6. ASSUME NEW t \in Topics, BecomeVisible(t) PROVE SameRequest(r) /\ Undisturbed(r)
    BY <1>6 DEF BecomeVisible, SameRequest, Undisturbed, handlerVars, editVars, requestVars
  <1>7. CASE Tick \/ UNCHANGED vars
    BY <1>7 DEF Tick, vars, SameRequest, Undisturbed, kafkaVars, handlerVars, editVars, requestVars
  <1> QED
    BY <1>1, <1>2, <1>3, <1>4, <1>5, <1>6, <1>7 DEF Next

\* The objects of a request are those of what a client has asked for.
LEMMA RequestObjects ==
  ASSUME NEW r \in Requests, RequestOf(r), ~At(r, "idle")
  PROVE  /\ Len(ids[r]) \in Nat \ {0}
         /\ kind[r] # "TagBrokers" => Len(ids[r]) = 1
         /\ kind[r] \in SetTopicKinds => Head(ids[r]) \in Topics
         /\ \A n \in 1 .. Len(ids[r]) : ids[r][n] \in Objects
  <1>1. PICK op \in Ops : op.kind = kind[r] /\ op.ids = ids[r] /\ op.keys = keys[r]
    BY DEF RequestOf
  <1>2. op.ids \in Seq(Objects) /\ Len(op.ids) > 0
    BY ConstantsAssumption
  <1>3. op.kind # "TagBrokers" => Len(op.ids) = 1
    BY ConstantsAssumption
  <1>4. \A n \in 1 .. Len(op.ids) : op.ids[n] \in IF op.kind \in TopicKinds THEN Topics ELSE Brokers
    BY ConstantsAssumption
  <1>5. op.kind \in SetTopicKinds => op.ids[1] \in Topics
    BY <1>2, <1>4 DEF TopicKinds, SetTopicKinds
  <1> QED
    BY <1>1, <1>2, <1>3, <1>5

\* A request that is left alone is where it was.
LEMMA SameAck ==
  ASSUME NEW r \in Requests, AckOK(r), SameRequest(r), Undisturbed(r)
  PROVE  AckOK(r)'
  <1> USE DEF SameRequest, At
  <1>1. RequestOf(r)'
    BY DEF AckOK, RequestOf
  <1>2. PositionOK(r)'
    BY DEF AckOK, PositionOK
  <1>3. ASSUME kind[r] \in SetKinds PROVE ProgressOK(r)'
    <2>1. CASE pc[r] \in Critical
      BY <1>3, <2>1 DEF AckOK, ProgressOK, StoredTo, Stored, Undisturbed
    <2>2. CASE pc[r] \notin Critical
      BY <2>2 DEF ProgressOK, Critical, Editing
    <2> QED
      BY <2>1, <2>2
  <1>4. ASSUME kind[r] \in SetTopicKinds PROVE TaggedTopicOK(r)'
    <2>1. CASE pc[r] \in Critical
      <3>1. Head(ids[r]) \in Topics
        BY <1>4, <2>1, RequestObjects DEF AckOK, Critical
      <3> QED
        BY <1>4, <2>1, <3>1 DEF AckOK, TaggedTopicOK, Undisturbed
    <2>2. CASE pc[r] \notin Critical
      BY <2>2 DEF TaggedTopicOK, Critical, Editing
    <2> QED
      BY <2>1, <2>2
  <1> QED
    BY <1>1, <1>2, <1>3, <1>4 DEF AckOK

\* A handler that returns is ready for the next request.
LEMMA ReturnAck ==
  ASSUME TypeOK, NEW r \in Requests, ReturnRequest(r)
  PROVE  AckOK(r)'
  <1>1. pc'[r] = "idle" /\ nth'[r] = 0 /\ res'[r] = "ok"
    BY DEF ReturnRequest, Goto, TypeOK, Procs
  <1> QED
    BY <1>1 DEF AckOK, RequestOf, PositionOK, ProgressOK, TaggedTopicOK, At, Before, Editing, Critical

\* The request of a handler stays what it is until the handler returns.
SameOp(r) == kind'[r] = kind[r] /\ ids'[r] = ids[r] /\ keys'[r] = keys[r]

\* A call fails: only where something may fail, if it is a SetTags.
LEMMA FinishFails ==
  ASSUME TypeOK, NEW r \in Requests, AckOK(r), pc[r] \in Editing, Finish(r, "err"),
         kind[r] \in SetKinds => MayFail
  PROVE  AckOK(r)'
  <1>1. /\ SameOp(r) /\ nth'[r] = nth[r] /\ res'[r] = "err" /\ exists' = exists
        /\ pc'[r] = IF kind[r] = "CreateTopic" THEN "retry" ELSE "next"
    BY DEF Finish, Goto, SameOp, TypeOK, Procs, kafkaVars, requestVars
  <1>2. nth[r] \in 1 .. Len(ids[r])
    BY DEF AckOK, PositionOK
  <1>3. RequestOf(r)'
    BY <1>1 DEF AckOK, RequestOf, SameOp, At, Editing
  <1>4. PositionOK(r)'
    BY <1>1, <1>2 DEF PositionOK, At, Before, Editing, SameOp
  <1>5. kind[r] \in SetKinds => ProgressOK(r)'
    BY <1>1 DEF ProgressOK, At, Editing
  <1>6. kind[r] \in SetTopicKinds => TaggedTopicOK(r)'
    BY <1>1 DEF AckOK, TaggedTopicOK, At, Editing, Critical, SameOp
  <1> QED
    BY <1>1, <1>3, <1>4, <1>5, <1>6 DEF AckOK, SameOp

\* A SetTags that is applied adds its keys, and takes none away.
LEMMA SetGrows ==
  ASSUME TagsInv, NEW p \in Procs, At(p, "put"), SetZnode(p), call[p].verb = "set",
         call[p] \in Calls, NEW o \in Objects
  PROVE  /\ TagsOf(store[o]).keys \subseteq TagsOf(store'[o]).keys
         /\ o = call[p].obj => call[p].ts.keys \subseteq TagsOf(store'[o]).keys
  <1>1. store' = [store EXCEPT ![call[p].obj] = Updated(call[p], TagsOf(store[call[p].obj]))]
    BY PutApplies
  <1>2. call[p].obj \in Objects /\ store \in [Objects -> TagSets \union {NoTags}]
    BY CallObject DEF TagsInv, TypeOK
  <1>3. TagsOf(store[call[p].obj]) \in TagSets
    BY <1>2, EmptyType DEF TagsOf
  <1>4. Updated(call[p], TagsOf(store[call[p].obj])) \in TagSets
    BY <1>3, UpdatedType
  <1>5. Updated(call[p], TagsOf(store[call[p].obj])) # NoTags
    BY <1>4, EmptyType
  <1>6. CASE o = call[p].obj
    BY <1>1, <1>2, <1>5, <1>6 DEF TagsOf, Updated
  <1>7. CASE o # call[p].obj
    BY <1>1, <1>2, <1>7
  <1> QED
    BY <1>6, <1>7

\* The steps of SetTags and DeleteTags.
LEMMA EditAck ==
  ASSUME TagsInv, NEW r \in Requests, AckOK(r), EditStep(r)
  PROVE  AckOK(r)'
  <1>0. TypeOK /\ r \in Procs
    BY DEF TagsInv, Procs
  <1>1. ASSUME pc[r] \in Editing
        PROVE  /\ Len(ids[r]) \in Nat \ {0}
               /\ kind[r] # "TagBrokers" => Len(ids[r]) = 1
               /\ \A n \in 1 .. Len(ids[r]) : ids[r][n] \in Objects
               /\ nth[r] \in 1 .. Len(ids[r])
               /\ call[r].obj = ids[r][nth[r]] /\ call[r].ts.keys = keys[r]
               /\ kind[r] \in SetKinds => call[r].verb = "set"
               /\ kind[r] \in SetTopicKinds => Head(ids[r]) \in exists
    <2>1. ~At(r, "idle")
      BY <1>1 DEF At, Editing
    <2>2. kind[r] \in SetTopicKinds => Head(ids[r]) \in exists
      BY <1>1 DEF AckOK, TaggedTopicOK, At, Editing, Critical
    <2> QED
      BY <1>1, <2>1, <2>2, RequestObjects DEF AckOK, PositionOK
  <1>2. CASE Get(r) \/ GetNoNode(r)
    <2>1. pc[r] \in Editing
      BY <1>2 DEF Get, GetNoNode, At, Editing
    <2>2. /\ SameOp(r) /\ nth'[r] = nth[r] /\ res'[r] = res[r] /\ call'[r] = call[r]
          /\ exists' = exists /\ store' = store
          /\ pc'[r] \in {"put", "mknode"}
          /\ pc'[r] = "mknode" => store[call[r].obj] = NoTags
      BY <1>0, <1>2 DEF Get, GetNoNode, Goto, SameOp, TypeOK, kafkaVars, handlerVars,
        editVars, requestVars
    <2>3. RequestOf(r)'
      BY <2>1, <2>2 DEF AckOK, RequestOf, SameOp, At, Editing
    <2>4. PositionOK(r)'
      BY <2>1, <2>2 DEF AckOK, PositionOK, At, Before, Editing, SameOp
    <2>5. kind[r] \in SetKinds => ProgressOK(r)'
      BY <2>1, <2>2 DEF AckOK, ProgressOK, Stored, At, Editing, SameOp
    <2>6. kind[r] \in SetTopicKinds => TaggedTopicOK(r)'
      BY <1>1, <2>1, <2>2 DEF TaggedTopicOK, SameOp
    <2> QED
      BY <2>2, <2>3, <2>4, <2>5, <2>6 DEF AckOK, SameOp
  <1>3. CASE GetFails(r)
    <2>1. pc[r] \in Editing
      BY <1>3 DEF GetFails, At, Editing
    <2>2. kind[r] \in SetKinds => MayFail
      BY <1>1, <1>3, <2>1 DEF GetFails
    <2> QED
      BY <1>0, <1>3, <2>1, <2>2, FinishFails DEF GetFails
  <1>4. CASE CreateNodeFails(r)
    <2>1. pc[r] \in Editing
      BY <1>4 DEF CreateNodeFails, At, Editing, CreateZnode
    <2>2. kind[r] \in SetKinds => MayFail
      BY <1>4 DEF CreateNodeFails, AckOK, ProgressOK, CreateZnode
    <2> QED
      BY <1>0, <1>4, <2>1, <2>2, FinishFails DEF CreateNodeFails, CreateZnode
  <1>5. CASE PutFails(r)
    <2>1. pc[r] \in Editing
      BY <1>5 DEF PutFails, At, Editing, SetZnode
    <2> QED
      BY <1>0, <1>5, <2>1, FinishFails DEF PutFails, SetZnode
  <1>6. CASE CreateNode(r)
    <2>1. pc[r] \in Editing
      BY <1>6 DEF CreateNode, At, Editing, CreateZnode
    <2>2. /\ SameOp(r) /\ nth'[r] = nth[r] /\ res'[r] = res[r] /\ call'[r] = call[r]
          /\ exists' = exists /\ pc'[r] = "put"
      BY <1>0, <1>6 DEF CreateNode, Goto, SameOp, TypeOK, kafkaVars, handlerVars, requestVars, CreateZnode
    <2>3. \A o \in Objects : TagsOf(store'[o]) = TagsOf(store[o])
      BY <1>0, <1>6, EmptyType DEF CreateNode, TagsOf, TypeOK, CreateZnode
    <2>4. RequestOf(r)'
      BY <2>1, <2>2 DEF AckOK, RequestOf, SameOp, At, Editing
    <2>5. PositionOK(r)'
      BY <2>1, <2>2 DEF AckOK, PositionOK, At, Before, Editing, SameOp
    <2>6. ASSUME kind[r] \in SetKinds PROVE ProgressOK(r)'
      <3>1. ~MayFail => \A n \in 1 .. (nth[r] - 1) : Stored(r, n) /\ ids[r][n] \in Objects
        BY <1>1, <2>1, <2>6 DEF AckOK, ProgressOK
      <3>2. ~MayFail => \A n \in 1 .. (nth[r] - 1) : Stored(r, n)'
        BY <2>2, <2>3, <3>1 DEF Stored, SameOp
      <3> QED
        BY <2>1, <2>2, <2>6, <3>2 DEF AckOK, ProgressOK, At, Editing
    <2>7. kind[r] \in SetTopicKinds => TaggedTopicOK(r)'
      BY <1>1, <2>1, <2>2 DEF TaggedTopicOK, SameOp
    <2> QED
      BY <2>2, <2>4, <2>5, <2>6, <2>7 DEF AckOK, SameOp
  <1>7. CASE Put(r)
    <2>1. pc[r] \in Editing
      BY <1>7 DEF Put, At, Editing, SetZnode
    <2>2. /\ SameOp(r) /\ nth'[r] = nth[r] /\ res'[r] = "ok" /\ exists' = exists
          /\ pc'[r] = IF kind[r] = "CreateTopic" THEN "unlock" ELSE "next"
      BY <1>0, <1>7 DEF Put, Finish, Goto, SameOp, TypeOK, kafkaVars, requestVars, SetZnode
    <2>3. RequestOf(r)'
      BY <2>1, <2>2 DEF AckOK, RequestOf, SameOp, At, Editing
    <2>4. PositionOK(r)'
      BY <1>1, <2>1, <2>2 DEF PositionOK, At, Before, Editing, SameOp
    <2>5. ASSUME kind[r] \in SetKinds PROVE ProgressOK(r)'
      <3>1. call[r] \in Calls
        BY <1>0, <2>1 DEF TagsInv, WorkOK
      <3>2. ~MayFail => \A n \in 1 .. (nth[r] - 1) : Stored(r, n) /\ ids[r][n] \in Objects
        BY <1>1, <2>1, <2>5 DEF AckOK, ProgressOK
      <3>3. ~MayFail => \A n \in 1 .. (nth[r] - 1) : Stored(r, n)'
        BY <1>0, <1>1, <1>7, <2>1, <2>2, <2>5, <3>1, <3>2, SetGrows DEF Put, Stored, SameOp
      <3>0. PICK k : k = nth[r]
        OBVIOUS
      <3>4. Stored(r, k)'
        BY <3>0, <1>0, <1>1, <1>7, <2>1, <2>2, <2>5, <3>1, SetGrows DEF Put, Stored, SameOp
      <3>5. ~MayFail => \A n \in 1 .. nth[r] : Stored(r, n)'
        <4> SUFFICES ASSUME ~MayFail, NEW n \in 1 .. nth[r] PROVE Stored(r, n)'
          OBVIOUS
        <4>1. n \in 1 .. (nth[r] - 1) \/ n = k
          BY <1>1, <2>1, <3>0
        <4> QED
          BY <3>3, <3>4, <4>1
      <3>6. kind[r] = "CreateTopic" => nth[r] = Len(ids[r])
        BY <1>1, <2>1
      <3> QED
        BY <2>2, <3>0, <3>4, <3>5, <3>6 DEF ProgressOK, StoredTo, At, Editing, SameOp
    <2>6. kind[r] \in SetTopicKinds => TaggedTopicOK(r)'
      BY <1>1, <2>1, <2>2 DEF TaggedTopicOK, SameOp
    <2> QED
      BY <2>2, <2>3, <2>4, <2>5, <2>6 DEF AckOK, SameOp
  <1> QED
    BY <1>2, <1>3, <1>4, <1>5, <1>6, <1>7 DEF EditStep

\* A handler that is left with an error goes to its Unlock or to its next attempt.
LEMMA ErrAck ==
  ASSUME NEW r \in Requests, AckOK(r), pc[r] \in Critical,
         SameOp(r), res'[r] = "err",
         pc'[r] = "unlock" \/ (pc'[r] = "retry" /\ pc[r] # "unlock")
  PROVE  AckOK(r)'
  <1>1. RequestOf(r)'
    BY DEF AckOK, RequestOf, SameOp, At, Critical
  <1>2. PositionOK(r)'
    BY DEF PositionOK, At, Before, Editing
  <1>3. ProgressOK(r)'
    BY DEF ProgressOK, At, Editing
  <1>4. TaggedTopicOK(r)'
    BY DEF TaggedTopicOK, Editing, At
  <1> QED
    BY <1>1, <1>2, <1>3, <1>4 DEF AckOK, SameOp

\* The other steps of a handler.
LEMMA HandlerAck ==
  ASSUME TypeInv, NEW r \in Requests, AckOK(r),
         Receive(r) \/ Lock(r) \/ RequestStep(r)
  PROVE  AckOK(r)'
  <1>0. TypeOK /\ r \in Procs
    BY DEF TypeInv, Procs
  <1>a. ASSUME ~At(r, "idle")
        PROVE  /\ Len(ids[r]) \in Nat \ {0}
               /\ \A n \in 1 .. Len(ids[r]) : ids[r][n] \in Objects
    BY <1>a, RequestObjects DEF AckOK
  <1> USE DEF At, Goto, SameOp, kafkaVars, handlerVars, editVars, requestVars
  <1>1. CASE Receive(r)
    <2>1. PICK op \in Ops : /\ kind'[r] = op.kind /\ ids'[r] = op.ids /\ keys'[r] = op.keys
                           /\ pc'[r] \in {"check", "lock"}
      BY <1>0, <1>1 DEF Receive, TypeOK
    <2>2. pc[r] = "idle" /\ nth'[r] = nth[r] /\ res'[r] = res[r]
      BY <1>0, <1>1 DEF Receive, TypeOK
    <2>3. RequestOf(r)'
      BY <2>1 DEF RequestOf
    <2>4. PositionOK(r)'
      BY <2>1, <2>2 DEF AckOK, PositionOK, Before, Editing
    <2>5. ProgressOK(r)' /\ TaggedTopicOK(r)'
      BY <2>1 DEF ProgressOK, TaggedTopicOK, Editing, Critical
    <2> QED
      BY <2>3, <2>4, <2>5 DEF AckOK
  <1>2. CASE Lock(r) \/ CheckTopic(r)
    <2>1. /\ SameOp(r) /\ nth'[r] = nth[r] /\ res'[r] = res[r]
          /\ pc[r] \in {"lock", "check"}
          /\ pc'[r] \in {"lock", "createtopic", "describe", "next", "topics", "alltags"}
          /\ kind[r] \in SetTopicKinds => pc'[r] \in {"lock", "createtopic", "describe"}
      BY <1>0, <1>2 DEF Lock, CheckTopic, AfterLock, TypeOK, RequestKinds, CleanerKinds, SetTopicKinds
    <2>2. RequestOf(r)'
      BY <2>1 DEF AckOK, RequestOf
    <2>3. nth[r] = 0 /\ res[r] = "ok"
      BY <2>1 DEF AckOK, PositionOK, Before
    <2>4. PositionOK(r)'
      BY <1>a, <2>1, <2>3 DEF PositionOK, Before, Editing
    <2>5. ProgressOK(r)'
      BY <2>1, <2>3 DEF ProgressOK, StoredTo, Editing
    <2>6. kind[r] \in SetTopicKinds => TaggedTopicOK(r)'
      BY <2>1 DEF TaggedTopicOK, Editing
    <2> QED
      BY <2>1, <2>2, <2>4, <2>5, <2>6 DEF AckOK
  <1>3. CASE CheckTopicFails(r)
    BY <1>0, <1>3, ReturnAck DEF CheckTopicFails
  <1>4. CASE CreateTopic(r)
    <2>1. /\ SameOp(r) /\ nth'[r] = nth[r] /\ res'[r] = "ok"
          /\ pc[r] = "createtopic"
          /\ pc'[r] = IF keys[r] = {} THEN "unlock" ELSE "relock"
      BY <1>0, <1>4 DEF CreateTopic, Proceed, TypeOK, TopicCreated, kafkaVars
    <2>2. RequestOf(r)'
      BY <2>1 DEF AckOK, RequestOf
    <2>3. PositionOK(r)'
      BY <2>1 DEF AckOK, PositionOK, Before, Editing
    <2>4. ProgressOK(r)'
      BY <2>1 DEF ProgressOK, StoredTo, Stored, Editing
    <2>5. TaggedTopicOK(r)'
      BY <2>1 DEF TaggedTopicOK, Editing
    <2> QED
      BY <2>2, <2>3, <2>4, <2>5 DEF AckOK
  <1>5. CASE CreateTopicFails(r) \/ TagTimeout(r) \/ DescribeFails(r) \/ DeleteTopicFails(r)
    <2>1. /\ SameOp(r) /\ res'[r] = "err"
          /\ pc[r] \in {"createtopic", "relock", "describe", "deletetopic"}
          /\ pc'[r] = "unlock" \/ (pc'[r] = "retry" /\ pc[r] = "describe")
      BY <1>0, <1>5 DEF CreateTopicFails, TagTimeout, DescribeFails, DeleteTopicFails, Proceed, TypeOK, TopicCreated, kafkaVars, TopicDeleted
    <2> QED
      BY <2>1, ErrAck DEF Critical
  <1>6. CASE Relock(r)
    <2>1. /\ SameOp(r) /\ nth'[r] = nth[r] /\ res'[r] = "ok" /\ exists' = exists
          /\ pc[r] = "relock" /\ pc'[r] = "describe"
      BY <1>0, <1>6 DEF Relock, Proceed, TypeOK
    <2>2. RequestOf(r)' /\ PositionOK(r)' /\ ProgressOK(r)'
      BY <2>1 DEF AckOK, RequestOf, PositionOK, ProgressOK, Before, Editing
    <2>3. kind[r] \in SetTopicKinds => TaggedTopicOK(r)'
      BY <2>1 DEF AckOK, TaggedTopicOK, Editing
    <2> QED
      BY <2>1, <2>2, <2>3 DEF AckOK
  <1>7. CASE Retry(r)
    <2>1. /\ SameOp(r) /\ nth'[r] = 0 /\ res'[r] = res[r] /\ exists' = exists
          /\ pc[r] = "retry" /\ pc'[r] \in {"relock", "unlock"}
      BY <1>0, <1>7 DEF Retry, TypeOK
    <2>2. res[r] = "err"
      BY <2>1 DEF AckOK, PositionOK
    <2>3. RequestOf(r)' /\ PositionOK(r)' /\ ProgressOK(r)'
      BY <2>1, <2>2 DEF AckOK, RequestOf, PositionOK, ProgressOK, Before, Editing
    <2>4. kind[r] \in SetTopicKinds => TaggedTopicOK(r)'
      BY <2>1, <2>2 DEF TaggedTopicOK, Editing
    <2> QED
      BY <2>1, <2>3, <2>4 DEF AckOK
  <1>8. CASE Describe(r)
    <2>1. /\ SameOp(r) /\ nth'[r] = nth[r] /\ res'[r] = res[r] /\ exists' = exists
          /\ pc[r] = "describe" /\ Head(ids[r]) \in exists
          /\ pc'[r] = IF kind[r] = "DeleteTopic" THEN "deletetopic" ELSE "next"
      BY <1>0, <1>8 DEF Describe, Visible, TypeOK
    <2>2. nth[r] = 0 /\ res[r] = "ok"
      BY <2>1 DEF AckOK, PositionOK, Before
    <2>3. RequestOf(r)'
      BY <2>1 DEF AckOK, RequestOf
    <2>4. PositionOK(r)'
      BY <1>a, <2>1, <2>2 DEF PositionOK, Before, Editing
    <2>5. ProgressOK(r)'
      BY <2>1, <2>2 DEF ProgressOK, StoredTo, Editing
    <2>6. kind[r] \in SetTopicKinds => TaggedTopicOK(r)'
      BY <2>1 DEF AckOK, TaggedTopicOK, Editing
    <2> QED
      BY <2>1, <2>3, <2>4, <2>5, <2>6 DEF AckOK
  <1>9. CASE DeleteTopic(r)
    <2>1. SameOp(r) /\ pc[r] = "deletetopic" /\ pc'[r] = "unlock"
      BY <1>0, <1>9 DEF DeleteTopic, Proceed, TypeOK, TopicDeleted, kafkaVars
    <2>2. kind[r] = "DeleteTopic"
      BY <2>1 DEF AckOK, PositionOK
    <2>3. RequestOf(r)' /\ PositionOK(r)'
      BY <2>1 DEF AckOK, RequestOf, PositionOK, Before, Editing
    <2> QED
      BY <2>1, <2>2, <2>3 DEF AckOK, SetKinds, SetTopicKinds
  <1>10. CASE NextObject(r)
    <2>1. /\ SameOp(r) /\ nth'[r] = nth[r] + 1 /\ res'[r] = res[r]
          /\ exists' = exists /\ store' = store
          /\ pc[r] = "next" /\ nth[r] < Len(ids[r]) /\ pc'[r] = "get"
      BY <1>0, <1>10 DEF NextObject, TypeOK
    <2>2. /\ call'[r].obj = ids[r][nth[r] + 1] /\ call'[r].ts.keys = keys[r]
          /\ kind[r] \in SetKinds => call'[r].verb = "set"
      BY <1>0, <1>10 DEF NextObject, TypeOK, SetKinds
    <2>3. nth[r] \in 0 .. Len(ids[r])
      BY <2>1 DEF AckOK, PositionOK
    <2>4. RequestOf(r)'
      BY <2>1 DEF AckOK, RequestOf
    <2>5. PositionOK(r)'
      BY <1>a, <2>1, <2>2, <2>3 DEF PositionOK, Before, Editing
    <2>6. ASSUME kind[r] \in SetKinds PROVE ProgressOK(r)'
      <3>1. ~MayFail => \A n \in 1 .. nth[r] : Stored(r, n)
        BY <2>1, <2>6 DEF AckOK, ProgressOK, StoredTo
      <3>2. ~MayFail => \A n \in 1 .. (nth'[r] - 1) : Stored(r, n)'
        BY <1>a, <2>1, <2>3, <3>1 DEF Stored
      <3> QED
        BY <2>1, <2>6, <3>2 DEF AckOK, ProgressOK, Editing
    <2>7. kind[r] \in SetTopicKinds => TaggedTopicOK(r)'
      BY <2>1 DEF AckOK, TaggedTopicOK, Editing
    <2> QED
      BY <2>1, <2>4, <2>5, <2>6, <2>7 DEF AckOK
  <1>11. CASE LastObject(r)
    <2>1. /\ SameOp(r) /\ nth'[r] = nth[r] /\ res'[r] = res[r]
          /\ exists' = exists /\ store' = store
          /\ pc[r] = "next" /\ nth[r] = Len(ids[r]) /\ pc'[r] = "unlock"
      BY <1>0, <1>11 DEF LastObject, TypeOK
    <2>2. RequestOf(r)' /\ PositionOK(r)'
      BY <2>1 DEF AckOK, RequestOf, PositionOK, Before, Editing
    <2>3. kind[r] \in SetKinds => ProgressOK(r)'
      BY <2>1 DEF AckOK, ProgressOK, StoredTo, Stored, Editing
    <2>4. kind[r] \in SetTopicKinds => TaggedTopicOK(r)'
      BY <2>1 DEF AckOK, TaggedTopicOK, Editing
    <2> QED
      BY <2>1, <2>2, <2>3, <2>4 DEF AckOK
  <1> QED
    BY <1>1, <1>2, <1>3, <1>4, <1>5, <1>6, <1>7, <1>8, <1>9, <1>10, <1>11 DEF RequestStep

\* With locking enabled and topics created and deleted through the registry only:
\* when a handler returns success to a request that sets tags, the tags of its last
\* object are stored, those of all its objects where no call fails, and its topic
\* exists, through topics that Kafka refuses without an error, lost replies,
\* retries, concurrent requests, the cleaner's sweeps and crashes of others.
THEOREM AckedTagsAreStored ==
  ASSUME Locking, External \intersect Topics = {}
  PROVE  Spec => []AckedTagsStored
  <1>1. Init => AckInv
    BY DEF Init, AckInv, RequestOf, PositionOK, ProgressOK, TaggedTopicOK, At, Before, Editing,
      Critical, Procs
  <1>2. ASSUME TagsInv, AckInv, [Next]_vars PROVE AckInv'
    <2> SUFFICES ASSUME NEW r \in Requests PROVE AckOK(r)'
      BY DEF AckInv, AckOK
    <2>0. TypeInv /\ Exclusive /\ AckOK(r)
      BY <1>2 DEF TagsInv, TypeInv, AckInv, AckOK
    <2>1. CASE EditStep(r)
      BY <1>2, <2>0, <2>1, EditAck
    <2>2. CASE Receive(r) \/ Lock(r) \/ RequestStep(r)
      BY <2>0, <2>2, HandlerAck
    <2>3. CASE LockFails(r) \/ Unlock(r) \/ Crash(r)
      <3>1. ReturnRequest(r)
        BY <2>3, ConstantsAssumption DEF LockFails, Unlock, Crash
      <3> QED
        BY <2>0, <3>1, ReturnAck DEF TypeInv
    <2>4. CASE SameRequest(r) /\ Undisturbed(r)
      BY <2>0, <2>4, SameAck
    <2> QED
      BY <1>2, <2>0, <2>1, <2>2, <2>3, <2>4, OthersStep DEF RequestActs
  <1>3. AckInv => AckedTagsStored
    <2> SUFFICES ASSUME AckInv, NEW r \in Requests, At(r, "unlock"), res[r] = "ok",
                        kind[r] \in SetKinds, keys[r] # {}
                 PROVE  /\ kind[r] \in TopicKinds => Head(ids[r]) \in exists
                        /\ Stored(r, Len(ids[r]))
                        /\ ~MayFail => \A n \in 1 .. Len(ids[r]) : Stored(r, n)
      BY DEF AckedTagsStored
    <2>1. Len(ids[r]) \in Nat \ {0}
      BY RequestObjects DEF AckInv, At
    <2>2. StoredTo(r, Len(ids[r]))
      BY DEF AckInv, ProgressOK
    <2>3. kind[r] \in TopicKinds => Head(ids[r]) \in exists
      BY DEF AckInv, TaggedTopicOK, SetKinds, TopicKinds, SetTopicKinds
    <2> QED
      BY <2>1, <2>2, <2>3 DEF StoredTo
  <1>4. Spec => []TagsInv
    BY TagsInvariant
  <1> QED
    BY <1>1, <1>2, <1>3, <1>4, PTL DEF Spec
=============================================================================
