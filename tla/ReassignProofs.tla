--------------------------- MODULE ReassignProofs ---------------------------
(***************************************************************************)
(* Proofs about `topicmappr rebalance` and `scale`, for every cluster and  *)
(* all parameters: the plans assign no partition twice to a broker, keep   *)
(* the racks apart, account for the storage they move and stay within the  *)
(* tolerance that they were computed for.                                  *)
(***************************************************************************)
EXTENDS Reassign, MapperProofs

(* What Read establishes and no later step changes.                        *)
Cluster ==
    /\ original \in Seq(Partition)
    /\ \A n \in DOMAIN original : Distinct(original[n].replicas)
    /\ bmIn \in [DOMAIN bmIn -> BrokerRecord]
    /\ IsFiniteSet(DOMAIN bmIn) /\ DOMAIN bmIn \subseteq Int
    /\ OnlineIn(original) \subseteq DOMAIN bmIn /\ Offline \notin DOMAIN bmIn
    /\ StubBrokerID \in DOMAIN bmIn /\ bmIn[StubBrokerID].rack = NoRack
    /\ bmIn[StubBrokerID].free = 0
    /\ targets \in Seq(Int) /\ Range(targets) \subseteq Real(bmIn)
    /\ Len(targets) <= Cardinality(DOMAIN bmIn)

(* A command that is not refused replaces no broker.                       *)
Unreplaced == \A id \in Real(bmIn) : ~bmIn[id].replace

(* Nothing is planned yet.                                                 *)
Fresh ==
    /\ results = {} /\ mappings = {} /\ plan = {} /\ bm = <<>> /\ visit = 1
    /\ \/ pc = "exit"
       \/ pc = "read" /\ original \in InputMaps
       \/ pc = "start" /\ Cluster /\ Unreplaced

PlanTypes ==
    \A r \in plan : /\ r \in [n : DOMAIN original, source : Range(targets), dest : DOMAIN bmIn]
                    /\ r.source \in Range(original[r.n].replicas)

(* Plans move storage between the brokers and change nothing else of them. *)
SameBrokers ==
    /\ bm \in [DOMAIN bmIn -> BrokerRecord]
    /\ \A id \in DOMAIN bmIn : bm[id].rack = bmIn[id].rack /\ bm[id].replace = bmIn[id].replace

Started ==
    /\ pc # "read" /\ Cluster /\ Unreplaced
    /\ bm \in [DOMAIN bmIn -> BrokerRecord]
    /\ mappings \subseteq Mappings /\ PlanTypes
    /\ visit = 1 \/ visit <= Len(targets)
    /\ pc = "plan" => SameBrokers
    /\ \A r \in results : r.bm \in [DOMAIN bmIn -> BrokerRecord] /\ r.tol \in Nat

TypeInv ==
    /\ pc \in {"read", "start", "plan", "optimize", "write", "done", "exit"}
    /\ params \in ParamSets
    /\ todo \subseteq Nat /\ tol \in Nat /\ visit \in Nat \ {0} /\ exhausted \in Nat
    /\ Fresh \/ Started

(* Not in the same rack, as far as racks are known.                        *)
Apart(a, b) == bmIn[a].rack # NoRack => bmIn[a].rack # bmIn[b].rack

(* A partition leaves a broker at most once, and not for one that is to be *)
(* relieved itself.                                                        *)
MovedOnce ==
    /\ \A r \in plan : <<r.source, r.n>> \notin mappings /\ r.dest \notin Range(targets)
    /\ \A r, q \in plan : r.n = q.n /\ r.source = q.source => r = q

(* By the constraints a destination is apart from all of the set that does *)
(* not leave it and from all that are planned to join it.                  *)
ByConstraints ==
    \A r \in plan :
        /\ r.dest \notin Range(original[r.n].replicas)
        /\ \A id \in Range(original[r.n].replicas) \ {r.source} : Apart(r.dest, id)
        /\ \A q \in plan : q.n = r.n /\ q # r => q.dest # r.dest /\ Apart(r.dest, q.dest)

ByLocality == \A r \in plan : bmIn[r.dest].rack = bmIn[r.source].rack /\ r.dest # r.source

PlanInv ==
    /\ pc = "plan" => MovedOnce /\ IF params.localityScoped THEN ByLocality ELSE ByConstraints
    /\ NoBrokerTwice /\ RacksKept

StorageInv ==
    /\ pc = "plan" => \A id \in Real(bmIn) :
                         bm[id].free + SizeOn(Relocated, id) = bmIn[id].free + SizeOn(original, id)
    /\ StorageMatchesMap

(* Targets gain storage up to the upper limit, others give down to the     *)
(* lower one; as all have some, the mean remains the same.  The stub has   *)
(* none to give.                                                           *)
AllCounted == Counted(bmIn) = Real(bmIn)
UpperLimit(x, t) == 100 * Cardinality(Real(bmIn)) * x <= MeanSum(bmIn) * (100 + t)
LowerLimit(x, t) == 100 * Cardinality(Real(bmIn)) * x >= MeanSum(bmIn) * (100 - t)
Limited ==
    /\ Counted(bm) = Real(bmIn) /\ MeanSum(bm) = MeanSum(bmIn)
    /\ bm[StubBrokerID] = bmIn[StubBrokerID]
    /\ \A id \in Range(targets) :
         bm[id].free = bmIn[id].free \/ (bm[id].free > bmIn[id].free /\ UpperLimit(bm[id].free, tol))
    /\ \A id \in Real(bmIn) \ Range(targets) :
         bm[id].free = bmIn[id].free \/ (bm[id].free < bmIn[id].free /\ LowerLimit(bm[id].free, tol))

ToleranceInv ==
    /\ pc = "plan" /\ AllCounted /\ tol < 100 => Limited
    /\ WithinTolerance

-----------------------------------------------------------------------------
(* Types.                                                                  *)

(* offloadTargetsBySize lists each broker to relieve once.                 *)
LEMMA TargetsInOrder ==
  ASSUME NEW brokers, NEW ids \in SUBSET Int, IsFiniteSet(ids),
         \A id \in ids : brokers[id].free \in Int
  PROVE  LET ts == offloadTargetsBySize(brokers, ids)
         IN  ts \in Seq(ids) /\ Len(ts) = Cardinality(ids) /\ Range(ts) = ids
<1> DEFINE before(a, b) == \/ brokers[a].free < brokers[b].free
                           \/ brokers[a].free = brokers[b].free /\ a < b
           R == {p \in ids \X ids : before(p[1], p[2])}
           ts == offloadTargetsBySize(brokers, ids)
<1>1. TotalOrder(R, ids)
  BY DEF TotalOrder
<1>2. PICK f \in Bijection(1 .. Cardinality(ids), ids) : Ordered(f, R)
  <2> HIDE DEF R
  <2> QED BY <1>1, OrderedEnumeration
<1>3. \A i, j \in DOMAIN f : i < j => before(f[i], f[j])
  BY <1>2 DEF Ordered
<1>4. ts \in Bijection(1 .. Cardinality(ids), ids)
  BY <1>3, Zenon DEF offloadTargetsBySize
<1> HIDE DEF ts
<1>5. /\ ts \in [1 .. Cardinality(ids) -> ids]
      /\ \A t \in ids : \E i \in 1 .. Cardinality(ids) : ts[i] = t
  BY <1>4 DEF Bijection, Injection, Surjection
<1>6. Cardinality(ids) \in Nat
  BY FS_CardinalityType
<1>7. ts \in Seq(ids) /\ Len(ts) = Cardinality(ids) /\ Range(ts) = ids
  <2> DEFINE k == Cardinality(ids)
  <2> HIDE DEF k
  <2>1. k \in Nat /\ ts \in [1 .. k -> ids]
    BY <1>5, <1>6 DEF k
  <2>2. ts \in Seq(ids) /\ Len(ts) = k /\ DOMAIN ts = 1 .. k
    BY <2>1
  <2>3. Range(ts) = ids
    BY <1>5, <2>2, Zenon DEF Range, k
  <2> QED BY <2>2, <2>3 DEF k
<1> QED BY <1>7 DEF ts

(* Reading the metadata gives a broker map of the cluster, and a run that  *)
(* goes on has no broker to be replaced.                                   *)
LEMMA ReadCluster ==
  ASSUME params \in ParamSets, original \in InputMaps, Read
  PROVE  Cluster' /\ (pc' = "start" => Unreplaced')
<1> DEFINE map == removeTopics(original, params.topicsExclude)
           mapped == BrokerMapFromPartitionMap(map, Meta, FALSE)
           updated == Update(mapped, params.brokers, Meta)
           status == UpdateStatus(mapped, params.brokers, Meta)
           A == Added(mapped, params.brokers, Meta)
<1>1. /\ pc = "read" /\ original' = map /\ bmIn' = updated
      /\ targets' = offloadTargetsBySize(bmIn', OffloadTargets(bmIn'))
      /\ pc' = IF refused(status) THEN "exit" ELSE "start"
  BY Zenon DEF Read
<1>2. /\ original \in Seq(Partition)
      /\ \A n \in DOMAIN original : Distinct(original[n].replicas)
      /\ DOMAIN Meta \subseteq Nat /\ IsFiniteSet(DOMAIN Meta) /\ Metadata(Meta)
      /\ params.brokers \subseteq Int /\ IsFiniteSet(params.brokers)
  BY InputAssumption DEF Partition, Metadata
<1>3. map \in Seq(Partition) /\ \A n \in DOMAIN map : Distinct(map[n].replicas)
  <2> DEFINE places == {n \in DOMAIN original : original[n].topic \notin params.topicsExclude}
  <2>1. map = Pruned(original, places)
    BY DEF removeTopics
  <2>2. places \in SUBSET DOMAIN original
    OBVIOUS
  <2> HIDE DEF map, places
  <2> QED BY <1>2, <2>1, <2>2, PrunedMap
<1>4. FromMap(mapped, map, Meta)
  BY <1>2, <1>3, MappedBrokers
<1>5. /\ mapped \in [DOMAIN mapped -> BrokerRecord] /\ DOMAIN mapped = OnlineIn(map) \cup {StubBrokerID}
      /\ mapped[StubBrokerID] = StubBroker
  BY <1>4 DEF FromMap
<1>6. Updated(updated, mapped, params.brokers, Meta)
  <2> HIDE DEF mapped, map
  <2> QED BY <1>2, <1>5, UpdatedBrokers
<1> HIDE DEF map
<1>7. IsFiniteSet(DOMAIN mapped) /\ DOMAIN mapped \subseteq Int
  <2>1. IsFiniteSet(OnlineIn(map)) /\ OnlineIn(map) \subseteq Int
    BY <1>3, FiniteMap, FS_Subset DEF OnlineIn
  <2> HIDE DEF mapped
  <2>2. IsFiniteSet(OnlineIn(map) \cup {StubBrokerID})
    BY <2>1, FS_AddElement
  <2> QED BY <1>5, <2>1, <2>2 DEF StubBrokerID
<1> HIDE DEF mapped
<1>8. IsFiniteSet(DOMAIN mapped \cup A) /\ DOMAIN mapped \cup A \subseteq Int
  <2>1. DOMAIN Meta \subseteq Int
    BY <1>2
  <2> QED BY <1>2, <1>7, <2>1, FiniteUpdate
<1> HIDE DEF updated, A
<1>9. /\ bmIn' \in [DOMAIN mapped \cup A -> BrokerRecord]
      /\ bmIn'[StubBrokerID] = StubBroker
  BY <1>1, <1>5, <1>6 DEF Updated, A
<1>10. DOMAIN bmIn' = DOMAIN mapped \cup A
  BY <1>9
<1> DEFINE ids == OffloadTargets(bmIn')
<1>11. /\ ids \in SUBSET Real(bmIn') /\ ids \in SUBSET Int /\ IsFiniteSet(ids)
       /\ \A id \in ids : bmIn'[id].free \in Int
  <2>1. ids \in SUBSET Real(bmIn')
    BY DEF OffloadTargets
  <2> HIDE DEF ids
  <2>2. ids \in SUBSET (DOMAIN mapped \cup A)
    BY <1>10, <2>1 DEF Real
  <2>3. IsFiniteSet(ids) /\ ids \in SUBSET Int
    BY <1>8, <2>2, FS_Subset
  <2>4. \A id \in ids : bmIn'[id] \in BrokerRecord
    BY <1>9, <2>2
  <2> QED BY <2>1, <2>3, <2>4 DEF BrokerRecord
<1>12. targets' \in Seq(ids) /\ Len(targets') = Cardinality(ids) /\ Range(targets') = ids
  <2> HIDE DEF ids
  <2>1. LET ts == offloadTargetsBySize(bmIn', ids)
        IN  ts \in Seq(ids) /\ Len(ts) = Cardinality(ids) /\ Range(ts) = ids
    BY <1>11, TargetsInOrder
  <2> QED BY <1>1, <2>1 DEF ids
<1> HIDE DEF ids
<1>13. Cardinality(ids) <= Cardinality(DOMAIN bmIn')
  <2>1. ids \in SUBSET DOMAIN bmIn'
    BY <1>11 DEF Real
  <2> QED BY <1>8, <1>10, <2>1, FS_Subset
<1>14. targets' \in Seq(Int)
  BY <1>11, <1>12, SequenceSubset
<1>15. StubBroker.rack = NoRack /\ StubBroker.free = 0
  BY DEF StubBroker, NewBroker
<1>16. Cluster'
  <2>1. original' \in Seq(Partition) /\ \A n \in DOMAIN original' : Distinct(original'[n].replicas)
    BY <1>1, <1>3
  <2>2. /\ OnlineIn(original') \subseteq DOMAIN bmIn' /\ StubBrokerID \in DOMAIN bmIn'
        /\ Offline \notin DOMAIN bmIn'
    <3>1. Offline \notin DOMAIN mapped
      BY <1>5 DEF OnlineIn, Offline, StubBrokerID
    <3>2. Offline \notin A
      BY <1>2, <3>1 DEF A, Added, Provided, Offline, AllExisting
    <3> QED BY <1>1, <1>5, <1>10, <3>1, <3>2
  <2>3. Range(targets') \subseteq Real(bmIn') /\ Len(targets') <= Cardinality(DOMAIN bmIn')
    BY <1>11, <1>12, <1>13
  <2>4. bmIn' \in [DOMAIN bmIn' -> BrokerRecord] /\ IsFiniteSet(DOMAIN bmIn') /\ DOMAIN bmIn' \subseteq Int
    BY <1>8, <1>9, <1>10
  <2> QED BY <1>9, <1>14, <1>15, <2>1, <2>2, <2>3, <2>4 DEF Cluster
<1>17. ASSUME pc' = "start" PROVE Unreplaced'
  <2>1. ~refused(status)
    BY <1>1, <1>17
  <2>2. /\ Absent(mapped, Meta) \cap Provided(mapped, params.brokers, Meta) = {}
        /\ Absent(mapped, Meta) \ Provided(mapped, params.brokers, Meta) = {}
        /\ Real(mapped) \ Provided(mapped, params.brokers, Meta) = {}
    BY <2>1 DEF refused, UpdateStatus
  <2> SUFFICES ASSUME NEW id \in Real(bmIn') PROVE ~bmIn'[id].replace
    BY DEF Unreplaced
  <2>3. CASE id \in A
    BY <1>1, <1>6, <2>3 DEF Updated, A
  <2>4. CASE id \in Real(mapped)
    <3>1. bmIn'[id].replace <=> mapped[id].replace \/ id \in Absent(mapped, Meta)
                                  \/ id \notin Provided(mapped, params.brokers, Meta)
      BY <1>1, <1>6, <2>4 DEF Updated
    <3>2. ~mapped[id].replace
      BY <1>4, <1>5, <2>4 DEF FromMap, Real
    <3> QED BY <2>2, <2>4, <3>1, <3>2
  <2> QED BY <1>10, <2>3, <2>4 DEF Real
<1> QED BY <1>16, <1>17

(* The partitions that a source offers are mapped to it.                   *)
LEMMA TopHeld ==
  ASSUME Cluster, params \in ParamSets, NEW source, NEW top \in LargestPartitions(source)
  PROVE  /\ DOMAIN top \subseteq Nat
         /\ \A k \in DOMAIN top : top[k] \in DOMAIN original /\ <<source, top[k]>> \in mappings
<1> DEFINE held == {n \in DOMAIN original : <<source, n>> \in mappings}
           h == InOrder(held)
           small(t) == {k \in DOMAIN t : Size(original[t[k]]) < params.sizeThreshold}
           ends(t) == {Len(t), params.partitionLimit} \cup {k - 1 : k \in small(t)}
<1>1. h \in Seq(held)
  <2>1. DOMAIN original \subseteq Int /\ IsFiniteSet(DOMAIN original)
    BY SequenceRange DEF Cluster
  <2>2. held \in SUBSET DOMAIN original
    OBVIOUS
  <2>3. held \in SUBSET Int /\ IsFiniteSet(held)
    BY <2>1, <2>2, FS_Subset
  <2> HIDE DEF held
  <2> QED BY <2>3, InOrderSequence
<1> DEFINE sorted(f) == [i \in DOMAIN h |-> h[f[i]]]
<1>2. PICK f \in Bijection(DOMAIN h, DOMAIN h) : top = SubSeq(sorted(f), 1, Min(ends(sorted(f))))
  BY Zenon DEF LargestPartitions, Sortings
<1> DEFINE s == sorted(f)
<1>3. s = [i \in DOMAIN h |-> h[f[i]]]
  OBVIOUS
<1> HIDE DEF held, h, s
<1>4. s \in Seq(held)
  <2>1. f \in [DOMAIN h -> DOMAIN h]
    BY DEF Bijection, Injection
  <2>2. DOMAIN h = 1 .. Len(h) /\ Len(h) \in Nat /\ \A i \in DOMAIN h : h[i] \in held
    BY <1>1
  <2>3. s \in [1 .. Len(h) -> held]
    BY <1>3, <2>1, <2>2
  <2> QED BY <2>2, <2>3
<1>5. Min(ends(s)) \in Nat /\ Min(ends(s)) <= Len(s)
  <2>1. params.partitionLimit \in Nat /\ Len(s) \in Nat /\ DOMAIN s \subseteq Nat \ {0}
    BY <1>4, InputAssumption
  <2>2. ends(s) \in SUBSET Nat /\ ends(s) # {} /\ Len(s) \in ends(s)
    BY <2>1
  <2> HIDE DEF ends
  <2> QED BY <2>1, <2>2, MinNat
<1> HIDE DEF ends
<1>6. /\ DOMAIN top \subseteq Nat
      /\ \A k \in DOMAIN top : top[k] \in held
  <2> DEFINE l == Min(ends(s))
  <2> HIDE DEF l
  <2>1. l \in Nat /\ l <= Len(s) /\ top = SubSeq(s, 1, l)
    BY <1>2, <1>5 DEF l, s
  <2>2. DOMAIN top = 1 .. l /\ \A k \in 1 .. l : top[k] = s[k] /\ s[k] \in held
    BY <1>4, <2>1
  <2> QED BY <2>1, <2>2
<1> QED BY <1>6 DEF held

(* A relocation that planRelocationsForBroker may schedule.                *)
Schedulable(source, r) ==
    /\ source \in Range(targets)
    /\ r.n \in DOMAIN original /\ <<source, r.n>> \in mappings
    /\ r = [n |-> r.n, source |-> source, dest |-> r.dest]
    /\ r.dest \in Destinations(source, r.n) /\ Known(source, r.n)
    /\ Tolerated(source, r.dest, Size(original[r.n]))

Moved(source, r) == Schedulable(source, r) /\ Relocate(source, r) /\ exhausted' = exhausted
NotMoved == UNCHANGED <<bm, mappings, plan>> /\ exhausted' = exhausted + 1

(* A visit schedules one move or exhausts the source.                      *)
LEMMA VisitStep ==
  ASSUME TypeInv, Visit
  PROVE  Started /\ (NotMoved \/ \E r : Moved(targets[visit], r))
<1>1. Started
  BY DEF TypeInv, Fresh, Visit
<1>2. visit \in DOMAIN targets
  BY <1>1 DEF Started, Cluster, Visit, Exhausted, TypeInv
<1> DEFINE source == targets[visit]
           able(top) == Ending(source, top)
<1>3. PICK top \in LargestPartitions(source) :
         IF able(top) = {}
         THEN exhausted' = exhausted + 1 /\ UNCHANGED <<bm, mappings, plan>>
         ELSE /\ Known(source, top[Min(able(top))])
              /\ \E r \in Relocations(source, top[Min(able(top))]) : Relocate(source, r)
              /\ UNCHANGED exhausted
  BY Zenon DEF Visit
<1>4. CASE able(top) = {}
  BY <1>1, <1>3, <1>4 DEF NotMoved
<1>5. CASE able(top) # {}
  <2> DEFINE n == top[Min(able(top))]
  <2>1. Known(source, n) /\ \E r \in Relocations(source, n) : Relocate(source, r)
    BY <1>3, <1>5, Zenon
  <2> PICK r \in Relocations(source, n) : Relocate(source, r)
    BY <2>1
  <2>2. n \in DOMAIN original /\ <<source, n>> \in mappings
    <3>1. /\ DOMAIN top \subseteq Nat
          /\ \A k \in DOMAIN top : top[k] \in DOMAIN original /\ <<source, top[k]>> \in mappings
      <4> HIDE DEF source
      <4> QED BY <1>1, TopHeld DEF Started, TypeInv
    <3>2. able(top) \in SUBSET Nat
      BY <3>1 DEF Ending
    <3>3. able(top) \subseteq DOMAIN top
      BY DEF Ending
    <3> HIDE DEF able
    <3>4. Min(able(top)) \in able(top)
      BY <1>5, <3>2, MinNat
    <3> QED BY <3>1, <3>3, <3>4
  <2> HIDE DEF n, able
  <2>3. PICK d \in Destinations(source, n) :
           /\ r = [n |-> n, source |-> source, dest |-> d]
           /\ Tolerated(source, d, Size(original[n]))
    BY DEF Relocations
  <2>4. r.n = n /\ r.dest = d
    BY <2>3
  <2>5. source \in Range(targets)
    BY <1>2 DEF Range
  <2>6. Schedulable(source, r)
    BY <2>1, <2>2, <2>3, <2>4, <2>5, Zenon DEF Schedulable
  <2>7. exhausted' = exhausted
    BY <1>3, <1>5, Zenon
  <2> QED BY <1>1, <2>1, <2>6, <2>7 DEF Moved
<1> QED BY <1>4, <1>5

(* A destination is a broker that is not to be relieved.                   *)
LEMMA DestinationBroker ==
  ASSUME SameBrokers, NEW source, NEW n, NEW d \in Destinations(source, n)
  PROVE  /\ d \in DOMAIN bmIn /\ d \notin Range(targets)
         /\ params.localityScoped => d # source /\ bm[d].rack = bm[source].rack
         /\ ~params.localityScoped =>
              LET c == MergeConstraints(bm, ReplicaSet(source, n))
              IN  d \in Real(bm) /\ d \notin c.ids /\ bm[d].rack \notin c.localities
<1>1. DOMAIN bm = DOMAIN bmIn
  BY DEF SameBrokers
<1> QED BY <1>1 DEF Destinations, MostFree, Real

(* A relocation shifts storage from the destination to the source.         *)
Shifted(b, c, source, dest, size) ==
    /\ c \in [DOMAIN b -> BrokerRecord]
    /\ c[source].free = b[source].free + size
    /\ c[dest].free = b[dest].free - size
    /\ \A id \in DOMAIN b \ {source, dest} : c[id] = b[id]
    /\ \A id \in DOMAIN b : c[id].rack = b[id].rack /\ c[id].replace = b[id].replace

(* A move gives the partition's size back to the source and takes it from  *)
(* the destination.                                                        *)
LEMMA ShiftStorage ==
  ASSUME NEW b, b \in [DOMAIN b -> BrokerRecord], NEW source \in DOMAIN b, NEW dest \in DOMAIN b,
         source # dest, NEW size \in Int
  PROVE  Shifted(b, [b EXCEPT ![source].free = @ + size, ![dest].free = @ - size],
                 source, dest, size)
<1> DEFINE x == [b[source] EXCEPT !.free = @ + size]
           y == [b[dest] EXCEPT !.free = @ - size]
           c == [b EXCEPT ![source].free = @ + size, ![dest].free = @ - size]
<1>1. b[source] \in BrokerRecord /\ b[dest] \in BrokerRecord
  OBVIOUS
<1>2. /\ x \in BrokerRecord /\ x.free = b[source].free + size
      /\ x.rack = b[source].rack /\ x.replace = b[source].replace
  BY <1>1 DEF BrokerRecord
<1>3. /\ y \in BrokerRecord /\ y.free = b[dest].free - size
      /\ y.rack = b[dest].rack /\ y.replace = b[dest].replace
  BY <1>1 DEF BrokerRecord
<1>4. c = [id \in DOMAIN b |-> IF id = source THEN x ELSE IF id = dest THEN y ELSE b[id]]
  OBVIOUS
<1> HIDE DEF c, x, y
<1>5. c \in [DOMAIN b -> BrokerRecord]
  BY <1>2, <1>3, <1>4
<1>6. c[source] = x /\ c[dest] = y /\ \A id \in DOMAIN b \ {source, dest} : c[id] = b[id]
  BY <1>4
<1>7. \A id \in DOMAIN b : c[id].rack = b[id].rack /\ c[id].replace = b[id].replace
  BY <1>2, <1>3, <1>6
<1>8. Shifted(b, c, source, dest, size)
  BY <1>2, <1>3, <1>5, <1>6, <1>7 DEF Shifted
<1> QED BY <1>8 DEF c

(* A scheduled move is between two brokers of the cluster and moves the    *)
(* storage with it.                                                        *)
LEMMA MovedStorage ==
  ASSUME Started, SameBrokers, NEW source, NEW r, Moved(source, r)
  PROVE  /\ source \in Real(bmIn) /\ r.dest \in DOMAIN bmIn /\ r.dest # source
         /\ r.source = source /\ r.n \in DOMAIN original
         /\ Shifted(bm, bm', source, r.dest, Size(original[r.n]))
<1>1. /\ source \in Range(targets) /\ r.n \in DOMAIN original
      /\ r = [n |-> r.n, source |-> source, dest |-> r.dest]
      /\ r.dest \in Destinations(source, r.n)
  BY DEF Moved, Schedulable
<1>2. source \in Real(bmIn)
  BY <1>1 DEF Started, Cluster
<1>3. r.dest \in DOMAIN bmIn /\ r.dest # source
  BY <1>1, DestinationBroker
<1>4. DOMAIN bm = DOMAIN bmIn /\ bm \in [DOMAIN bm -> BrokerRecord]
  BY DEF SameBrokers
<1>5. Size(original[r.n]) \in Int
  BY SizeNat
<1>6. bm' = [bm EXCEPT ![source].free = @ + Size(original[r.n]),
                       ![r.dest].free = @ - Size(original[r.n])]
  BY DEF Moved, Relocate
<1>7. source \in DOMAIN bm
  BY <1>2, <1>4 DEF Real
<1>8. Shifted(bm, bm', source, r.dest, Size(original[r.n]))
  BY <1>3, <1>4, <1>5, <1>6, <1>7, ShiftStorage
<1>9. r.source = source
  BY <1>1
<1> QED BY <1>1, <1>2, <1>3, <1>8, <1>9

(* The initial states are well typed.                                      *)
LEMMA TypeInitial ==
  ASSUME Init
  PROVE  TypeInv
BY InputAssumption DEF Init, TypeInv, Fresh

ClusterVars == <<params, original, bmIn, targets>>

(* Steps that leave the cluster alone keep what is known of it.            *)
LEMMA ClusterFrame ==
  ASSUME Cluster, Unreplaced, UNCHANGED ClusterVars
  PROVE  Cluster' /\ Unreplaced' /\ Mappings' = Mappings
BY DEF Cluster, Unreplaced, Mappings, ClusterVars

(* Visit preserves the types.                                              *)
LEMMA TypeVisit ==
  ASSUME TypeInv, Visit
  PROVE  TypeInv'
<1>1. Started /\ (NotMoved \/ \E r : Moved(targets[visit], r))
  BY VisitStep
<1>2. /\ pc = "plan" /\ UNCHANGED <<pc, params, original, bmIn, targets, todo, tol, results>>
      /\ visit' = IF visit < Len(targets) THEN visit + 1 ELSE 1
  BY DEF Visit
<1>3. Cluster' /\ Unreplaced' /\ Mappings' = Mappings
  BY <1>1, <1>2, ClusterFrame DEF Started, ClusterVars
<1>4. SameBrokers
  BY <1>1, <1>2 DEF Started
<1>5. visit' \in Nat \ {0} /\ (visit' = 1 \/ visit' <= Len(targets'))
  BY <1>1, <1>2 DEF TypeInv, Started, Cluster
<1>6. ASSUME NotMoved PROVE SameBrokers' /\ mappings' \subseteq Mappings' /\ PlanTypes' /\ exhausted' \in Nat
  BY <1>1, <1>2, <1>3, <1>4, <1>6 DEF NotMoved, Started, SameBrokers, PlanTypes, TypeInv
<1>7. ASSUME NEW r, Moved(targets[visit], r)
      PROVE  SameBrokers' /\ mappings' \subseteq Mappings' /\ PlanTypes' /\ exhausted' \in Nat
  <2> DEFINE source == targets[visit]
  <2> HIDE DEF source
  <2>0. Moved(source, r)
    BY <1>7 DEF source
  <2>1. /\ source \in Real(bmIn) /\ r.dest \in DOMAIN bmIn /\ r.dest # source
        /\ r.source = source /\ r.n \in DOMAIN original
        /\ Shifted(bm, bm', source, r.dest, Size(original[r.n]))
    BY <1>1, <1>4, <2>0, MovedStorage
  <2>2. SameBrokers'
    <3>1. DOMAIN bm = DOMAIN bmIn
      BY <1>4 DEF SameBrokers
    <3> QED BY <1>2, <1>4, <2>1, <3>1 DEF Shifted, SameBrokers
  <2>3. mappings' \subseteq Mappings' /\ plan' = plan \cup {r}
    BY <1>1, <1>3, <2>0 DEF Moved, Relocate, Remaining, Started
  <2>4. /\ source \in Range(targets) /\ r = [n |-> r.n, source |-> source, dest |-> r.dest]
        /\ <<source, r.n>> \in Mappings
    BY <1>1, <2>0 DEF Moved, Schedulable, Started
  <2>5. r.source \in Range(original[r.n].replicas)
    BY <2>1, <2>4 DEF Mappings
  <2>6. r \in [n : DOMAIN original, source : Range(targets), dest : DOMAIN bmIn]
    BY <2>1, <2>4
  <2>7. PlanTypes'
    <3> SUFFICES ASSUME NEW q \in plan'
                 PROVE  /\ q \in [n : DOMAIN original, source : Range(targets), dest : DOMAIN bmIn]
                        /\ q.source \in Range(original[q.n].replicas)
      BY <1>2 DEF PlanTypes
    <3> QED BY <1>1, <2>3, <2>5, <2>6 DEF Started, PlanTypes
  <2>8. exhausted' \in Nat
    BY <2>0 DEF Moved, TypeInv
  <2> QED BY <2>2, <2>3, <2>7, <2>8
<1>8. SameBrokers' /\ mappings' \subseteq Mappings' /\ PlanTypes' /\ exhausted' \in Nat
  BY <1>1, <1>6, <1>7
<1>9. Started'
  <2>1. bm' \in [DOMAIN bmIn' -> BrokerRecord]
    BY <1>8 DEF SameBrokers
  <2> QED BY <1>1, <1>2, <1>3, <1>5, <1>8, <2>1 DEF Started
<1> QED BY <1>2, <1>5, <1>8, <1>9 DEF TypeInv

(* Read preserves the types.                                               *)
LEMMA TypeRead ==
  ASSUME TypeInv, Read
  PROVE  TypeInv'
<1>1. pc = "read" /\ Fresh /\ original \in InputMaps /\ params \in ParamSets
  BY DEF TypeInv, Fresh, Started, Read
<1>2. Cluster' /\ (pc' = "start" => Unreplaced')
  BY <1>1, ReadCluster
<1>3. pc' \in {"exit", "start"} /\ UNCHANGED <<params, planning>>
  BY DEF Read
<1> QED BY <1>1, <1>2, <1>3 DEF TypeInv, Fresh, planning

(* Start preserves the types.                                              *)
LEMMA TypeStart ==
  ASSUME TypeInv, Start
  PROVE  TypeInv'
<1>1. Cluster /\ Unreplaced /\ pc = "start" /\ todo # {} /\ todo \in SUBSET Nat
  BY DEF TypeInv, Fresh, Started, Start
<1>2. Min(todo) \in Nat
  BY <1>1, MinNat
<1>3. /\ tol' = Min(todo) /\ todo' = todo \ {tol'} /\ bm' = bmIn /\ mappings' = Mappings
      /\ plan' = {} /\ visit' = 1 /\ exhausted' = 0 /\ pc' = "plan"
      /\ UNCHANGED <<params, original, bmIn, targets, results>>
  BY DEF Start
<1>4. Cluster' /\ Unreplaced' /\ Mappings' = Mappings
  BY <1>1, <1>3, ClusterFrame DEF ClusterVars
<1>5. SameBrokers' /\ bm' \in [DOMAIN bmIn' -> BrokerRecord]
  BY <1>3, <1>4 DEF SameBrokers, Cluster
<1>6. \A r \in results' : r.bm \in [DOMAIN bmIn' -> BrokerRecord] /\ r.tol \in Nat
  BY <1>3 DEF TypeInv, Fresh, Started
<1>7. Started'
  BY <1>3, <1>4, <1>5, <1>6 DEF Started, PlanTypes
<1>8. todo' \subseteq Nat /\ tol' \in Nat /\ visit' \in Nat \ {0} /\ exhausted' \in Nat
  <2>1. todo' \subseteq Nat
    BY <1>1, <1>3, Zenon
  <2>2. tol' \in Nat /\ visit' \in Nat \ {0} /\ exhausted' \in Nat
    BY <1>2, <1>3
  <2> QED BY <2>1, <2>2
<1>9. pc' \in {"read", "start", "plan", "optimize", "write", "done", "exit"} /\ params' \in ParamSets
  BY <1>3 DEF TypeInv
<1> QED BY <1>7, <1>8, <1>9 DEF TypeInv

(* EndPlan preserves the types.                                            *)
LEMMA TypeEndPlan ==
  ASSUME TypeInv, EndPlan
  PROVE  TypeInv'
<1>1. Started /\ pc = "plan" /\ SameBrokers
  BY DEF TypeInv, Fresh, Started, EndPlan
<1>2. /\ results' = results \cup {[tol |-> tol, map |-> Relocated, bm |-> bm]} /\ pc' = "start"
      /\ UNCHANGED <<params, original, bmIn, targets, todo, tol, bm, mappings, plan, visit, exhausted>>
  BY DEF EndPlan
<1>3. Cluster' /\ Unreplaced' /\ Mappings' = Mappings
  BY <1>1, <1>2, ClusterFrame DEF ClusterVars, Started
<1>4. \A r \in results' : r.bm \in [DOMAIN bmIn' -> BrokerRecord] /\ r.tol \in Nat
  BY <1>1, <1>2 DEF Started, TypeInv
<1>5. Started'
  BY <1>1, <1>2, <1>3, <1>4 DEF Started, PlanTypes
<1> QED BY <1>2, <1>5 DEF TypeInv

(* Choose preserves the types.                                             *)
LEMMA TypeChoose ==
  ASSUME TypeInv, Choose
  PROVE  TypeInv'
<1>1. PICK r \in results : newMap' = r.map /\ bm' = r.bm /\ tol' = r.tol
  BY DEF Choose
<1>2. Started
  BY <1>1 DEF TypeInv, Fresh
<1>3. /\ pc' \in {"optimize", "write"}
      /\ UNCHANGED <<params, original, bmIn, targets, todo, mappings, plan, visit, exhausted, results>>
  BY DEF Choose
<1>4. Cluster' /\ Unreplaced' /\ Mappings' = Mappings
  BY <1>2, <1>3, ClusterFrame DEF ClusterVars, Started
<1>5. bm' \in [DOMAIN bmIn' -> BrokerRecord] /\ tol' \in Nat
  BY <1>1, <1>2, <1>3 DEF Started
<1>6. Started'
  BY <1>2, <1>3, <1>4, <1>5 DEF Started, PlanTypes
<1> QED BY <1>3, <1>5, <1>6 DEF TypeInv

(* ReadFails, Panic, Optimize, Write and stuttering preserve the types.    *)
LEMMA TypeOther ==
  ASSUME TypeInv, ReadFails \/ Panic \/ Optimize \/ Write \/ UNCHANGED vars
  PROVE  TypeInv'
<1>1. UNCHANGED <<params, original, bmIn, targets, planning>>
  BY DEF ReadFails, Panic, Optimize, Write, vars
<1>2. pc' = pc \/ pc' \in {"exit", "write", "done"}
  BY DEF ReadFails, Panic, Optimize, Write, vars
<1>3. CASE Fresh
  <2>1. pc' = pc \/ pc' = "exit"
    BY <1>3 DEF Fresh, ReadFails, Panic, Optimize, Write, vars
  <2>2. CASE pc' = "exit"
    BY <1>1, <1>3, <2>2 DEF TypeInv, Fresh, planning
  <2>3. CASE pc' = pc /\ pc = "start"
    <3>1. Cluster' /\ Unreplaced'
      BY <1>1, <1>3, <2>3, ClusterFrame DEF Fresh, ClusterVars
    <3> QED BY <1>1, <1>3, <2>3, <3>1 DEF TypeInv, Fresh, planning
  <2>4. CASE pc' = pc /\ pc = "read"
    BY <1>1, <1>3, <2>4 DEF TypeInv, Fresh, planning
  <2>5. pc \in {"exit", "read", "start"}
    BY <1>3 DEF Fresh
  <2> QED BY <2>1, <2>2, <2>3, <2>4, <2>5
<1>4. CASE Started
  <2>1. Cluster' /\ Unreplaced' /\ Mappings' = Mappings
    BY <1>1, <1>4, ClusterFrame DEF ClusterVars, Started
  <2>2. SameBrokers' <=> SameBrokers
    BY <1>1 DEF SameBrokers, planning
  <2>3. Started'
    BY <1>1, <1>2, <1>4, <2>1, <2>2 DEF Started, PlanTypes, planning
  <2> QED BY <1>1, <1>2, <2>3 DEF TypeInv, planning
<1> QED BY <1>3, <1>4 DEF TypeInv

(* Every reachable state is well typed.                                    *)
LEMMA TypeInvariance == Spec => []TypeInv
<1>1. Init => TypeInv
  BY TypeInitial
<1>2. TypeInv /\ [Next]_vars => TypeInv'
  BY TypeRead, TypeStart, TypeVisit, TypeEndPlan, TypeChoose, TypeOther DEF Next
<1> QED BY <1>1, <1>2, PTL DEF Spec

(* The variables have their types: a source is only planned to give away   *)
(* what it holds, to a broker that exists, and the passes over the targets *)
(* (planRelocationsForBroker) visit none that is not there.                *)
THEOREM ReassignTypes == Spec => []TypeOK
<1>1. TypeInv => TypeOK
  <2> SUFFICES ASSUME TypeInv PROVE TypeOK
    OBVIOUS
  <2>1. CASE Fresh
    <3>1. Cardinality(DOMAIN bm) \in Nat
      <4>1. DOMAIN bm = {}
        BY <2>1 DEF Fresh
      <4> QED BY <4>1, FS_EmptySet
    <3> QED BY <2>1, <3>1 DEF TypeInv, TypeOK, Fresh
  <2>2. CASE Started
    <3>1. DOMAIN bm = DOMAIN bmIn /\ IsFiniteSet(DOMAIN bmIn)
      BY <2>2 DEF Started, Cluster
    <3>2. Cardinality(DOMAIN bm) \in Nat
      BY <3>1, FS_CardinalityType
    <3>3. visit \in 1 .. (1 + Cardinality(DOMAIN bm))
      BY <2>2, <3>1, <3>2 DEF Started, Cluster, TypeInv
    <3>4. mappings \subseteq (DOMAIN bm) \X (DOMAIN original)
      BY <2>2, <3>1 DEF Started, Mappings, Real
    <3>5. \A r \in plan : /\ r.n \in DOMAIN original
                          /\ r.source \in Range(original[r.n].replicas) /\ r.dest \in DOMAIN bm
      BY <2>2, <3>1 DEF Started, PlanTypes
    <3> QED BY <3>3, <3>4, <3>5 DEF TypeInv, TypeOK
  <2> QED BY <2>1, <2>2 DEF TypeInv
<1> QED BY <1>1, TypeInvariance, PTL

-----------------------------------------------------------------------------
(* Replica sets.                                                           *)

(* No partition is taken from the same source twice.                       *)
LEMMA MoveOnce ==
  ASSUME Started, SameBrokers, MovedOnce, NEW source, NEW r, Moved(source, r), UNCHANGED targets
  PROVE  MovedOnce'
<1>1. /\ plan' = plan \cup {r} /\ mappings' = mappings \ {<<source, r.n>>}
      /\ <<source, r.n>> \in mappings /\ r.source = source
  BY MovedStorage DEF Moved, Relocate, Remaining, Schedulable
<1>2. r.dest \notin Range(targets)
  BY DestinationBroker DEF Moved, Schedulable
<1>3. ASSUME NEW q \in plan'
      PROVE  <<q.source, q.n>> \notin mappings' /\ q.dest \notin Range(targets')
  BY <1>1, <1>2 DEF MovedOnce
<1>4. ASSUME NEW q \in plan', NEW p \in plan', q.n = p.n, q.source = p.source
      PROVE  q = p
  <2>1. \A x \in plan : ~(x.n = r.n /\ x.source = source)
    BY <1>1 DEF MovedOnce
  <2> QED BY <1>1, <1>4, <2>1 DEF MovedOnce
<1> QED BY <1>3, <1>4 DEF MovedOnce

(* A locality scoped move stays within the rack of its source.             *)
LEMMA MoveByLocality ==
  ASSUME Started, SameBrokers, ByLocality, params.localityScoped,
         NEW source, NEW r, Moved(source, r), UNCHANGED bmIn
  PROVE  ByLocality'
<1>1. plan' = plan \cup {r} /\ r.source = source /\ source \in DOMAIN bmIn
  BY MovedStorage DEF Moved, Relocate, Real
<1>2. r.dest \in DOMAIN bmIn /\ r.dest # source /\ bm[r.dest].rack = bm[source].rack
  BY DestinationBroker DEF Moved, Schedulable
<1>3. bmIn[r.dest].rack = bmIn[source].rack
  BY <1>1, <1>2 DEF SameBrokers
<1> QED BY <1>1, <1>2, <1>3 DEF ByLocality

(* Being apart does not depend on the order.                               *)
LEMMA ApartSymmetric ==
  ASSUME NEW a, NEW b, Apart(a, b)
  PROVE  Apart(b, a)
BY DEF Apart

(* A move that is not locality scoped keeps the replicas of the partition  *)
(* on different brokers and racks.                                         *)
LEMMA MoveByConstraints ==
  ASSUME Started, SameBrokers, ByConstraints, ~params.localityScoped,
         NEW source, NEW r, Moved(source, r), UNCHANGED <<bmIn, original>>
  PROVE  ByConstraints'
<1> DEFINE set == Range(original[r.n].replicas)
           others == ReplicaSet(source, r.n)
           c == MergeConstraints(bm, others)
<1>1. plan' = plan \cup {r} /\ r.source = source /\ r.n \in DOMAIN original
  BY MovedStorage DEF Moved, Relocate
<1>2. r.dest \in Real(bm) /\ r.dest \notin c.ids /\ bm[r.dest].rack \notin c.localities
  BY DestinationBroker DEF Moved, Schedulable
<1>3. r.dest # source
  BY MovedStorage
<1>4. DOMAIN bm = DOMAIN bmIn /\ r.dest \in DOMAIN bmIn /\ r.dest # StubBrokerID
  BY <1>2 DEF SameBrokers, Real
<1>5. others \subseteq DOMAIN bmIn
  BY <1>4 DEF Moved, Schedulable, Known, Found
<1>6. \A id \in others : id # StubBrokerID => id \in NotReplaced(bm)
  BY <1>4, <1>5 DEF NotReplaced, Real, SameBrokers, Started, Unreplaced
<1>7. ASSUME NEW id \in others
      PROVE  r.dest # id /\ Apart(r.dest, id)
  <2>1. CASE id = StubBrokerID
    <3>1. bmIn[id].rack = NoRack
      BY <2>1 DEF Started, Cluster
    <3> QED BY <1>4, <2>1, <3>1 DEF Apart
  <2>2. CASE id # StubBrokerID
    <3>1. id \in others \cap NotReplaced(bm)
      BY <1>6, <2>2
    <3>2. r.dest # id
      BY <1>2, <3>1 DEF MergeConstraints
    <3>3. bm[id].rack = NoRack \/ bm[r.dest].rack # bm[id].rack
      BY <1>2, <3>1 DEF MergeConstraints
    <3>4. bm[id].rack = bmIn[id].rack /\ bm[r.dest].rack = bmIn[r.dest].rack
      BY <1>4, <1>5 DEF SameBrokers
    <3> QED BY <3>2, <3>3, <3>4 DEF Apart
  <2> QED BY <2>1, <2>2
<1>8. r.dest \notin set /\ \A id \in set \ {source} : Apart(r.dest, id)
  BY <1>3, <1>7 DEF ReplicaSet
<1>9. \A q \in plan : q.n = r.n => q.dest # r.dest /\ Apart(r.dest, q.dest) /\ Apart(q.dest, r.dest)
  BY <1>7, ApartSymmetric DEF ReplicaSet, isPlanned
<1> HIDE DEF others, c, set
<1> SUFFICES ASSUME NEW q \in plan'
             PROVE  /\ q.dest \notin Range(original[q.n].replicas)
                    /\ \A id \in Range(original[q.n].replicas) \ {q.source} : Apart(q.dest, id)
                    /\ \A p \in plan' : p.n = q.n /\ p # q => p.dest # q.dest /\ Apart(q.dest, p.dest)
  BY DEF ByConstraints, Apart
<1>10. /\ q.dest \notin Range(original[q.n].replicas)
       /\ \A id \in Range(original[q.n].replicas) \ {q.source} : Apart(q.dest, id)
  BY <1>1, <1>8 DEF ByConstraints, set
<1>11. ASSUME NEW p \in plan', p.n = q.n, p # q
       PROVE  p.dest # q.dest /\ Apart(q.dest, p.dest)
  <2>1. CASE q \in plan /\ p \in plan
    BY <1>11, <2>1 DEF ByConstraints
  <2>2. CASE q = r /\ p \in plan
    BY <1>9, <1>11, <2>2
  <2>3. CASE q \in plan /\ p = r
    BY <1>9, <1>11, <2>3
  <2> QED BY <1>1, <1>11, <2>1, <2>2, <2>3
<1> QED BY <1>10, <1>11

(* A replica of the relocated map is that of the original or the           *)
(* destination of its only relocation.                                     *)
RelocatedBy(p) ==
    [n \in DOMAIN original |-> WithReplicas(original[n],
        [i \in DOMAIN original[n].replicas |->
            LET moves == {r \in {x \in p : x.n = n} : r.source = original[n].replicas[i]}
            IN  IF moves = {} THEN original[n].replicas[i] ELSE (CHOOSE r \in moves : TRUE).dest])]

PlannedMove(p, n, i, q) == q \in p /\ q.n = n /\ q.source = original[n].replicas[i]

(* Applying a plan changes replica sets position by position, and nothing  *)
(* else.                                                                   *)
LEMMA RelocatedMap ==
  ASSUME Cluster, NEW p
  PROVE  /\ DOMAIN RelocatedBy(p) = DOMAIN original
         /\ \A n \in DOMAIN original :
              /\ RelocatedBy(p)[n].topic = original[n].topic
              /\ RelocatedBy(p)[n].partition = original[n].partition
              /\ DOMAIN RelocatedBy(p)[n].replicas = DOMAIN original[n].replicas
              /\ \A i \in DOMAIN original[n].replicas :
                   \/ /\ \A q : ~PlannedMove(p, n, i, q)
                      /\ RelocatedBy(p)[n].replicas[i] = original[n].replicas[i]
                   \/ \E q : PlannedMove(p, n, i, q) /\ RelocatedBy(p)[n].replicas[i] = q.dest
<1> DEFINE moves(n, i) == {r \in {x \in p : x.n = n} : r.source = original[n].replicas[i]}
           rs(n) == [i \in DOMAIN original[n].replicas |->
                       IF moves(n, i) = {} THEN original[n].replicas[i]
                       ELSE (CHOOSE r \in moves(n, i) : TRUE).dest]
           map == RelocatedBy(p)
<1>1. map = [n \in DOMAIN original |-> WithReplicas(original[n], rs(n))]
  BY DEF RelocatedBy
<1> HIDE DEF map
<1>2. ASSUME NEW n \in DOMAIN original
      PROVE  /\ map[n].topic = original[n].topic /\ map[n].partition = original[n].partition
             /\ map[n].replicas = rs(n)
  <2> HIDE DEF rs
  <2>1. original[n] \in Partition
    BY DEF Cluster
  <2>2. map[n] = [original[n] EXCEPT !.replicas = rs(n)]
    BY <1>1 DEF WithReplicas
  <2> QED BY <2>1, <2>2 DEF Partition
<1>3. ASSUME NEW n \in DOMAIN original, NEW i \in DOMAIN original[n].replicas
      PROVE  \/ /\ \A q : ~PlannedMove(p, n, i, q)
                /\ map[n].replicas[i] = original[n].replicas[i]
             \/ \E q : PlannedMove(p, n, i, q) /\ map[n].replicas[i] = q.dest
  <2>1. \A q : PlannedMove(p, n, i, q) <=> q \in moves(n, i)
    BY DEF PlannedMove
  <2>2. map[n].replicas[i] = IF moves(n, i) = {} THEN original[n].replicas[i]
                             ELSE (CHOOSE r \in moves(n, i) : TRUE).dest
    <3>1. map[n].replicas = rs(n)
      BY <1>2
    <3>2. rs(n)[i] = IF moves(n, i) = {} THEN original[n].replicas[i]
                     ELSE (CHOOSE r \in moves(n, i) : TRUE).dest
      BY Zenon
    <3> HIDE DEF rs, moves
    <3> QED BY <3>1, <3>2
  <2> HIDE DEF moves
  <2>3. CASE moves(n, i) = {}
    BY <2>1, <2>2, <2>3
  <2>4. CASE moves(n, i) # {}
    <3>1. (CHOOSE r \in moves(n, i) : TRUE) \in moves(n, i)
      BY <2>4
    <3> QED BY <2>1, <2>2, <2>4, <3>1
  <2> QED BY <2>3, <2>4
<1>4. \A n \in DOMAIN original : DOMAIN map[n].replicas = DOMAIN original[n].replicas
  BY <1>2
<1>5. DOMAIN map = DOMAIN original
  BY <1>1
<1> HIDE DEF rs, moves
<1> QED BY <1>2, <1>3, <1>4, <1>5, Zenon DEF map

(* The map that a run ends with is the original with the plan applied.     *)
LEMMA RelocatedPlan ==
  /\ Relocated = RelocatedBy(plan)
  /\ UNCHANGED original => Relocated' = RelocatedBy(plan')
<1>1. Relocated = RelocatedBy(plan)
  BY DEF Relocated, RelocatedBy, isPlanned
<1>2. ASSUME UNCHANGED original PROVE Relocated' = RelocatedBy(plan')
  BY <1>2 DEF Relocated, RelocatedBy, isPlanned
<1> QED BY <1>1, <1>2

(* The set of a partition after its relocations.                           *)
LEMMA RelocatedSet ==
  ASSUME Started, MovedOnce, IF params.localityScoped THEN ByLocality ELSE ByConstraints,
         NEW n \in DOMAIN original
  PROVE  /\ ~params.localityScoped \/ Spread(original[n].replicas) => Distinct(Relocated[n].replicas)
         /\ SpreadAsKnown(original[n].replicas) => SpreadAsKnown(Relocated[n].replicas)
<1> DEFINE old == original[n].replicas
           new == Relocated[n].replicas
<1>1. /\ Cluster /\ DOMAIN new = DOMAIN old
      /\ \A i \in DOMAIN old : \/ /\ \A q : ~PlannedMove(plan, n, i, q)
                                  /\ new[i] = old[i]
                               \/ \E q : PlannedMove(plan, n, i, q) /\ new[i] = q.dest
  BY RelocatedMap, RelocatedPlan DEF Started
<1>2. /\ \A i, j \in Online(old) : old[i] = old[j] => i = j
      /\ Online(old) \subseteq DOMAIN old
  BY <1>1 DEF Cluster, Distinct, Online
<1>3. \A i \in DOMAIN old : old[i] \in Range(old)
  BY DEF Range
<1> HIDE DEF old, new
<1>0. Online(new) \subseteq Online(old)
  <2> SUFFICES ASSUME NEW i \in DOMAIN old, new[i] # Offline, old[i] = Offline PROVE FALSE
    BY <1>1 DEF Online
  <2>1. PICK q \in plan : q.source = Offline
    BY <1>1 DEF PlannedMove, old
  <2>2. q.source \in DOMAIN bmIn
    BY <1>1 DEF Started, PlanTypes, Cluster, Real
  <2> QED BY <1>1, <2>1, <2>2 DEF Cluster
<1>4. ASSUME NEW i \in Online(old), NEW j \in Online(old), i # j, ~params.localityScoped
      PROVE  new[i] # new[j] /\ (Apart(old[i], old[j]) => Apart(new[i], new[j]))
  <2>0. ByConstraints
    BY <1>4
  <2>1. CASE new[i] = old[i] /\ new[j] = old[j]
    BY <1>2, <1>4, <2>1
  <2>2. ASSUME NEW q, PlannedMove(plan, n, i, q), new[i] = q.dest, new[j] = old[j]
        PROVE  new[i] # new[j] /\ Apart(new[i], new[j])
    <3>1. q \in plan /\ q.n = n /\ q.source = old[i]
      BY <2>2 DEF PlannedMove, old
    <3>2. old[j] \in Range(original[q.n].replicas) \ {q.source}
      BY <1>2, <1>3, <1>4, <3>1 DEF old
    <3> QED BY <2>0, <2>2, <3>1, <3>2 DEF ByConstraints
  <2>3. ASSUME NEW q, PlannedMove(plan, n, j, q), new[j] = q.dest, new[i] = old[i]
        PROVE  new[i] # new[j] /\ Apart(new[i], new[j])
    <3>1. q \in plan /\ q.n = n /\ q.source = old[j]
      BY <2>3 DEF PlannedMove, old
    <3>2. old[i] \in Range(original[q.n].replicas) \ {q.source}
      BY <1>2, <1>3, <1>4, <3>1 DEF old
    <3>3. new[i] # new[j] /\ Apart(new[j], new[i])
      BY <2>0, <2>3, <3>1, <3>2 DEF ByConstraints
    <3> QED BY <3>3, ApartSymmetric
  <2>4. ASSUME NEW q, NEW p, PlannedMove(plan, n, i, q), PlannedMove(plan, n, j, p), new[i] = q.dest, new[j] = p.dest
        PROVE  new[i] # new[j] /\ Apart(new[i], new[j])
    <3>1. q \in plan /\ q.n = n /\ q.source = old[i] /\ p \in plan /\ p.n = n /\ p.source = old[j]
      BY <2>4 DEF PlannedMove, old
    <3>2. q # p
      BY <1>2, <1>4, <3>1
    <3> QED BY <2>0, <2>4, <3>1, <3>2 DEF ByConstraints
  <2> QED BY <1>1, <1>2, <2>1, <2>2, <2>3, <2>4
<1>5. ASSUME params.localityScoped, NEW i \in Online(old)
      PROVE  bmIn[new[i]].rack = bmIn[old[i]].rack
  <2>1. ASSUME NEW q, PlannedMove(plan, n, i, q), new[i] = q.dest
        PROVE  bmIn[new[i]].rack = bmIn[old[i]].rack
    BY <1>5, <2>1 DEF PlannedMove, ByLocality, old
  <2> QED BY <1>1, <1>2, <2>1
<1>6. ASSUME ~params.localityScoped \/ Spread(old)
      PROVE  Distinct(new)
  <2>1. CASE ~params.localityScoped
    BY <1>0, <1>1, <1>4, <2>1 DEF Distinct, Online
  <2>2. CASE params.localityScoped
    <3>1. \A i, j \in Online(old) : i # j => bmIn[old[i]].rack # bmIn[old[j]].rack
      BY <1>6, <2>2 DEF Spread
    <3>2. \A i, j \in Online(old) : i # j => bmIn[new[i]].rack # bmIn[new[j]].rack
      BY <1>5, <2>2, <3>1
    <3> QED BY <1>0, <1>1, <3>2 DEF Distinct, Online
  <2> QED BY <2>1, <2>2
<1>7. ASSUME SpreadAsKnown(old)
      PROVE  SpreadAsKnown(new)
  <2>1. \A i, j \in Online(old) : i # j => Apart(old[i], old[j])
    BY <1>7 DEF SpreadAsKnown, Apart
  <2>2. \A i, j \in Online(old) : i # j => Apart(new[i], new[j])
    <3>1. CASE ~params.localityScoped
      BY <1>4, <2>1, <3>1
    <3>2. CASE params.localityScoped
      BY <1>5, <2>1, <3>2 DEF Apart
    <3> QED BY <3>1, <3>2
  <2> QED BY <1>0, <1>1, <2>2 DEF SpreadAsKnown, Apart
<1> QED BY <1>6, <1>7 DEF old, new

(* Steps that add no result keep what is known of the results.             *)
LEMMA PlanFrame ==
  ASSUME PlanInv, UNCHANGED <<params, original, bmIn, results>>
  PROVE  NoBrokerTwice' /\ RacksKept'
BY DEF PlanInv, NoBrokerTwice, RacksKept, Spread, SpreadAsKnown

(* Visit preserves the plan's invariant.                                   *)
LEMMA PlanVisit ==
  ASSUME TypeInv, PlanInv, Visit
  PROVE  PlanInv'
<1>1. Started /\ (NotMoved \/ \E r : Moved(targets[visit], r))
  BY VisitStep
<1>2. pc = "plan" /\ UNCHANGED <<pc, params, original, bmIn, targets, results>>
  BY DEF Visit
<1>3. SameBrokers /\ MovedOnce /\ IF params.localityScoped THEN ByLocality ELSE ByConstraints
  BY <1>1, <1>2 DEF Started, PlanInv
<1>4. MovedOnce' /\ IF params'.localityScoped THEN ByLocality' ELSE ByConstraints'
  <2>1. CASE NotMoved
    BY <1>2, <1>3, <2>1 DEF NotMoved, MovedOnce, ByLocality, ByConstraints, Apart
  <2>2. ASSUME NEW r, Moved(targets[visit], r)
        PROVE  MovedOnce' /\ IF params'.localityScoped THEN ByLocality' ELSE ByConstraints'
    <3>1. MovedOnce'
      BY <1>1, <1>2, <1>3, <2>2, MoveOnce
    <3>2. CASE params.localityScoped
      <4>1. ByLocality'
        BY <1>1, <1>2, <1>3, <2>2, <3>2, MoveByLocality
      <4> QED BY <1>2, <3>1, <3>2, <4>1
    <3>3. CASE ~params.localityScoped
      <4>1. ByConstraints'
        BY <1>1, <1>2, <1>3, <2>2, <3>3, MoveByConstraints
      <4> QED BY <1>2, <3>1, <3>3, <4>1
    <3> QED BY <3>2, <3>3
  <2> QED BY <1>1, <2>1, <2>2
<1>5. NoBrokerTwice' /\ RacksKept'
  BY <1>2, PlanFrame
<1> QED BY <1>4, <1>5 DEF PlanInv

(* EndPlan preserves the plan's invariant.                                 *)
LEMMA PlanEndPlan ==
  ASSUME TypeInv, PlanInv, EndPlan
  PROVE  PlanInv'
<1>1. Started /\ pc = "plan"
  BY DEF TypeInv, Fresh, EndPlan
<1>2. MovedOnce /\ IF params.localityScoped THEN ByLocality ELSE ByConstraints
  BY <1>1 DEF PlanInv
<1>3. /\ results' = results \cup {[tol |-> tol, map |-> Relocated, bm |-> bm]} /\ pc' = "start"
      /\ UNCHANGED <<params, original, bmIn>>
  BY DEF EndPlan
<1>4. DOMAIN Relocated = DOMAIN original
  BY <1>1, RelocatedMap, RelocatedPlan DEF Started
<1>5. \A n \in DOMAIN Relocated :
        /\ ~params.localityScoped \/ Spread(original[n].replicas) => Distinct(Relocated[n].replicas)
        /\ SpreadAsKnown(original[n].replicas) => SpreadAsKnown(Relocated[n].replicas)
  BY <1>1, <1>2, <1>4, RelocatedSet
<1>6. \A rs : (Spread(rs)' <=> Spread(rs)) /\ (SpreadAsKnown(rs)' <=> SpreadAsKnown(rs))
  BY <1>3 DEF Spread, SpreadAsKnown
<1>7. NoBrokerTwice'
  <2> SUFFICES ASSUME NEW r \in results', NEW n \in DOMAIN r.map,
                      ~params.localityScoped \/ Spread(original[n].replicas)
               PROVE  Distinct(r.map[n].replicas)
    BY <1>3 DEF NoBrokerTwice, Spread
  <2> QED BY <1>3, <1>5 DEF PlanInv, NoBrokerTwice
<1>8. RacksKept'
  <2> SUFFICES ASSUME NEW r \in results', NEW n \in DOMAIN r.map, SpreadAsKnown(original[n].replicas)
               PROVE  SpreadAsKnown(r.map[n].replicas)
    BY <1>3 DEF RacksKept, SpreadAsKnown
  <2> QED BY <1>3, <1>5 DEF PlanInv, RacksKept
<1> QED BY <1>3, <1>7, <1>8 DEF PlanInv

(* Start preserves the plan's invariant.                                   *)
LEMMA PlanStart ==
  ASSUME PlanInv, Start
  PROVE  PlanInv'
<1>1. plan' = {} /\ UNCHANGED <<params, original, bmIn, results>>
  BY DEF Start
<1>2. NoBrokerTwice' /\ RacksKept'
  BY <1>1, PlanFrame
<1> QED BY <1>1, <1>2 DEF PlanInv, MovedOnce, ByLocality, ByConstraints

(* Read establishes the plan's invariant.                                  *)
LEMMA PlanRead ==
  ASSUME TypeInv, Read
  PROVE  PlanInv'
<1>1. results' = {} /\ pc' # "plan"
  BY DEF TypeInv, Fresh, Started, Read, planning
<1> QED BY <1>1 DEF PlanInv, NoBrokerTwice, RacksKept

(* ReadFails, Choose, Optimize, Write and stuttering preserve the plan's   *)
(* invariant.                                                              *)
LEMMA PlanOther ==
  ASSUME PlanInv, ReadFails \/ Panic \/ Choose \/ Optimize \/ Write \/ UNCHANGED vars
  PROVE  PlanInv'
<1>1. UNCHANGED <<params, original, bmIn, targets, mappings, plan, results>>
  BY DEF ReadFails, Panic, Choose, Optimize, Write, vars, planning
<1>2. pc' = pc \/ pc' # "plan"
  BY DEF ReadFails, Panic, Choose, Optimize, Write, vars
<1>3. NoBrokerTwice' /\ RacksKept'
  BY <1>1, PlanFrame
<1>4. CASE pc' # "plan"
  BY <1>3, <1>4 DEF PlanInv
<1>5. CASE pc' = pc
  BY <1>1, <1>3, <1>5 DEF PlanInv, MovedOnce, ByLocality, ByConstraints, Apart
<1> QED BY <1>2, <1>4, <1>5

(* The plan's invariant holds in every reachable state.                    *)
LEMMA PlanInvariance == Spec => []PlanInv
<1>1. Init => PlanInv
  BY DEF Init, PlanInv, NoBrokerTwice, RacksKept
<1>2. TypeInv /\ PlanInv /\ [Next]_vars => PlanInv'
  BY PlanRead, PlanStart, PlanVisit, PlanEndPlan, PlanOther DEF Next
<1> QED BY <1>1, <1>2, TypeInvariance, PTL DEF Spec

(* No plan of reassign gives a partition twice to the same broker: for the *)
(* constraints of MergeConstraints, whatever the replicas relocated before;*)
(* within a locality, for sets with one replica in a rack.                 *)
THEOREM NoReplicaTwice == Spec => []NoBrokerTwice
<1>1. PlanInv => NoBrokerTwice
  BY DEF PlanInv
<1> QED BY <1>1, PlanInvariance, PTL

(* Relocating replicas one by one, each against the original set and the   *)
(* destinations planned so far, never brings two of a set into one rack.   *)
THEOREM RacksKeptApart == Spec => []RacksKept
<1>1. PlanInv => RacksKept
  BY DEF PlanInv
<1> QED BY <1>1, PlanInvariance, PTL

-----------------------------------------------------------------------------
(* Storage.                                                                *)

(* The slots that a broker has when the moves p are made; all slots weigh  *)
(* as much as their partitions.                                            *)
HeldBy(p, id) == {s \in Slots(original) : RelocatedBy(p)[s[1]].replicas[s[2]] = id}
Weights == [s \in Slots(original) |-> Size(original[s[1]])]

(* What a broker holds under a plan is the sum over the replicas the plan  *)
(* gives it.                                                               *)
LEMMA RelocatedSize ==
  ASSUME Cluster, NEW p, NEW id
  PROVE  SizeOn(RelocatedBy(p), id) = SumFunctionOnSet(Weights, HeldBy(p, id))
<1> DEFINE map == RelocatedBy(p)
           H == HeldBy(p, id)
           w == [s \in Held(map, id) |-> Size(map[s[1]])]
<1>1. /\ DOMAIN map = DOMAIN original
      /\ \A n \in DOMAIN original : /\ map[n].topic = original[n].topic
                                    /\ map[n].partition = original[n].partition
                                    /\ DOMAIN map[n].replicas = DOMAIN original[n].replicas
  BY RelocatedMap
<1> HIDE DEF map
<1>2. Slots(map) = Slots(original)
  BY <1>1 DEF Slots
<1>3. Held(map, id) = H
  BY <1>2 DEF Held, HeldBy, map
<1>4. \A n \in DOMAIN original : Size(map[n]) = Size(original[n])
  BY <1>1 DEF Size, HasSize
<1>5. H \in SUBSET Slots(original)
  BY DEF HeldBy
<1>6. IsFiniteSet(H)
  BY <1>5, FiniteMap, FS_Subset DEF Cluster
<1>7. \A s \in H : s[1] \in DOMAIN original
  BY <1>5 DEF Slots
<1> HIDE DEF H
<1>8. w = [s \in H |-> Size(map[s[1]])]
  BY <1>3
<1>9. \A s \in H : w[s] = Weights[s]
  BY <1>4, <1>5, <1>7, <1>8 DEF Weights
<1> HIDE DEF w
<1>10. DOMAIN w = H
  BY <1>8
<1>11. SizeOn(map, id) = SumFunctionOnSet(w, H)
  BY <1>10 DEF SizeOn, SumFunction, w
<1>12. SumFunctionOnSet(w, H) = SumFunctionOnSet(Weights, H)
  BY <1>6, <1>9, SumEqual
<1> QED BY <1>11, <1>12 DEF map, H

(* The sum over a broker's replicas can be taken apart at any one of them. *)
LEMMA WeightsSum ==
  ASSUME Cluster, NEW p, NEW id
  PROVE  /\ SumFunctionOnSet(Weights, HeldBy(p, id)) \in Int
         /\ \A s \in HeldBy(p, id) :
              SumFunctionOnSet(Weights, HeldBy(p, id))
                = Size(original[s[1]]) + SumFunctionOnSet(Weights, HeldBy(p, id) \ {s})
<1> DEFINE H == HeldBy(p, id)
<1>1. H \in SUBSET Slots(original)
  BY DEF HeldBy
<1>2. IsFiniteSet(H)
  BY <1>1, FiniteMap, FS_Subset DEF Cluster
<1>3. \A s \in H : Weights[s] = Size(original[s[1]]) /\ Weights[s] \in Int
  BY <1>1, SizeNat DEF Weights
<1> HIDE DEF H
<1>4. /\ SumFunctionOnSet(Weights, H) \in Int
      /\ \A s \in H : SumFunctionOnSet(Weights, H) = Weights[s] + SumFunctionOnSet(Weights, H \ {s})
  BY <1>2, <1>3, SumRemove
<1> QED BY <1>3, <1>4 DEF H

(* Without moves the map is the original.                                  *)
LEMMA NothingRelocated ==
  ASSUME Cluster, NEW id
  PROVE  SizeOn(RelocatedBy({}), id) = SizeOn(original, id)
<1> DEFINE H == HeldBy({}, id)
           w == [s \in Held(original, id) |-> Size(original[s[1]])]
<1>1. \A n \in DOMAIN original : \A i \in DOMAIN original[n].replicas :
        RelocatedBy({})[n].replicas[i] = original[n].replicas[i]
  BY RelocatedMap DEF PlannedMove
<1>2. H = Held(original, id)
  BY <1>1 DEF HeldBy, Held, Slots
<1>3. H \in SUBSET Slots(original)
  BY DEF HeldBy
<1>4. IsFiniteSet(H)
  BY <1>3, FiniteMap, FS_Subset DEF Cluster
<1> HIDE DEF H
<1>5. w = [s \in H |-> Size(original[s[1]])]
  BY <1>2
<1>6. \A s \in H : w[s] = Weights[s]
  BY <1>3, <1>5 DEF Weights
<1>7. SizeOn(original, id) = SumFunctionOnSet(w, H)
  BY <1>5 DEF SizeOn, SumFunction
<1> HIDE DEF w
<1>8. SumFunctionOnSet(w, H) = SumFunctionOnSet(Weights, H)
  BY <1>4, <1>6, SumEqual
<1>9. SizeOn(RelocatedBy({}), id) = SumFunctionOnSet(Weights, H)
  BY RelocatedSize DEF H
<1> QED BY <1>7, <1>8, <1>9

(* The broker b that has position i of partition n after the moves p.      *)
Position(p, n, i, b) ==
    \/ (\A q : ~PlannedMove(p, n, i, q)) /\ b = original[n].replicas[i]
    \/ \E q : PlannedMove(p, n, i, q) /\ b = q.dest

(* A position holds the destination of the move that is planned for it, or *)
(* its old broker.                                                         *)
LEMMA RelocatedPosition ==
  ASSUME Cluster, NEW p, NEW n \in DOMAIN original, NEW i \in DOMAIN original[n].replicas
  PROVE  Position(p, n, i, RelocatedBy(p)[n].replicas[i])
BY RelocatedMap, Zenon DEF Position

(* A move takes one slot from the source and gives it to the destination.  *)
LEMMA HeldMove ==
  ASSUME Started, SameBrokers, MovedOnce, MovedOnce', UNCHANGED <<original, targets>>,
         NEW source, NEW r, Moved(source, r)
  PROVE  \E s \in HeldBy(plan, source) :
           /\ s[1] = r.n /\ s \notin HeldBy(plan, r.dest) /\ s \in HeldBy(plan', r.dest)
           /\ HeldBy(plan', source) = HeldBy(plan, source) \ {s}
           /\ HeldBy(plan', r.dest) \ {s} = HeldBy(plan, r.dest)
           /\ \A id : id # source /\ id # r.dest => HeldBy(plan', id) = HeldBy(plan, id)
<1> DEFINE n == r.n
           old(m, j) == RelocatedBy(plan)[m].replicas[j]
           new(m, j) == RelocatedBy(plan')[m].replicas[j]
<1>1. /\ n \in DOMAIN original /\ plan' = plan \cup {r} /\ r.source = source /\ r.dest # source
      /\ <<source, n>> \in mappings /\ Cluster /\ mappings \subseteq Mappings
  BY MovedStorage DEF Moved, Relocate, Schedulable, Started
<1>2. PICK i \in DOMAIN original[n].replicas : original[n].replicas[i] = source
  BY <1>1 DEF Mappings, Range
<1> DEFINE place == <<n, i>>
<1>3. ASSUME NEW m \in DOMAIN original, NEW j \in DOMAIN original[m].replicas, <<m, j>> # place
      PROVE  new(m, j) = old(m, j)
  <2>1. \A q : PlannedMove(plan', m, j, q) <=> PlannedMove(plan, m, j, q)
    <3>1. ~PlannedMove(plan', m, j, r)
      <4> SUFFICES ASSUME m = n, original[n].replicas[j] = source PROVE FALSE
        BY <1>1 DEF PlannedMove
      <4>1. source # Offline
        BY <1>1 DEF Mappings, Real, Cluster
      <4> QED BY <1>1, <1>2, <1>3, <4>1 DEF Cluster, Distinct
    <3> QED BY <1>1, <3>1 DEF PlannedMove
  <2>2. Position(plan, m, j, old(m, j)) /\ Position(plan', m, j, new(m, j))
    BY <1>1, RelocatedPosition
  <2>3. \A q, p : PlannedMove(plan, m, j, q) /\ PlannedMove(plan, m, j, p) => q = p
    BY DEF PlannedMove, MovedOnce
  <2> HIDE DEF old, new
  <2> QED BY <2>1, <2>2, <2>3 DEF Position
<1>4. old(n, i) = source
  <2>1. \A q : ~PlannedMove(plan, n, i, q)
    BY <1>1, <1>2 DEF PlannedMove, MovedOnce
  <2> QED BY <1>1, <1>2, <2>1, RelocatedMap
<1>5. new(n, i) = r.dest
  <2>1. PlannedMove(plan', n, i, r)
    BY <1>1, <1>2 DEF PlannedMove
  <2>2. \A q : PlannedMove(plan', n, i, q) => q = r
    BY <1>1, <1>2 DEF PlannedMove, MovedOnce
  <2>3. Position(plan', n, i, new(n, i))
    BY <1>1, RelocatedPosition
  <2> HIDE DEF new, n
  <2> QED BY <2>1, <2>2, <2>3 DEF Position
<1>6. place \in Slots(original)
  BY <1>1 DEF Slots
<1>7. \A id : HeldBy(plan, id) = {s \in Slots(original) : old(s[1], s[2]) = id}
  BY DEF HeldBy
<1>8. \A id : HeldBy(plan', id) = {s \in Slots(original) : new(s[1], s[2]) = id}
  BY DEF HeldBy
<1>9. \A s \in Slots(original) : s # place => new(s[1], s[2]) = old(s[1], s[2])
  <2> SUFFICES ASSUME NEW s \in Slots(original), s # place
               PROVE  new(s[1], s[2]) = old(s[1], s[2])
    OBVIOUS
  <2>1. PICK m \in DOMAIN original : s \in {m} \X DOMAIN original[m].replicas
    BY DEF Slots
  <2>2. PICK j \in DOMAIN original[m].replicas : s = <<m, j>>
    BY <2>1
  <2>3. new(m, j) = old(m, j)
    BY <1>3, <2>2
  <2> QED BY <2>2, <2>3
<1>10. place[1] = n /\ place[2] = i
  OBVIOUS
<1>11. old(place[1], place[2]) = source /\ new(place[1], place[2]) = r.dest
  BY <1>4, <1>5, <1>10
<1> HIDE DEF place, old, new
<1>12. place \in HeldBy(plan, source) /\ place \notin HeldBy(plan, r.dest) /\ place \in HeldBy(plan', r.dest)
  BY <1>1, <1>6, <1>7, <1>8, <1>11
<1>13. HeldBy(plan', source) = HeldBy(plan, source) \ {place}
  <2>1. ASSUME NEW s
        PROVE  s \in HeldBy(plan', source) <=> s \in HeldBy(plan, source) /\ s # place
    <3>1. /\ s \in HeldBy(plan, source) <=> s \in Slots(original) /\ old(s[1], s[2]) = source
          /\ s \in HeldBy(plan', source) <=> s \in Slots(original) /\ new(s[1], s[2]) = source
      BY <1>7, <1>8, Zenon
    <3>2. CASE s = place
      BY <1>1, <1>11, <3>1, <3>2, Zenon
    <3>3. CASE s # place
      BY <1>9, <3>1, <3>3, Zenon
    <3> QED BY <3>2, <3>3
  <2> QED BY <2>1, Zenon
<1>14. HeldBy(plan', r.dest) \ {place} = HeldBy(plan, r.dest)
  <2>1. ASSUME NEW s
        PROVE  s \in HeldBy(plan, r.dest) <=> s \in HeldBy(plan', r.dest) /\ s # place
    <3>1. /\ s \in HeldBy(plan, r.dest) <=> s \in Slots(original) /\ old(s[1], s[2]) = r.dest
          /\ s \in HeldBy(plan', r.dest) <=> s \in Slots(original) /\ new(s[1], s[2]) = r.dest
      BY <1>7, <1>8, Zenon
    <3>2. CASE s = place
      BY <1>1, <1>11, <3>1, <3>2, Zenon
    <3>3. CASE s # place
      BY <1>9, <3>1, <3>3, Zenon
    <3> QED BY <3>2, <3>3
  <2> QED BY <2>1, Zenon
<1>15. ASSUME NEW id, id # source, id # r.dest PROVE HeldBy(plan', id) = HeldBy(plan, id)
  BY <1>6, <1>7, <1>8, <1>9, <1>11, <1>15
<1> QED BY <1>10, <1>12, <1>13, <1>14, <1>15

(* The storage of a broker, if the moves p are made.                       *)
Accounted(p, b, id) ==
    b[id].free + SizeOn(RelocatedBy(p), id) = bmIn[id].free + SizeOn(original, id)

(* A move keeps the storage of every broker and the planned map in accord. *)
LEMMA StorageMoved ==
  ASSUME Started, SameBrokers, MovedOnce, MovedOnce', UNCHANGED <<original, targets>>,
         NEW source, NEW r, Moved(source, r), NEW id \in Real(bmIn), Accounted(plan, bm, id)
  PROVE  Accounted(plan', bm', id)
<1> DEFINE size == Size(original[r.n])
           W(p, x) == SumFunctionOnSet(Weights, HeldBy(p, x))
<1>1. /\ source \in Real(bmIn) /\ r.dest \in DOMAIN bmIn /\ r.dest # source
      /\ Shifted(bm, bm', source, r.dest, size)
  BY MovedStorage
<1>2. PICK s \in HeldBy(plan, source) :
           /\ s[1] = r.n /\ s \notin HeldBy(plan, r.dest) /\ s \in HeldBy(plan', r.dest)
           /\ HeldBy(plan', source) = HeldBy(plan, source) \ {s}
           /\ HeldBy(plan', r.dest) \ {s} = HeldBy(plan, r.dest)
           /\ \A x : x # source /\ x # r.dest => HeldBy(plan', x) = HeldBy(plan, x)
  BY HeldMove
<1>3. /\ W(plan, source) \in Int /\ W(plan', source) \in Int
      /\ W(plan, r.dest) \in Int /\ W(plan', r.dest) \in Int
  BY WeightsSum DEF Started
<1>4. W(plan, source) = size + W(plan', source)
  BY <1>2, WeightsSum DEF Started
<1>5. W(plan', r.dest) = size + W(plan, r.dest)
  BY <1>2, WeightsSum DEF Started
<1>6. id # source /\ id # r.dest => W(plan', id) = W(plan, id)
  BY <1>2
<1>7. SizeOn(RelocatedBy(plan), id) = W(plan, id) /\ SizeOn(RelocatedBy(plan'), id) = W(plan', id)
  BY RelocatedSize DEF Started
<1>8. size \in Int
  BY SizeNat
<1>9. bm[id].free \in Int /\ id \in DOMAIN bm /\ DOMAIN bm = DOMAIN bmIn
  BY DEF SameBrokers, Real, BrokerRecord
<1>10. SizeOn(original, id) \in Int /\ bmIn[id].free \in Int
  <2>1. SizeOn(original, id) \in Int
    BY NothingRelocated, RelocatedSize, WeightsSum DEF Started
  <2>2. bmIn[id].free \in Int
    BY DEF Started, Cluster, Real, BrokerRecord
  <2> QED BY <2>1, <2>2
<1>11. W(plan, id) \in Int
  BY WeightsSum DEF Started
<1> HIDE DEF W, size
<1>12. CASE id = source
  BY <1>1, <1>3, <1>4, <1>7, <1>8, <1>9, <1>10, <1>12 DEF Accounted, Shifted
<1>13. CASE id = r.dest
  BY <1>1, <1>3, <1>5, <1>7, <1>8, <1>9, <1>10, <1>13 DEF Accounted, Shifted
<1>14. CASE id # source /\ id # r.dest
  BY <1>1, <1>6, <1>7, <1>9, <1>14 DEF Accounted, Shifted
<1> QED BY <1>12, <1>13, <1>14

(* Steps that add no result keep the storage of the results.               *)
LEMMA StorageFrame ==
  ASSUME StorageInv, UNCHANGED <<original, bmIn, results>>
  PROVE  StorageMatchesMap'
BY DEF StorageInv, StorageMatchesMap

(* Visit preserves the storage invariant.                                  *)
LEMMA StorageVisit ==
  ASSUME TypeInv, PlanInv, PlanInv', StorageInv, Visit
  PROVE  StorageInv'
<1>1. Started /\ (NotMoved \/ \E r : Moved(targets[visit], r))
  BY VisitStep
<1>2. pc = "plan" /\ UNCHANGED <<pc, params, original, bmIn, targets, results>>
  BY DEF Visit
<1>3. SameBrokers /\ MovedOnce /\ MovedOnce'
  BY <1>1, <1>2 DEF Started, PlanInv
<1>4. Relocated = RelocatedBy(plan) /\ Relocated' = RelocatedBy(plan')
  BY <1>2, RelocatedPlan
<1>5. \A id \in Real(bmIn) : Accounted(plan, bm, id)
  BY <1>2, <1>4 DEF StorageInv, Accounted
<1>6. \A id \in Real(bmIn) : Accounted(plan', bm', id)
  <2>1. CASE NotMoved
    BY <1>5, <2>1 DEF NotMoved
  <2>2. ASSUME NEW r, Moved(targets[visit], r), NEW id \in Real(bmIn)
        PROVE  Accounted(plan', bm', id)
    BY <1>1, <1>2, <1>3, <1>5, <2>2, StorageMoved
  <2> QED BY <1>1, <2>1, <2>2
<1>7. \A id \in Real(bmIn)' :
        bm'[id].free + SizeOn(Relocated, id)' = bmIn'[id].free + SizeOn(original, id)'
  BY <1>2, <1>4, <1>6 DEF Accounted, Real
<1>8. StorageMatchesMap'
  BY <1>2, StorageFrame
<1> QED BY <1>7, <1>8 DEF StorageInv

(* Start preserves the storage invariant.                                  *)
LEMMA StorageStart ==
  ASSUME TypeInv, StorageInv, Start
  PROVE  StorageInv'
<1>1. Cluster
  BY DEF TypeInv, Fresh, Started, Start
<1>2. plan' = {} /\ bm' = bmIn /\ UNCHANGED <<original, bmIn, results>>
  BY DEF Start
<1>3. Relocated' = RelocatedBy({})
  BY <1>2, RelocatedPlan
<1>4. \A id \in Real(bmIn)' :
        bm'[id].free + SizeOn(Relocated, id)' = bmIn'[id].free + SizeOn(original, id)'
  <2> SUFFICES ASSUME NEW id PROVE SizeOn(Relocated', id) = SizeOn(original, id)
    BY <1>2
  <2> QED BY <1>1, <1>3, NothingRelocated
<1>5. StorageMatchesMap'
  BY <1>2, StorageFrame
<1> QED BY <1>4, <1>5 DEF StorageInv

(* EndPlan preserves the storage invariant.                                *)
LEMMA StorageEndPlan ==
  ASSUME TypeInv, StorageInv, EndPlan
  PROVE  StorageInv'
<1>1. Started /\ pc = "plan" /\ SameBrokers
  BY DEF TypeInv, Fresh, EndPlan, Started
<1>2. /\ results' = results \cup {[tol |-> tol, map |-> Relocated, bm |-> bm]} /\ pc' = "start"
      /\ UNCHANGED <<original, bmIn>>
  BY DEF EndPlan
<1>3. ASSUME NEW id \in Real(bmIn)
      PROVE  bm[id].free - bmIn[id].free = SizeOn(original, id) - SizeOn(Relocated, id)
  <2>1. bm[id].free \in Int /\ bmIn[id].free \in Int
    BY <1>1 DEF SameBrokers, Started, Cluster, Real, BrokerRecord
  <2>2. SizeOn(original, id) \in Int
    BY <1>1, NothingRelocated, RelocatedSize, WeightsSum DEF Started
  <2>3. SizeOn(Relocated, id) \in Int
    BY <1>1, RelocatedPlan, RelocatedSize, WeightsSum DEF Started
  <2>4. bm[id].free + SizeOn(Relocated, id) = bmIn[id].free + SizeOn(original, id)
    BY <1>1 DEF StorageInv
  <2> QED BY <2>1, <2>2, <2>3, <2>4
<1>4. StorageMatchesMap'
  <2> SUFFICES ASSUME NEW r \in results', NEW id \in Real(bmIn)
               PROVE  r.bm[id].free - bmIn[id].free = SizeOn(original, id) - SizeOn(r.map, id)
    BY <1>2 DEF StorageMatchesMap, Real
  <2> QED BY <1>2, <1>3 DEF StorageInv, StorageMatchesMap
<1> QED BY <1>2, <1>4 DEF StorageInv

(* Read establishes the storage invariant.                                 *)
LEMMA StorageRead ==
  ASSUME TypeInv, Read
  PROVE  StorageInv'
<1>1. results' = {} /\ pc' # "plan"
  BY DEF TypeInv, Fresh, Started, Read, planning
<1> QED BY <1>1 DEF StorageInv, StorageMatchesMap

(* ReadFails, Choose, Optimize, Write and stuttering preserve the storage  *)
(* invariant.                                                              *)
LEMMA StorageOther ==
  ASSUME StorageInv, ReadFails \/ Panic \/ Choose \/ Optimize \/ Write \/ UNCHANGED vars
  PROVE  StorageInv'
<1>1. UNCHANGED <<original, bmIn, plan, results>>
  BY DEF ReadFails, Panic, Choose, Optimize, Write, vars, planning
<1>2. pc' # "plan" \/ UNCHANGED <<pc, bm>>
  BY DEF ReadFails, Panic, Choose, Optimize, Write, vars, planning
<1>3. StorageMatchesMap'
  BY <1>1, StorageFrame
<1>4. CASE pc' # "plan"
  BY <1>3, <1>4 DEF StorageInv
<1>5. CASE UNCHANGED <<pc, bm>>
  <2>1. Relocated' = Relocated
    BY <1>1, RelocatedPlan
  <2> QED BY <1>1, <1>3, <1>5, <2>1 DEF StorageInv, Real
<1> QED BY <1>2, <1>4, <1>5

(* The free storage by which the plans are compared, kept up to date move  *)
(* by move, is what the brokers will have with the map of the plan.        *)
THEOREM StorageAccountedFor == Spec => []StorageMatchesMap
<1>1. Init => StorageInv
  BY DEF Init, StorageInv, StorageMatchesMap
<1>2. TypeInv /\ PlanInv /\ PlanInv' /\ StorageInv /\ [Next]_vars => StorageInv'
  BY StorageRead, StorageStart, StorageVisit, StorageEndPlan, StorageOther DEF Next
<1>3. StorageInv => StorageMatchesMap
  BY DEF StorageInv
<1> QED BY <1>1, <1>2, <1>3, TypeInvariance, PlanInvariance, PTL DEF Spec

-----------------------------------------------------------------------------
(* Tolerance.                                                              *)

(* w is v with size taken from b and given to a.                           *)
ShiftsBetween(R, v, w, a, b, size) ==
    /\ a \in R /\ b \in R /\ a # b /\ size \in Int
    /\ \A x \in R : v[x] \in Int /\ w[x] \in Int
    /\ w[a] = v[a] + size /\ w[b] = v[b] - size
    /\ \A x \in R \ {a, b} : w[x] = v[x]

(* What one element gives another leaves the sum as it was.                *)
LEMMA ShiftedSum ==
  ASSUME NEW R, IsFiniteSet(R), NEW v, NEW w, NEW a, NEW b, NEW size,
         ShiftsBetween(R, v, w, a, b, size)
  PROVE  SumFunctionOnSet(w, R) = SumFunctionOnSet(v, R)
<1> USE DEF ShiftsBetween
<1> DEFINE S == R \ {a}
           T == S \ {b}
<1>1. IsFiniteSet(S) /\ IsFiniteSet(T)
  <2>1. S \in SUBSET R /\ T \in SUBSET R
    OBVIOUS
  <2> HIDE DEF S, T
  <2> QED BY <2>1, FS_Subset
<1>2. b \in S /\ \A x \in T : w[x] = v[x]
  OBVIOUS
<1>3. \A x \in S : v[x] \in Int /\ w[x] \in Int
  OBVIOUS
<1>4. /\ SumFunctionOnSet(v, R) = v[a] + SumFunctionOnSet(v, S)
      /\ SumFunctionOnSet(w, R) = w[a] + SumFunctionOnSet(w, S)
  BY SumRemove
<1> HIDE DEF S
<1>5. /\ SumFunctionOnSet(v, S) = v[b] + SumFunctionOnSet(v, T)
      /\ SumFunctionOnSet(w, S) = w[b] + SumFunctionOnSet(w, T)
  BY <1>1, <1>2, <1>3, SumRemove
<1>6. \A x \in T : v[x] \in Int /\ w[x] \in Int
  BY <1>3
<1> HIDE DEF T
<1>7. SumFunctionOnSet(w, T) = SumFunctionOnSet(v, T) /\ SumFunctionOnSet(v, T) \in Int
  BY <1>1, <1>2, <1>6, SumEqual, SumRemove
<1>8. v[a] \in Int /\ v[b] \in Int
  OBVIOUS
<1> QED BY <1>4, <1>5, <1>7, <1>8

(* The sum over brokers that all have free storage.                        *)
LEMMA MeanOfAll ==
  ASSUME NEW b, NEW R, Counted(b) = R, IsFiniteSet(R), \A id \in R : b[id].free \in Int
  PROVE  /\ MeanSum(b) = SumFunctionOnSet([id \in R |-> b[id].free], R)
         /\ MeanSum(b) \in Nat /\ (R # {} => MeanSum(b) > 0)
<1> DEFINE v == [id \in R |-> b[id].free]
<1>1. MeanSum(b) = SumFunctionOnSet(v, R)
  BY DEF MeanSum, SumFunction
<1>2. \A id \in R : b[id].free > 0
  BY DEF Counted
<1>3. \A id \in R : v[id] \in Nat /\ v[id] > 0
  BY <1>2
<1> HIDE DEF v
<1>4. SumFunctionOnSet(v, R) \in Nat /\ \A id \in R : SumFunctionOnSet(v, R) >= v[id]
  BY <1>3, SumNat
<1>5. R # {} => MeanSum(b) > 0
  BY <1>1, <1>3, <1>4
<1> QED BY <1>1, <1>4, <1>5 DEF v

(* A number is positive when a positive multiple of it is at least one.    *)
LEMMA PositiveFactor ==
  ASSUME NEW c \in Nat \ {0}, NEW x \in Int, NEW m \in Nat \ {0}, NEW t \in Nat \ {0},
         100 * c * x >= m * t
  PROVE  x > 0
<1>1. m * t > 0
  OBVIOUS
<1>2. x <= 0 => c * x <= 0
  OBVIOUS
<1>3. c * x \in Int /\ 100 * c * x = 100 * (c * x)
  OBVIOUS
<1> QED BY <1>1, <1>2, <1>3

(* A move keeps every broker within the limits that its destination was    *)
(* tested against.                                                         *)
LEMMA ToleranceMoved ==
  ASSUME Started, SameBrokers, AllCounted, tol \in Nat, tol < 100, Limited,
         UNCHANGED <<bmIn, targets, tol>>, NEW source, NEW r, Moved(source, r)
  PROVE  Limited'
<1> DEFINE R == Real(bmIn)
           d == r.dest
           size == Size(original[r.n])
           C == Cardinality(R)
           M == MeanSum(bmIn)
<1>1. /\ source \in R /\ d \in DOMAIN bmIn /\ d # source
      /\ Shifted(bm, bm', source, d, size)
  BY MovedStorage
<1>2. source \in Range(targets) /\ d \notin Range(targets)
  BY DestinationBroker DEF Moved, Schedulable
<1>3. IsFiniteSet(R) /\ C \in Nat \ {0}
  <2>1. IsFiniteSet(DOMAIN bmIn)
    BY DEF Started, Cluster
  <2>2. IsFiniteSet(R) /\ R \in SUBSET DOMAIN bmIn
    BY <2>1, FS_Subset DEF Real
  <2>3. R # {}
    BY <1>1
  <2> HIDE DEF R
  <2> QED BY <2>2, <2>3, FS_CardinalityType, FS_EmptySet
<1>4. /\ \A id \in DOMAIN bmIn : bmIn[id].free \in Int /\ bm[id].free \in Int /\ bm'[id].free \in Int
      /\ DOMAIN bm = DOMAIN bmIn /\ DOMAIN bm' = DOMAIN bmIn
  BY <1>1 DEF SameBrokers, Started, Cluster, BrokerRecord, Shifted
<1>5. R \subseteq DOMAIN bmIn /\ StubBrokerID \notin R /\ R = Real(bm) /\ R = Real(bm')
  BY <1>4 DEF Real
<1>6. size \in Nat
  BY SizeNat
<1>7. Counted(bmIn) = R /\ Counted(bm) = R /\ MeanSum(bm) = M
  BY DEF AllCounted, Limited
<1>8. M \in Nat \ {0}
  <2>1. /\ Counted(bmIn) = R /\ IsFiniteSet(R) /\ R # {}
        /\ \A id \in R : bmIn[id].free \in Int
    BY <1>1, <1>3, <1>4, <1>5, <1>7
  <2> HIDE DEF R
  <2>2. MeanSum(bmIn) \in Nat /\ MeanSum(bmIn) > 0
    BY <2>1, MeanOfAll
  <2> QED BY <2>2
<1>9. /\ 100 * C * (bm[source].free + size) <= M * (100 + tol)
      /\ 100 * C * (bm[d].free - size) >= M * (100 - tol)
  BY <1>7 DEF Moved, Schedulable, Tolerated
<1>10. bm'[source].free = bm[source].free + size /\ bm'[d].free = bm[d].free - size
  BY <1>1 DEF Shifted
<1>11. UpperLimit(bm'[source].free, tol) /\ LowerLimit(bm'[d].free, tol)
  BY <1>9, <1>10 DEF UpperLimit, LowerLimit
<1> HIDE DEF C, M
<1>12. bm'[d].free > 0
  <2>1. 100 - tol \in Nat \ {0}
    OBVIOUS
  <2>2. 100 * C * bm'[d].free >= M * (100 - tol)
    BY <1>9, <1>10
  <2>3. bm'[d].free \in Int
    BY <1>1, <1>4
  <2> DEFINE x == bm'[d].free
             t == 100 - tol
  <2> HIDE DEF x, t
  <2>4. x \in Int /\ t \in Nat \ {0} /\ 100 * C * x >= M * t
    BY <2>1, <2>2, <2>3 DEF x, t
  <2>5. x > 0
    BY <1>3, <1>8, <2>4, PositiveFactor
  <2> QED BY <2>5 DEF x
<1>13. d \in R
  <2> SUFFICES ASSUME d = StubBrokerID PROVE FALSE
    BY <1>1 DEF Real
  <2>1. bm[d].free = 0
    BY DEF Limited, Started, Cluster
  <2> QED BY <1>6, <1>10, <1>12, <2>1
<1> HIDE DEF R, size
<1>14. \A id \in R \ {source, d} : bm'[id] = bm[id]
  BY <1>1, <1>4, <1>5 DEF Shifted
<1>15. \A id \in R : bm'[id].free > 0
  <2>1. \A id \in R : bm[id].free > 0
    BY <1>7 DEF Counted
  <2>2. bm'[source].free > 0
    BY <1>1, <1>4, <1>5, <1>6, <1>10, <2>1
  <2> QED BY <1>12, <1>14, <2>1, <2>2
<1>16. Counted(bm') = R
  BY <1>5, <1>15 DEF Counted
<1>17. MeanSum(bm') = M
  <2> DEFINE v == [id \in R |-> bm[id].free]
             w == [id \in R |-> bm'[id].free]
  <2>1. MeanSum(bm) = SumFunctionOnSet(v, R)
    BY <1>3, <1>4, <1>5, <1>7, MeanOfAll
  <2>2. MeanSum(bm') = SumFunctionOnSet(w, R)
    BY <1>3, <1>4, <1>5, <1>16, MeanOfAll
  <2>3. /\ \A x \in R : v[x] \in Int /\ w[x] \in Int
        /\ w[source] = v[source] + size /\ w[d] = v[d] - size
        /\ \A x \in R \ {source, d} : w[x] = v[x]
    BY <1>1, <1>4, <1>5, <1>10, <1>13, <1>14
  <2> HIDE DEF v, w, d
  <2>4. source \in R /\ d \in R /\ source # d /\ IsFiniteSet(R) /\ size \in Int
    BY <1>1, <1>3, <1>6, <1>13
  <2>5. ShiftsBetween(R, v, w, source, d, size)
    BY <2>3, <2>4 DEF ShiftsBetween
  <2>6. SumFunctionOnSet(w, R) = SumFunctionOnSet(v, R)
    BY <2>4, <2>5, ShiftedSum
  <2> QED BY <1>7, <2>1, <2>2, <2>6
<1>18. bm'[StubBrokerID] = bmIn[StubBrokerID]
  BY <1>1, <1>4, <1>5, <1>13 DEF Limited, Shifted, Started, Cluster
<1>19. ASSUME NEW id \in Range(targets)
       PROVE  \/ bm'[id].free = bmIn[id].free
              \/ bm'[id].free > bmIn[id].free /\ UpperLimit(bm'[id].free, tol)
  <2>1. id \in R /\ id # d
    BY <1>2, <1>19 DEF Started, Cluster, R
  <2>2. \/ bm[id].free = bmIn[id].free
        \/ bm[id].free > bmIn[id].free /\ UpperLimit(bm[id].free, tol)
    BY <1>19 DEF Limited
  <2>3. CASE id = source
    BY <1>4, <1>5, <1>6, <1>10, <1>11, <2>1, <2>2, <2>3
  <2>4. CASE id # source
    BY <1>14, <2>1, <2>2, <2>4
  <2> QED BY <2>3, <2>4
<1>20. ASSUME NEW id \in R \ Range(targets)
       PROVE  \/ bm'[id].free = bmIn[id].free
              \/ bm'[id].free < bmIn[id].free /\ LowerLimit(bm'[id].free, tol)
  <2>1. id \in R /\ id # source
    BY <1>2, <1>20
  <2>2. \/ bm[id].free = bmIn[id].free
        \/ bm[id].free < bmIn[id].free /\ LowerLimit(bm[id].free, tol)
    BY <1>20 DEF Limited, R
  <2>3. CASE id = d
    BY <1>4, <1>5, <1>6, <1>10, <1>11, <2>1, <2>2, <2>3
  <2>4. CASE id # d
    BY <1>14, <2>1, <2>2, <2>4
  <2> QED BY <2>3, <2>4
<1>21. \A x : (UpperLimit(x, tol)' <=> UpperLimit(x, tol)) /\ (LowerLimit(x, tol)' <=> LowerLimit(x, tol))
  BY DEF UpperLimit, LowerLimit
<1>22. Counted(bm)' = Counted(bm') /\ MeanSum(bm)' = MeanSum(bm') /\ MeanSum(bmIn)' = M /\ Real(bmIn)' = R
  BY DEF R, M
<1> QED BY <1>16, <1>17, <1>18, <1>19, <1>20, <1>22 DEF Limited, UpperLimit, LowerLimit, R, M

(* Steps that add no result keep the limits of the results.                *)
LEMMA ToleranceFrame ==
  ASSUME ToleranceInv, UNCHANGED <<bmIn, results>>
  PROVE  WithinTolerance'
BY DEF ToleranceInv, WithinTolerance

(* Visit preserves the invariant of the limits.                            *)
LEMMA ToleranceVisit ==
  ASSUME TypeInv, ToleranceInv, Visit
  PROVE  ToleranceInv'
<1>1. Started /\ (NotMoved \/ \E r : Moved(targets[visit], r))
  BY VisitStep
<1>2. pc = "plan" /\ UNCHANGED <<pc, bmIn, targets, tol, results>>
  BY DEF Visit
<1>3. SameBrokers /\ tol \in Nat
  BY <1>1, <1>2 DEF Started, TypeInv
<1>4. ASSUME AllCounted', tol' < 100 PROVE Limited'
  <2>1. AllCounted /\ tol < 100
    BY <1>2, <1>4 DEF AllCounted
  <2>2. Limited
    BY <1>2, <2>1 DEF ToleranceInv
  <2>3. CASE NotMoved
    BY <1>2, <2>2, <2>3 DEF NotMoved, Limited, UpperLimit, LowerLimit
  <2>4. CASE \E r : Moved(targets[visit], r)
    BY <1>1, <1>2, <1>3, <2>1, <2>2, <2>4, ToleranceMoved
  <2> QED BY <1>1, <2>3, <2>4
<1>5. WithinTolerance'
  BY <1>2, ToleranceFrame
<1> QED BY <1>4, <1>5 DEF ToleranceInv

(* Start preserves the invariant of the limits.                            *)
LEMMA ToleranceStart ==
  ASSUME ToleranceInv, Start
  PROVE  ToleranceInv'
<1>1. bm' = bmIn /\ UNCHANGED <<bmIn, targets, results>>
  BY DEF Start
<1>2. ASSUME AllCounted' PROVE Limited'
  BY <1>1, <1>2 DEF AllCounted, Limited
<1>3. WithinTolerance'
  BY <1>1, ToleranceFrame
<1> QED BY <1>2, <1>3 DEF ToleranceInv

(* EndPlan preserves the invariant of the limits.                          *)
LEMMA ToleranceEndPlan ==
  ASSUME TypeInv, ToleranceInv, EndPlan
  PROVE  ToleranceInv'
<1>1. Started /\ pc = "plan" /\ SameBrokers
  BY DEF TypeInv, Fresh, EndPlan, Started
<1>2. /\ results' = results \cup {[tol |-> tol, map |-> Relocated, bm |-> bm]} /\ pc' = "start"
      /\ UNCHANGED bmIn
  BY DEF EndPlan
<1> DEFINE Within(t, b, id) ==
              /\ b[id].free > bmIn[id].free => UpperLimit(b[id].free, t)
              /\ b[id].free < bmIn[id].free => LowerLimit(b[id].free, t)
<1>3. ASSUME AllCounted, tol < 100, NEW id \in Real(bmIn)
      PROVE  Within(tol, bm, id)
  <2>1. Limited
    BY <1>1, <1>3 DEF ToleranceInv
  <2>2. bm[id].free \in Int /\ bmIn[id].free \in Int
    BY <1>1 DEF SameBrokers, Started, Cluster, Real, BrokerRecord
  <2>3. CASE id \in Range(targets)
    BY <2>1, <2>2, <2>3 DEF Limited
  <2>4. CASE id \notin Range(targets)
    BY <2>1, <2>2, <2>4 DEF Limited
  <2> QED BY <2>3, <2>4
<1>4. AllCounted => \A r \in results : r.tol < 100 => \A id \in Real(bmIn) : Within(r.tol, r.bm, id)
  BY DEF ToleranceInv, WithinTolerance, AllCounted, UpperLimit, LowerLimit
<1>5. AllCounted => \A r \in results' : r.tol < 100 => \A id \in Real(bmIn) : Within(r.tol, r.bm, id)
  BY <1>2, <1>3, <1>4
<1>6. WithinTolerance'
  BY <1>2, <1>5 DEF WithinTolerance, AllCounted, UpperLimit, LowerLimit
<1> QED BY <1>2, <1>6 DEF ToleranceInv

(* Read establishes the invariant of the limits.                           *)
LEMMA ToleranceRead ==
  ASSUME TypeInv, Read
  PROVE  ToleranceInv'
<1>1. results' = {} /\ pc' # "plan"
  BY DEF TypeInv, Fresh, Started, Read, planning
<1> QED BY <1>1 DEF ToleranceInv, WithinTolerance

(* ReadFails, Choose, Optimize, Write and stuttering preserve the          *)
(* invariant of the limits.                                                *)
LEMMA ToleranceOther ==
  ASSUME ToleranceInv, ReadFails \/ Panic \/ Choose \/ Optimize \/ Write \/ UNCHANGED vars
  PROVE  ToleranceInv'
<1>1. UNCHANGED <<bmIn, targets, results>>
  BY DEF ReadFails, Panic, Choose, Optimize, Write, vars, planning
<1>2. pc' # "plan" \/ UNCHANGED <<pc, bm, tol>>
  BY DEF ReadFails, Panic, Choose, Optimize, Write, vars, planning
<1>3. WithinTolerance'
  BY <1>1, ToleranceFrame
<1>4. CASE pc' # "plan"
  BY <1>3, <1>4 DEF ToleranceInv
<1>5. CASE UNCHANGED <<pc, bm, tol>>
  BY <1>1, <1>3, <1>5 DEF ToleranceInv, AllCounted, Limited, UpperLimit, LowerLimit
<1> QED BY <1>2, <1>4, <1>5

(* However many relocations a plan makes, no target ends above, and no     *)
(* other broker below, the tolerated distance from the mean that they had  *)
(* at first, although each move is checked against the mean of the moment. *)
THEOREM PlansWithinTolerance == Spec => []WithinTolerance
<1>1. Init => ToleranceInv
  BY DEF Init, ToleranceInv, WithinTolerance
<1>2. TypeInv /\ ToleranceInv /\ [Next]_vars => ToleranceInv'
  BY ToleranceRead, ToleranceStart, ToleranceVisit, ToleranceEndPlan, ToleranceOther DEF Next
<1>3. ToleranceInv => WithinTolerance
  BY DEF ToleranceInv
<1> QED BY <1>1, <1>2, <1>3, TypeInvariance, PTL DEF Spec
=============================================================================
