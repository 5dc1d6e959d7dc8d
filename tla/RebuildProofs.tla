--------------------------- MODULE RebuildProofs ---------------------------
(***************************************************************************)
(* Proofs about `topicmappr rebuild`, for every cluster and all parameters *)
(* that InputAssumption admits.                                            *)
(***************************************************************************)
EXTENDS Rebuild, MapperProofs

-----------------------------------------------------------------------------
(* The map that is read and those prepared from it.                        *)

InNameOrder(m) == \A i, j \in DOMAIN m : i < j => ByName(m[i], m[j])

(* A map as Kafka has it.                                                  *)
OfKafka(m) ==
    /\ m \in Seq(Partition) /\ InNameOrder(m)
    /\ \A n \in DOMAIN m : m[n].replicas # <<>> /\ Distinct(m[n].replicas)
    /\ OnlineIn(m) \subseteq Nat \ {StubBrokerID}

(* A part of a map of Kafka's is such a map.                               *)
LEMMA PrunedOfKafka ==
  ASSUME NEW m, OfKafka(m), NEW places \in SUBSET DOMAIN m
  PROVE  OfKafka(Pruned(m, places))
<1> DEFINE k == Cardinality(places)
           p == Pruned(m, places)
           f == InOrder(places)
<1>1. m \in Seq(Partition)
  BY DEF OfKafka
<1>2. /\ k \in Nat /\ p \in Seq(Partition) /\ DOMAIN p = 1 .. k
      /\ \A i \in 1 .. k : f[i] \in places /\ p[i] = m[f[i]]
  BY <1>1, PrunedMap
<1>3. Increasing(f) /\ DOMAIN f = 1 .. k
  <2>1. IsFiniteSet(places) /\ places \in SUBSET Int
    BY <1>1, PrunedMap
  <2>2. InOrder(places) \in [1 .. Cardinality(places) -> places]
    BY <2>1, InOrderSequence
  <2> QED BY <2>1, <2>2, InOrderEnumerates
<1> HIDE DEF k, p, f
<1>4. InNameOrder(p)
  <2> SUFFICES ASSUME NEW i \in 1 .. k, NEW j \in 1 .. k, i < j
               PROVE  ByName(p[i], p[j])
    BY <1>2 DEF InNameOrder
  <2>1. f[i] < f[j]
    BY <1>3 DEF Increasing
  <2> QED BY <1>2, <2>1 DEF OfKafka, InNameOrder
<1>5. \A n \in DOMAIN p : p[n].replicas # <<>> /\ Distinct(p[n].replicas)
  BY <1>2 DEF OfKafka
<1>6. OnlineIn(p) \subseteq Nat \ {StubBrokerID}
  BY <1>2 DEF OfKafka, OnlineIn, BrokersIn
<1> QED BY <1>2, <1>4, <1>5, <1>6 DEF OfKafka, p

(* A set that stands for old: replicas that are not the stub are those of  *)
(* old, and at the same positions.                                         *)
StandsFor(rs, old) ==
    /\ rs \in Seq(Int)
    /\ \A i \in DOMAIN rs : \/ rs[i] = StubBrokerID
                            \/ i \in DOMAIN old /\ rs[i] = old[i]

(* A function on 1 .. k is a sequence of length k.                         *)
LEMMA FunctionSequence ==
  ASSUME NEW k \in Nat, NEW s \in [1 .. k -> Int]
  PROVE  s \in Seq(Int) /\ Len(s) = k
OBVIOUS

(* Stubs(k) is a sequence of k stub brokers.                               *)
LEMMA StubsSequence ==
  ASSUME NEW k \in Nat
  PROVE  Stubs(k) \in Seq(Int) /\ Len(Stubs(k)) = k /\ \A i \in 1 .. k : Stubs(k)[i] = StubBrokerID
<1>1. StubBrokerID \in Nat
  BY DEF StubBrokerID
<1>2. Stubs(k) = [i \in 1 .. k |-> StubBrokerID]
  BY DEF Stubs
<1>3. Stubs(k) \in [1 .. k -> Nat]
  BY <1>1, <1>2
<1> QED BY <1>2, <1>3

(* A replica set that is cut or filled with stubs stands for the old one.  *)
LEMMA ResizedSet ==
  ASSUME NEW rs \in Seq(Int), NEW r \in Nat
  PROVE  StandsFor(IF Len(rs) >= r THEN SubSeq(rs, 1, r) ELSE rs \o Stubs(r - Len(rs)), rs)
<1>1. CASE Len(rs) >= r
  BY <1>1 DEF StandsFor
<1>2. CASE Len(rs) < r
  <2> DEFINE st == Stubs(r - Len(rs))
  <2>1. r - Len(rs) \in Nat
    BY <1>2
  <2>2. st \in Seq(Int) /\ Len(st) = r - Len(rs) /\ \A i \in 1 .. r - Len(rs) : st[i] = StubBrokerID
    BY <2>1, StubsSequence
  <2> HIDE DEF st
  <2>3. rs \o st \in Seq(Int) /\ Len(rs \o st) = r
    BY <2>2
  <2>4. ASSUME NEW i \in DOMAIN (rs \o st), i \notin DOMAIN rs
        PROVE  (rs \o st)[i] = StubBrokerID
    <3>1. i \in 1 .. r /\ i > Len(rs) /\ i - Len(rs) \in 1 .. r - Len(rs)
      BY <2>3, <2>4
    <3>2. (rs \o st)[i] = st[i - Len(rs)]
      BY <2>2, <3>1
    <3> QED BY <2>2, <3>1, <3>2
  <2>5. \A i \in DOMAIN rs : (rs \o st)[i] = rs[i]
    BY <2>2
  <2>6. StandsFor(rs \o st, rs)
    BY <2>3, <2>4, <2>5 DEF StandsFor
  <2> QED BY <1>2, <2>6 DEF st
<1> QED BY <1>1, <1>2

(* WithReplicas changes the replicas of a partition only.                  *)
LEMMA WithReplicasPartition ==
  ASSUME NEW p \in Partition, NEW rs \in Seq(Int)
  PROVE  /\ WithReplicas(p, rs) \in Partition /\ WithReplicas(p, rs).replicas = rs
         /\ SamePartition(WithReplicas(p, rs), p)
BY DEF WithReplicas, Partition, SamePartition

(* Every partition of m with other replicas.                               *)
LEMMA MapWithReplicas ==
  ASSUME NEW m \in Seq(Partition), NEW f, \A n \in DOMAIN m : f[n] \in Seq(Int),
         NEW x, x = [n \in DOMAIN m |-> WithReplicas(m[n], f[n])]
  PROVE  /\ x \in Seq(Partition) /\ DOMAIN x = DOMAIN m /\ Len(x) = Len(m)
         /\ \A n \in DOMAIN m : SamePartition(x[n], m[n]) /\ x[n].replicas = f[n]
<1>1. DOMAIN m = 1 .. Len(m) /\ Len(m) \in Nat /\ \A n \in DOMAIN m : m[n] \in Partition
  OBVIOUS
<1>2. \A n \in DOMAIN m : x[n] = WithReplicas(m[n], f[n])
  OBVIOUS
<1>3. \A n \in DOMAIN m : /\ x[n] \in Partition /\ x[n].replicas = f[n]
                          /\ SamePartition(x[n], m[n])
  BY <1>1, <1>2, WithReplicasPartition
<1>4. x \in [1 .. Len(m) -> Partition]
  BY <1>1, <1>3
<1>5. x \in Seq(Partition) /\ Len(x) = Len(m) /\ DOMAIN x = DOMAIN m
  BY <1>1, <1>4
<1> QED BY <1>3, <1>5

Derived(x, m) ==
    /\ x \in Seq(Partition) /\ DOMAIN x = DOMAIN m /\ Len(x) = Len(m)
    /\ \A n \in DOMAIN m : SamePartition(x[n], m[n]) /\ StandsFor(x[n].replicas, m[n].replicas)

(* SetReplication keeps the partitions and resizes their replica sets.     *)
LEMMA ResizedMap ==
  ASSUME NEW m \in Seq(Partition), NEW r \in Nat
  PROVE  Derived(SetReplication(m, r), m)
<1>1. \A n \in DOMAIN m : m[n].replicas \in Seq(Int)
  <2> SUFFICES ASSUME NEW n \in DOMAIN m PROVE m[n].replicas \in Seq(Int)
    OBVIOUS
  <2>1. m[n] \in Partition
    OBVIOUS
  <2> QED BY <2>1 DEF Partition
<1>2. CASE r = 0
  <2>1. SetReplication(m, r) = m
    BY <1>2 DEF SetReplication
  <2> QED BY <1>1, <2>1 DEF Derived, SamePartition, StandsFor
<1>3. CASE r # 0
  <2> DEFINE f == [n \in DOMAIN m |->
                     IF Len(m[n].replicas) >= r THEN SubSeq(m[n].replicas, 1, r)
                     ELSE m[n].replicas \o Stubs(r - Len(m[n].replicas))]
             x == SetReplication(m, r)
  <2>1. \A n \in DOMAIN m : StandsFor(f[n], m[n].replicas)
    BY <1>1, ResizedSet
  <2>2. x = [n \in DOMAIN m |-> WithReplicas(m[n], f[n])]
    BY <1>3 DEF SetReplication
  <2> HIDE DEF f, x
  <2>3. \A n \in DOMAIN m : f[n] \in Seq(Int)
    BY <2>1 DEF StandsFor
  <2>4. /\ x \in Seq(Partition) /\ DOMAIN x = DOMAIN m /\ Len(x) = Len(m)
        /\ \A n \in DOMAIN m : SamePartition(x[n], m[n]) /\ x[n].replicas = f[n]
    BY <2>2, <2>3, MapWithReplicas
  <2>5. Derived(x, m)
    BY <2>1, <2>4 DEF Derived
  <2> QED BY <2>5 DEF x
<1> QED BY <1>2, <1>3

(* Strip replaces every broker by the stub broker.                         *)
LEMMA StrippedMap ==
  ASSUME NEW m, NEW x, Derived(x, m)
  PROVE  /\ Derived(Strip(x), m)
         /\ \A n \in DOMAIN m : \A i \in DOMAIN Strip(x)[n].replicas :
              Strip(x)[n].replicas[i] = StubBrokerID
         /\ \A n \in DOMAIN m : Len(Strip(x)[n].replicas) = Len(x[n].replicas)
<1> DEFINE f == [n \in DOMAIN x |-> Stubs(Len(x[n].replicas))]
           y == Strip(x)
<1>1. \A n \in DOMAIN x : Len(x[n].replicas) \in Nat
  BY DEF Derived, StandsFor
<1>2. \A n \in DOMAIN x : /\ f[n] \in Seq(Int) /\ Len(f[n]) = Len(x[n].replicas)
                          /\ \A i \in DOMAIN f[n] : f[n][i] = StubBrokerID
  <2> SUFFICES ASSUME NEW n \in DOMAIN x
               PROVE  /\ f[n] \in Seq(Int) /\ Len(f[n]) = Len(x[n].replicas)
                      /\ \A i \in DOMAIN f[n] : f[n][i] = StubBrokerID
    OBVIOUS
  <2> DEFINE k == Len(x[n].replicas)
  <2>1. k \in Nat /\ f[n] = Stubs(k)
    BY <1>1
  <2> HIDE DEF k, f
  <2>2. f[n] \in Seq(Int) /\ Len(f[n]) = k /\ \A i \in 1 .. k : f[n][i] = StubBrokerID
    BY <2>1, StubsSequence
  <2> QED BY <2>2 DEF k
<1>3. y = [n \in DOMAIN x |-> WithReplicas(x[n], f[n])]
  BY DEF Strip
<1> HIDE DEF f, y
<1>4. /\ y \in Seq(Partition) /\ DOMAIN y = DOMAIN x /\ Len(y) = Len(x)
      /\ \A n \in DOMAIN x : SamePartition(y[n], x[n]) /\ y[n].replicas = f[n]
  <2>1. x \in Seq(Partition) /\ \A n \in DOMAIN x : f[n] \in Seq(Int)
    BY <1>2 DEF Derived
  <2> QED BY <1>3, <2>1, MapWithReplicas
<1>5. Derived(y, m)
  BY <1>2, <1>4 DEF Derived, SamePartition, StandsFor
<1>6. DOMAIN x = DOMAIN m
  BY DEF Derived
<1> QED BY <1>2, <1>4, <1>5, <1>6 DEF y

-----------------------------------------------------------------------------
(* The brokers.                                                            *)

(* What Read establishes and no later step changes.  A broker stays if it  *)
(* is wanted.                                                              *)
Cluster ==
    /\ OfKafka(original)
    /\ bmOrig \in [DOMAIN bmOrig -> BrokerRecord]
    /\ IsFiniteSet(DOMAIN bmOrig) /\ DOMAIN bmOrig \subseteq Nat
    /\ OnlineIn(original) \subseteq Real(bmOrig)
    /\ StubBrokerID \in DOMAIN bmOrig /\ bmOrig[StubBrokerID].replace
    /\ \A id \in Real(bmOrig) : bmOrig[id].new => ~bmOrig[id].replace
    /\ NotReplaced(bmOrig) \subseteq Wanted
    /\ OnlineIn(original) \cap Wanted \subseteq NotReplaced(bmOrig)

(* The placement counts replicas and takes storage, no more.               *)
SameBrokers ==
    /\ bm \in [DOMAIN bmOrig -> BrokerRecord]
    /\ \A id \in DOMAIN bmOrig :
         /\ bm[id].rack = bmOrig[id].rack /\ bm[id].replace = bmOrig[id].replace
         /\ bm[id].missing = bmOrig[id].missing /\ bm[id].new = bmOrig[id].new

(* New brokers substitute others.                                          *)
Fresh == {id \in Real(bmOrig) : bmOrig[id].new}
Substitutes ==
    /\ fresh \subseteq Fresh
    /\ affinities \in [DOMAIN affinities -> Fresh]

(* The metadata describe finitely many brokers, and not the stub broker.   *)
LEMMA MetaTypes ==
  ASSUME params \in ParamSets
  PROVE  Metadata(meta) /\ IsFiniteSet(DOMAIN meta) /\ DOMAIN meta \subseteq Nat \ {StubBrokerID}
<1> DEFINE ids == IF params.useMetadata THEN params.registered ELSE {}
           free(id) == IF params.placement = "storage" THEN Meta[id].free ELSE 0
<1>1. ids \in SUBSET DOMAIN Meta
  BY InputAssumption
<1>2. DOMAIN meta = ids /\ \A id \in ids : meta[id] = [rack |-> Meta[id].rack, free |-> free(id)]
  BY DEF meta
<1> HIDE DEF ids
<1>3. IsFiniteSet(ids) /\ ids \subseteq Nat \ {StubBrokerID}
  BY <1>1, InputAssumption, FS_Subset
<1>4. \A id \in ids : Meta[id] \in [rack : Nat, free : Int]
  BY <1>1, InputAssumption
<1>5. \A id \in ids : meta[id] \in [rack : Nat, free : Int]
  BY <1>2, <1>4
<1>6. Metadata(meta)
  <2>1. meta = [id \in ids |-> meta[id]]
    BY DEF meta, ids
  <2> HIDE DEF meta
  <2> QED BY <1>2, <1>5, <2>1 DEF Metadata
<1> QED BY <1>2, <1>3, <1>6

(* Reading the metadata gives the broker map of the cluster.               *)
LEMMA ReadCluster ==
  ASSUME params \in ParamSets, pm \in InputMaps, Read
  PROVE  Cluster' /\ SameBrokers'
<1> DEFINE map == getPartitionMap
           mapped == BrokerMapFromPartitionMap(map, meta, params.forceRebuild)
           A == Added(mapped, params.brokers, meta)
           P == Provided(mapped, params.brokers, meta)
<1>1. /\ original' = map /\ bmOrig' = Update(mapped, params.brokers, meta) /\ bm' = bmOrig'
      /\ params' = params
  BY Zenon DEF Read
<1>2. Metadata(meta) /\ IsFiniteSet(DOMAIN meta) /\ DOMAIN meta \subseteq Nat \ {StubBrokerID}
  BY MetaTypes
<1>3. /\ params.brokers \subseteq (Nat \ {StubBrokerID}) \cup {AllExisting, AllDiscovered}
      /\ IsFiniteSet(params.brokers) /\ params.brokers \subseteq Int
  <2>1. /\ params.brokers \subseteq (Nat \ {StubBrokerID}) \cup {AllExisting, AllDiscovered}
        /\ IsFiniteSet(params.brokers)
    BY InputAssumption
  <2>2. AllExisting \in Int /\ AllDiscovered \in Int
    BY DEF AllExisting, AllDiscovered
  <2> QED BY <2>1, <2>2
<1>4. OfKafka(pm)
  BY InputAssumption DEF OfKafka, Partition, InNameOrder
<1>5. OfKafka(map)
  <2> DEFINE places == {n \in DOMAIN pm : pm[n].topic \notin params.topicsExclude}
  <2>1. map = Pruned(pm, places)
    BY DEF getPartitionMap, removeTopics
  <2>2. places \in SUBSET DOMAIN pm
    OBVIOUS
  <2> HIDE DEF map, places
  <2> QED BY <1>4, <2>1, <2>2, PrunedOfKafka
<1> HIDE DEF map
<1>6. map \in Seq(Partition) /\ OnlineIn(map) \subseteq Nat \ {StubBrokerID}
  BY <1>5 DEF OfKafka
<1>7. FromMap(mapped, map, meta)
  BY <1>2, <1>6, MappedBrokers
<1> HIDE DEF mapped
<1>8. /\ mapped \in [DOMAIN mapped -> BrokerRecord] /\ DOMAIN mapped = OnlineIn(map) \cup {StubBrokerID}
      /\ mapped[StubBrokerID] = StubBroker /\ Real(mapped) = OnlineIn(map)
      /\ \A id \in OnlineIn(map) : ~mapped[id].replace /\ ~mapped[id].new
  BY <1>6, <1>7 DEF FromMap, Real
<1>9. IsFiniteSet(OnlineIn(map)) /\ OnlineIn(map) \subseteq Nat
  BY <1>6, FiniteMap, FS_Subset DEF OnlineIn
<1>10. IsFiniteSet(DOMAIN mapped) /\ DOMAIN mapped \subseteq Nat
  <2>1. IsFiniteSet(OnlineIn(map) \cup {StubBrokerID})
    BY <1>9, FS_AddElement
  <2> QED BY <1>8, <1>9, <2>1 DEF StubBrokerID
<1>11. Updated(bmOrig', mapped, params.brokers, meta)
  BY <1>1, <1>2, <1>8, UpdatedBrokers
<1>12. IsFiniteSet(DOMAIN mapped \cup A)
  <2>1. DOMAIN meta \subseteq Int /\ DOMAIN mapped \subseteq Int
    BY <1>2, <1>10
  <2> QED BY <1>2, <1>3, <1>10, <2>1, FiniteUpdate
<1>13. A \subseteq Nat /\ \A id \in A : id \notin DOMAIN mapped
  BY <1>2, <1>3, <1>10 DEF Added, Provided
<1>14. /\ bmOrig' \in [DOMAIN mapped \cup A -> BrokerRecord] /\ DOMAIN bmOrig' = DOMAIN mapped \cup A
       /\ bmOrig'[StubBrokerID] = StubBroker
  BY <1>8, <1>11 DEF Updated
<1>15. Real(bmOrig') = OnlineIn(map) \cup A
  BY <1>6, <1>8, <1>13, <1>14 DEF Real
<1>16. StubBroker.replace
  BY DEF StubBroker, NewBroker
<1>17. \A id \in OnlineIn(map) :
         /\ bmOrig'[id].replace <=> id \in Absent(mapped, meta) \/ id \notin P
         /\ ~bmOrig'[id].new
  BY <1>8, <1>11 DEF Updated
<1>18. \A id \in A : ~bmOrig'[id].replace
  BY <1>11 DEF Updated
<1> DEFINE W == Provided([id \in OnlineIn(map) |-> 0], params.brokers, meta)
                  \cap (IF DOMAIN meta = {} THEN Nat ELSE DOMAIN meta)
<1>19. Wanted' = W
  BY <1>1 DEF Wanted, meta
<1>20. \A id \in OnlineIn(map) : id \in W <=> ~(id \in Absent(mapped, meta) \/ id \notin P)
  BY <1>6, <1>8, <1>9 DEF Provided, Absent
<1>21. A \subseteq W
  BY <1>8, <1>13 DEF Added, Provided
<1>22. /\ NotReplaced(bmOrig') \subseteq W
       /\ OnlineIn(map) \cap W \subseteq NotReplaced(bmOrig')
  <2> HIDE DEF W, P, A
  <2> QED BY <1>15, <1>17, <1>18, <1>20, <1>21 DEF NotReplaced
<1>23. \A id \in Real(bmOrig') : bmOrig'[id].new => ~bmOrig'[id].replace
  BY <1>15, <1>17, <1>18
<1>24. Cluster'
  <2> HIDE DEF W, P, A
  <2>1. IsFiniteSet(DOMAIN bmOrig') /\ DOMAIN bmOrig' \subseteq Nat
    BY <1>10, <1>12, <1>13, <1>14
  <2>2. OnlineIn(original') \subseteq Real(bmOrig') /\ StubBrokerID \in DOMAIN bmOrig'
    BY <1>1, <1>8, <1>14, <1>15
  <2>3. bmOrig' \in [DOMAIN bmOrig' -> BrokerRecord]
    BY <1>14
  <2> QED BY <1>1, <1>5, <1>14, <1>16, <1>19, <1>22, <1>23, <2>1, <2>2, <2>3 DEF Cluster
<1>25. SameBrokers'
  BY <1>1, <1>14 DEF SameBrokers
<1> QED BY <1>24, <1>25

(* The brokers b, with other counts and storage.                           *)
SameFlags(c, b) ==
    /\ c \in [DOMAIN b -> BrokerRecord]
    /\ \A id \in DOMAIN b :
         /\ c[id].rack = b[id].rack /\ c[id].replace = b[id].replace
         /\ c[id].missing = b[id].missing /\ c[id].new = b[id].new

(* Counting a replica changes neither flags nor storage.                   *)
LEMMA CountedUse ==
  ASSUME NEW b, b \in [DOMAIN b -> BrokerRecord], NEW x \in DOMAIN b
  PROVE  LET c == [b EXCEPT ![x].used = @ + 1]
         IN  SameFlags(c, b) /\ \A id \in DOMAIN b : c[id].free = b[id].free
<1> DEFINE y == [b[x] EXCEPT !.used = @ + 1]
           c == [b EXCEPT ![x].used = @ + 1]
<1>1. b[x] \in BrokerRecord
  OBVIOUS
<1>2. /\ y \in BrokerRecord /\ y.rack = b[x].rack /\ y.replace = b[x].replace
      /\ y.missing = b[x].missing /\ y.new = b[x].new /\ y.free = b[x].free
  BY <1>1 DEF BrokerRecord
<1>3. c = [id \in DOMAIN b |-> IF id = x THEN y ELSE b[id]]
  OBVIOUS
<1> HIDE DEF c, y
<1>4. c \in [DOMAIN b -> BrokerRecord] /\ c[x] = y /\ \A id \in DOMAIN b \ {x} : c[id] = b[id]
  BY <1>2, <1>3
<1>5. SameFlags(c, b) /\ \A id \in DOMAIN b : c[id].free = b[id].free
  BY <1>2, <1>4 DEF SameFlags
<1> QED BY <1>5 DEF c

(* A placement takes the partition's size from the broker that is chosen   *)
(* and from no other.                                                      *)
LEMMA TakenStorage ==
  ASSUME NEW b, b \in [DOMAIN b -> BrokerRecord], NEW x \in DOMAIN b, NEW request \in Int
  PROVE  LET c == Taken(b, x, request)
         IN  /\ SameFlags(c, b) /\ c[x].free = b[x].free - request
             /\ \A id \in DOMAIN b \ {x} : c[id].free = b[id].free
<1> DEFINE y == [b[x] EXCEPT !.used = @ + 1, !.free = @ - request]
           c == Taken(b, x, request)
<1>1. b[x] \in BrokerRecord
  OBVIOUS
<1>2. /\ y \in BrokerRecord /\ y.rack = b[x].rack /\ y.replace = b[x].replace
      /\ y.missing = b[x].missing /\ y.new = b[x].new /\ y.free = b[x].free - request
  <2> DEFINE v == b[x].free - request
             z == [b[x] EXCEPT !.used = @ + 1]
  <2>1. y = [z EXCEPT !.free = v]
    BY <1>1 DEF BrokerRecord
  <2>4. /\ z \in BrokerRecord /\ z.rack = b[x].rack /\ z.replace = b[x].replace
        /\ z.missing = b[x].missing /\ z.new = b[x].new
    BY <1>1 DEF BrokerRecord
  <2>2. v \in Int
    BY <1>1 DEF BrokerRecord
  <2> HIDE DEF v, y, z
  <2>3. /\ y \in BrokerRecord /\ y.rack = z.rack /\ y.replace = z.replace
        /\ y.missing = z.missing /\ y.new = z.new /\ y.free = v
    BY <2>1, <2>2, <2>4 DEF BrokerRecord
  <2> QED BY <2>3, <2>4 DEF v
<1>3. c = [id \in DOMAIN b |-> IF id = x THEN y ELSE b[id]]
  BY DEF Taken
<1> HIDE DEF c, y
<1>4. c \in [DOMAIN b -> BrokerRecord] /\ c[x] = y /\ \A id \in DOMAIN b \ {x} : c[id] = b[id]
  BY <1>2, <1>3
<1>5. /\ SameFlags(c, b) /\ c[x].free = b[x].free - request
      /\ \A id \in DOMAIN b \ {x} : c[id].free = b[id].free
  BY <1>2, <1>4 DEF SameFlags
<1> QED BY <1>5 DEF c

(* SubStorage gives the brokers the storage of the replicas they hold.     *)
LEMMA LiftedStorage ==
  ASSUME NEW b, b \in [DOMAIN b -> BrokerRecord], NEW map \in Seq(Partition), NEW bs
  PROVE  LET c == SubStorage(b, map, bs)
         IN  /\ SameFlags(c, b)
             /\ \A id \in DOMAIN b :
                  c[id].free = IF id \in bs THEN b[id].free + SizeOn(map, id) ELSE b[id].free
<1> DEFINE y(id) == [b[id] EXCEPT !.free = @ + SizeOn(map, id)]
           c == SubStorage(b, map, bs)
<1>1. ASSUME NEW id \in DOMAIN b
      PROVE  /\ y(id) \in BrokerRecord /\ y(id).rack = b[id].rack /\ y(id).replace = b[id].replace
             /\ y(id).missing = b[id].missing /\ y(id).new = b[id].new
             /\ y(id).free = b[id].free + SizeOn(map, id)
  <2>1. b[id] \in BrokerRecord /\ SizeOn(map, id) \in Nat
    BY SizeOnNat
  <2> DEFINE v == b[id].free + SizeOn(map, id)
  <2>2. y(id) = [b[id] EXCEPT !.free = v] /\ v \in Int
    BY <2>1 DEF BrokerRecord
  <2> HIDE DEF v, y
  <2>3. /\ y(id) \in BrokerRecord /\ y(id).rack = b[id].rack /\ y(id).replace = b[id].replace
        /\ y(id).missing = b[id].missing /\ y(id).new = b[id].new /\ y(id).free = v
    BY <2>1, <2>2 DEF BrokerRecord
  <2> QED BY <2>3 DEF v
<1>2. c = [id \in DOMAIN b |-> IF id \notin bs THEN b[id] ELSE y(id)]
  BY DEF SubStorage
<1> HIDE DEF c, y
<1>3. /\ c \in [DOMAIN b -> BrokerRecord]
      /\ \A id \in DOMAIN b : c[id] = IF id \notin bs THEN b[id] ELSE y(id)
  BY <1>1, <1>2
<1>4. SameFlags(c, b)
  BY <1>1, <1>3 DEF SameFlags
<1>5. \A id \in DOMAIN b :
        c[id].free = IF id \in bs THEN b[id].free + SizeOn(map, id) ELSE b[id].free
  BY <1>1, <1>3
<1> QED BY <1>4, <1>5 DEF c

-----------------------------------------------------------------------------
(* Sorting by name restores the order of the map that was read.            *)
LEMMA NamesInOrder ==
  ASSUME NEW m \in Seq(Partition), InNameOrder(m),
         NEW t \in Seq(Partition), DOMAIN t = DOMAIN m,
         NEW f \in Bijection(DOMAIN m, DOMAIN m),
         \A i \in DOMAIN m : SamePartition(t[i], m[f[i]]),
         \A i, j \in DOMAIN m : i < j => ~ByName(t[j], t[i])
  PROVE  \A i \in DOMAIN m : SamePartition(t[i], m[i])
<1> DEFINE Bad == {i \in DOMAIN m : f[i] # i}
<1>1. /\ f \in [DOMAIN m -> DOMAIN m]
      /\ \A i, j \in DOMAIN m : f[i] = f[j] => i = j
      /\ \A j \in DOMAIN m : \E i \in DOMAIN m : f[i] = j
  BY DEF Bijection, Injection, Surjection, IsInjective
<1>2. DOMAIN m \subseteq Nat
  OBVIOUS
<1>3. Bad = {}
  <2> SUFFICES ASSUME Bad # {} PROVE FALSE
    OBVIOUS
  <2> DEFINE b == Min(Bad)
  <2>1. b \in Bad /\ \A y \in Bad : b <= y
    <3>1. Bad \in SUBSET Nat
      BY <1>2
    <3> HIDE DEF Bad
    <3> QED BY <3>1, MinNat
  <2> HIDE DEF b
  <2>2. b \in DOMAIN m /\ f[b] # b /\ \A j \in DOMAIN m : j < b => f[j] = j
    BY <1>2, <2>1
  <2>3. f[b] \in DOMAIN m /\ b < f[b]
    BY <1>1, <1>2, <2>2
  <2>4. PICK k \in DOMAIN m : f[k] = b
    BY <1>1, <2>2
  <2>5. b < k
    BY <1>2, <2>2, <2>4
  <2>6. ByName(m[b], m[f[b]])
    BY <2>2, <2>3 DEF InNameOrder
  <2>7. SamePartition(t[k], m[b]) /\ SamePartition(t[b], m[f[b]])
    BY <2>2, <2>4
  <2>8. ByName(t[k], t[b])
    BY <2>6, <2>7 DEF ByName, SamePartition
  <2> QED BY <2>2, <2>4, <2>5, <2>8
<1> QED BY <1>3

-----------------------------------------------------------------------------
(* Types.                                                                  *)

(* What the placement starts from.                                         *)
Basis == IF params.forceRebuild THEN Strip(Resized) ELSE Resized

Untouched ==
    /\ newMap = <<>> /\ slot = [n |-> 1, i |-> 1] /\ skipped = 0 /\ warns = {}
    /\ mid = <<>> /\ left = {} /\ outputs = <<>> /\ written = <<>>

Placing ==
    /\ DOMAIN newMap = DOMAIN pm /\ \A n \in DOMAIN pm : SamePartition(newMap[n], pm[n])
    /\ ByPartition \/ slot.n = 1 \/ slot.n <= Len(pm)

(* The map that is built has the partitions of the original at their       *)
(* places.                                                                 *)
Built ==
    /\ DOMAIN newMap = DOMAIN original
    /\ \A n \in DOMAIN original : SamePartition(newMap[n], original[n])

Prepared == pc \in {"place", "optimize", "conclude", "chunk", "write", "done"}

TypeInv ==
    /\ pc \in {"validate", "read", "affinities", "prepare", "place", "optimize", "conclude",
               "chunk", "write", "done", "exit"}
    /\ params \in ParamSets
    /\ original \in Seq(Partition) /\ pm \in Seq(Partition)
    /\ newMap \in Seq(Partition) /\ mid \in Seq(Partition)
    /\ bm \in [DOMAIN bm -> BrokerRecord]
    /\ slot \in [n : Nat \ {0}, i : Nat \ {0}] /\ skipped \in Nat
    /\ pc \in {"validate", "read"} => pm \in InputMaps /\ original = pm /\ affinities = <<>>
    /\ pc \in {"validate", "read", "affinities", "prepare"} => Untouched
    /\ pc \in {"affinities", "prepare"} => pm = original /\ bm = bmOrig
    /\ pc \notin {"validate", "read", "exit"} => Cluster /\ SameBrokers /\ Substitutes
    /\ Prepared => Arranged(pm, Basis)
    /\ pc = "place" => Placing
    /\ pc \in {"optimize", "conclude"} => Built
    /\ pc = "optimize" => newMap = <<>> \/ slot.n <= Len(newMap)
    /\ pc = "chunk" => DOMAIN mid = DOMAIN newMap

(* Steps that leave the inputs alone keep what is known of the cluster.    *)
LEMMA ClusterFrame ==
  ASSUME Cluster, UNCHANGED <<params, original, bmOrig>>
  PROVE  Cluster' /\ Basis' = Basis
<1>1. Wanted' = Wanted
  BY DEF Wanted, meta
<1>2. Cluster'
  BY <1>1 DEF Cluster
<1>3. Basis' = Basis
  BY DEF Basis, Resized
<1> QED BY <1>2, <1>3

(* Steps that keep the brokers' flags keep what is known of the brokers.   *)
LEMMA BrokersFrame ==
  ASSUME SameBrokers, Substitutes, SameFlags(bm', bm), UNCHANGED <<bmOrig, affinities, fresh>>
  PROVE  SameBrokers' /\ Substitutes'
BY DEF SameBrokers, SameFlags, Substitutes, Fresh

(* Steps that leave the broker map alone keep the flags.                   *)
LEMMA UnchangedFlags ==
  ASSUME SameBrokers, UNCHANGED bm
  PROVE  SameFlags(bm', bm)
BY DEF SameBrokers, SameFlags

(* The map that is placed has the partitions of the original.              *)
LEMMA BasisMap ==
  ASSUME params \in ParamSets, Cluster
  PROVE  Derived(Resized, original) /\ Derived(Basis, original)
<1>1. original \in Seq(Partition) /\ params.replication \in Nat
  BY InputAssumption DEF Cluster, OfKafka
<1>2. Derived(Resized, original)
  BY <1>1, ResizedMap DEF Resized
<1>3. Derived(Strip(Resized), original)
  BY <1>2, StrippedMap
<1> QED BY <1>2, <1>3 DEF Basis

(* The partitions of the prepared map and their brokers.                   *)
LEMMA PreparedMap ==
  ASSUME params \in ParamSets, Cluster, Arranged(pm, Basis)
  PROVE  /\ pm \in Seq(Partition) /\ DOMAIN pm = DOMAIN original /\ Len(pm) = Len(original)
         /\ \E f \in Bijection(DOMAIN original, DOMAIN original) :
              \A n \in DOMAIN pm : /\ pm[n] = Basis[f[n]]
                                   /\ SamePartition(pm[n], original[f[n]])
                                   /\ StandsFor(pm[n].replicas, original[f[n]].replicas)
         /\ OnlineIn(pm) \subseteq DOMAIN bmOrig
<1>1. Derived(Basis, original)
  BY BasisMap
<1>2. Basis \in Seq(Partition) /\ DOMAIN Basis = DOMAIN original /\ Len(Basis) = Len(original)
  BY <1>1 DEF Derived
<1>3. pm \in Seq(Partition) /\ DOMAIN pm = DOMAIN original /\ Len(pm) = Len(original)
  BY <1>2, ArrangedSequence
<1>4. PICK f \in Bijection(DOMAIN original, DOMAIN original) :
         pm = [i \in DOMAIN original |-> Basis[f[i]]]
  BY <1>2 DEF Arranged
<1>5. f \in [DOMAIN original -> DOMAIN original]
  BY DEF Bijection, Injection
<1>6. \A n \in DOMAIN pm : /\ pm[n] = Basis[f[n]]
                           /\ SamePartition(pm[n], original[f[n]])
                           /\ StandsFor(pm[n].replicas, original[f[n]].replicas)
  BY <1>1, <1>3, <1>4, <1>5 DEF Derived
<1>7. OnlineIn(pm) \subseteq DOMAIN bmOrig
  <2> SUFFICES ASSUME NEW n \in DOMAIN pm, NEW id \in Range(pm[n].replicas), id # Offline
               PROVE  id \in DOMAIN bmOrig
    BY DEF OnlineIn, BrokersIn
  <2>1. id = StubBrokerID \/ id \in Range(original[f[n]].replicas)
    BY <1>6 DEF StandsFor, Range
  <2>2. f[n] \in DOMAIN original
    BY <1>3, <1>5
  <2> QED BY <2>1, <2>2 DEF Cluster, OnlineIn, BrokersIn, Real
<1> QED BY <1>3, <1>4, <1>6, <1>7

(* The initial states are well typed.                                      *)
LEMMA TypeInitial ==
  ASSUME Init
  PROVE  TypeInv
<1>1. original \in Seq(Partition)
  BY InputAssumption DEF Init, Partition
<1>2. <<>> \in Seq(Partition) /\ <<>> \in [DOMAIN <<>> -> BrokerRecord]
  OBVIOUS
<1>3. slot \in [n : Nat \ {0}, i : Nat \ {0}]
  BY DEF Init
<1> QED BY <1>1, <1>2, <1>3 DEF Init, TypeInv, Untouched, Prepared

(* Validate and ReadFails preserve the types.                              *)
LEMMA TypeEarly ==
  ASSUME TypeInv, Validate \/ ReadFails
  PROVE  TypeInv'
<1>1. /\ UNCHANGED <<params, original, pm, bm, bmOrig, affinities, fresh, newMap, slot, skipped, warns,
                     mid, left, outputs, written>>
      /\ pc \in {"validate", "read"} /\ pc' \in {"read", "exit"}
  BY DEF Validate, ReadFails, brokers, placement, output
<1>2. pc' = "read" => Untouched' /\ (pm \in InputMaps /\ original = pm /\ affinities = <<>>)'
  BY <1>1 DEF TypeInv, Untouched
<1> QED BY <1>1, <1>2 DEF TypeInv, Prepared

(* Read preserves the types.                                               *)
LEMMA TypeRead ==
  ASSUME TypeInv, Read
  PROVE  TypeInv'
<1>1. /\ pc = "read" /\ pc' \in {"affinities", "prepare"} /\ bm' = bmOrig' /\ pm' = original'
      /\ fresh' = {id \in Real(bm') : bm'[id].new}
      /\ UNCHANGED <<params, affinities, newMap, slot, skipped, warns, mid, left, outputs, written>>
  BY Zenon DEF Read, placement, output
<1>2. pm \in InputMaps /\ affinities = <<>> /\ Untouched
  BY <1>1 DEF TypeInv
<1>3. Cluster' /\ SameBrokers'
  BY <1>2, ReadCluster DEF TypeInv
<1>4. Substitutes'
  BY <1>1, <1>2 DEF Substitutes, Fresh
<1>5. original' \in Seq(Partition) /\ bm' \in [DOMAIN bm' -> BrokerRecord]
  BY <1>1, <1>3 DEF Cluster, OfKafka
<1>6. Untouched'
  BY <1>1, <1>2 DEF Untouched
<1> QED BY <1>1, <1>3, <1>4, <1>5, <1>6 DEF TypeInv, Prepared

(* Substitute preserves the types.                                         *)
LEMMA TypeSubstitute ==
  ASSUME TypeInv, Substitute
  PROVE  TypeInv'
<1>1. /\ pc = "affinities"
      /\ UNCHANGED <<params, original, pm, bm, bmOrig, newMap, slot, skipped, warns,
                     mid, left, outputs, written>>
  BY DEF Substitute, brokers, placement, output
<1>2. \/ pc' = "exit"
      \/ /\ pc' = pc
         /\ \E b : /\ Candidates(b) # {}
                   /\ affinities' = [id \in DOMAIN affinities \cup {b} |->
                                       IF id = b THEN Min(Candidates(b)) ELSE affinities[id]]
                   /\ fresh' = fresh \ {Min(Candidates(b))}
  BY Zenon DEF Substitute
<1>3. Cluster /\ SameBrokers /\ Substitutes /\ Untouched /\ pm = original /\ bm = bmOrig
  BY <1>1 DEF TypeInv
<1>4. Cluster' /\ SameBrokers' /\ Untouched'
  BY <1>1, <1>3, ClusterFrame DEF SameBrokers, Untouched
<1>5. pc' = pc => Substitutes'
  <2> SUFFICES ASSUME NEW b, Candidates(b) # {},
                      affinities' = [id \in DOMAIN affinities \cup {b} |->
                                       IF id = b THEN Min(Candidates(b)) ELSE affinities[id]],
                      fresh' = fresh \ {Min(Candidates(b))}
               PROVE  Substitutes'
    BY <1>1, <1>2
  <2>1. Candidates(b) \subseteq fresh /\ fresh \subseteq Fresh /\ Fresh \subseteq Nat
    BY <1>3 DEF Candidates, Substitutes, Fresh, Cluster, Real
  <2>2. Min(Candidates(b)) \in Fresh
    <3>1. Candidates(b) \in SUBSET Nat
      BY <2>1
    <3> HIDE DEF Candidates
    <3> QED BY <2>1, <3>1, MinNat
  <2> DEFINE x == Min(Candidates(b))
             a == affinities
  <2> HIDE DEF x
  <2>3. affinities' \in [DOMAIN affinities \cup {b} -> Fresh] /\ fresh' \subseteq Fresh
    <3>1. x \in Fresh /\ a \in [DOMAIN a -> Fresh]
      BY <1>3, <2>2 DEF Substitutes, x
    <3>2. affinities' = [id \in DOMAIN a \cup {b} |-> IF id = b THEN x ELSE a[id]]
      BY DEF x
    <3> HIDE DEF a
    <3>3. affinities' \in [DOMAIN a \cup {b} -> Fresh]
      BY <3>1, <3>2
    <3> QED BY <2>1, <3>3 DEF a
  <2>4. Fresh' = Fresh
    BY <1>1 DEF Fresh
  <2>5. affinities' \in [DOMAIN affinities' -> Fresh]
    BY <2>3
  <2> QED BY <2>3, <2>4, <2>5 DEF Substitutes
<1> QED BY <1>1, <1>2, <1>3, <1>4, <1>5 DEF TypeInv, Prepared

(* Substituted preserves the types.                                        *)
LEMMA TypeSubstituted ==
  ASSUME TypeInv, Substituted
  PROVE  TypeInv'
<1>1. /\ UNCHANGED <<params, original, pm, bm, bmOrig, affinities, fresh, newMap, slot, skipped, warns,
                     mid, left, outputs, written>>
      /\ pc = "affinities" /\ pc' = "prepare"
  BY DEF Substituted, brokers, placement, output
<1>2. Cluster /\ SameBrokers /\ Substitutes /\ Untouched /\ pm = original /\ bm = bmOrig
  BY <1>1 DEF TypeInv
<1>3. Cluster' /\ SameBrokers' /\ Substitutes' /\ Untouched'
  BY <1>1, <1>2, ClusterFrame DEF SameBrokers, Substitutes, Fresh, Untouched
<1> QED BY <1>1, <1>2, <1>3 DEF TypeInv, Prepared

(* Prepare preserves the types.                                            *)
LEMMA TypePrepare ==
  ASSUME TypeInv, Prepare
  PROVE  TypeInv'
<1> DEFINE lifted == IF params.forceRebuild THEN Real(bm) ELSE Real(bm) \ NotReplaced(bm)
           order(p, q) == IF Storage THEN BySize(p, q) ELSE ByName(p, q)
<1>1. /\ pc = "prepare"
      /\ UNCHANGED <<params, original, bmOrig, affinities, fresh, slot, skipped, warns,
                     mid, left, outputs, written>>
  BY DEF Prepare, output
<1>2. Cluster /\ SameBrokers /\ Substitutes /\ Untouched /\ pm = original
  BY <1>1 DEF TypeInv
<1>3. Cluster' /\ Basis' = Basis
  BY <1>1, <1>2, ClusterFrame
<1>4. \/ pc' = "exit" /\ UNCHANGED <<pm, bm, newMap>>
      \/ /\ pc' = "place"
         /\ bm' = IF Storage THEN SubStorage(bm, updateReplicationFactor, lifted) ELSE bm
         /\ \E f \in Bijection(DOMAIN Basis, DOMAIN Basis) : pm' = [i \in DOMAIN Basis |-> Basis[f[i]]]
         /\ newMap' = [n \in DOMAIN pm' |-> WithReplicas(pm'[n], <<>>)]
  <2>1. updateReplicationFactor = Resized
    BY <1>2 DEF updateReplicationFactor, Resized
  <2>2. (IF params.forceRebuild THEN Strip(updateReplicationFactor) ELSE updateReplicationFactor) = Basis
    BY <2>1 DEF Basis
  <2>3. \/ pc' = "exit" /\ UNCHANGED <<pm, bm, newMap>>
        \/ /\ pc' = "place"
           /\ bm' = IF Storage THEN SubStorage(bm, updateReplicationFactor, lifted) ELSE bm
           /\ pm' \in Sortings(Basis, order)
           /\ newMap' = [n \in DOMAIN pm' |-> WithReplicas(pm'[n], <<>>)]
    BY <2>2, Zenon DEF Prepare
  <2>4. pm' \in Sortings(Basis, order) =>
          \E f \in Bijection(DOMAIN Basis, DOMAIN Basis) : pm' = [i \in DOMAIN Basis |-> Basis[f[i]]]
    BY Zenon DEF Sortings
  <2> QED BY <2>3, <2>4
<1>5. CASE pc' = "exit" /\ UNCHANGED <<pm, bm, newMap>>
  BY <1>1, <1>5 DEF TypeInv, Prepared
<1>6. CASE /\ pc' = "place"
           /\ bm' = IF Storage THEN SubStorage(bm, updateReplicationFactor, lifted) ELSE bm
           /\ \E f \in Bijection(DOMAIN Basis, DOMAIN Basis) : pm' = [i \in DOMAIN Basis |-> Basis[f[i]]]
           /\ newMap' = [n \in DOMAIN pm' |-> WithReplicas(pm'[n], <<>>)]
  <2>1. Arranged(pm', Basis)
    BY <1>6 DEF Arranged
  <2>2. Basis \in Seq(Partition) /\ Resized \in Seq(Partition)
    BY <1>2, BasisMap DEF Derived, TypeInv
  <2>3. pm' \in Seq(Partition)
    BY <2>1, <2>2, ArrangedSequence
  <2>4. /\ newMap' \in Seq(Partition) /\ DOMAIN newMap' = DOMAIN pm'
        /\ \A n \in DOMAIN pm' : SamePartition(newMap'[n], pm'[n])
    <3> DEFINE f == [n \in DOMAIN pm' |-> <<>>]
    <3>1. /\ newMap' = [n \in DOMAIN pm' |-> WithReplicas(pm'[n], f[n])]
          /\ \A n \in DOMAIN pm' : f[n] \in Seq(Int)
      BY <1>6
    <3> HIDE DEF f
    <3> QED BY <2>3, <3>1, MapWithReplicas
  <2>5. SameFlags(bm', bm)
    <3>1. updateReplicationFactor \in Seq(Partition)
      BY <1>2, <2>2 DEF updateReplicationFactor, Resized
    <3>2. bm \in [DOMAIN bm -> BrokerRecord]
      BY DEF TypeInv
    <3> HIDE DEF lifted
    <3>3. SameFlags(SubStorage(bm, updateReplicationFactor, lifted), bm)
      BY <3>1, <3>2, LiftedStorage
    <3> QED BY <1>2, <1>6, <3>3, UnchangedFlags
  <2>6. SameBrokers' /\ Substitutes'
    BY <1>1, <1>2, <2>5, BrokersFrame
  <2>7. bm' \in [DOMAIN bm' -> BrokerRecord]
    BY <2>6 DEF SameBrokers
  <2>8. Placing'
    BY <1>1, <1>2, <2>4 DEF Placing, Untouched
  <2> QED BY <1>1, <1>3, <1>6, <2>1, <2>3, <2>4, <2>6, <2>7, <2>8 DEF TypeInv, Prepared
<1> QED BY <1>4, <1>5, <1>6

-----------------------------------------------------------------------------
(* The visits of the placement.                                            *)

Appended(id) ==
    /\ newMap' \in Seq(Partition) /\ DOMAIN newMap' = DOMAIN newMap
    /\ \A n \in DOMAIN newMap : n # slot.n => newMap'[n] = newMap[n]
    /\ SamePartition(newMap'[slot.n], newMap[slot.n])
    /\ newMap'[slot.n].replicas = Append(newMap[slot.n].replicas, id)

(* AppendReplica adds one replica to one partition.                        *)
LEMMA AppendedMap ==
  ASSUME newMap \in Seq(Partition), slot.n \in DOMAIN newMap, NEW id \in Nat, AppendReplica(id)
  PROVE  Appended(id)
<1> DEFINE k == slot.n
           rs == Append(newMap[k].replicas, id)
           p == [newMap[k] EXCEPT !.replicas = rs]
<1>1. newMap[k] \in Partition
  OBVIOUS
<1>2. newMap[k].replicas \in Seq(Int)
  BY <1>1 DEF Partition
<1>3. rs \in Seq(Int)
  BY <1>2
<1> HIDE DEF rs
<1>4. p \in Partition /\ p.replicas = rs /\ SamePartition(p, newMap[k])
  BY <1>1, <1>3 DEF Partition, SamePartition
<1>5. newMap' = [n \in DOMAIN newMap |-> IF n = k THEN p ELSE newMap[n]]
  BY DEF AppendReplica, rs
<1> HIDE DEF p
<1>6. DOMAIN newMap = 1 .. Len(newMap) /\ Len(newMap) \in Nat /\ \A n \in DOMAIN newMap : newMap[n] \in Partition
  OBVIOUS
<1>7. newMap' \in [1 .. Len(newMap) -> Partition]
  BY <1>4, <1>5, <1>6
<1>8. newMap' \in Seq(Partition) /\ DOMAIN newMap' = DOMAIN newMap
  BY <1>6, <1>7
<1> QED BY <1>4, <1>5, <1>8 DEF Appended, rs

(* Looking an affinity up changes no storage.                              *)
LEMMA LookedUpBrokers ==
  ASSUME Cluster, SameBrokers, Substitutes
  PROVE  SameFlags(LookedUp, bm) /\ \A id \in DOMAIN bm : LookedUp[id].free = bm[id].free
<1>1. bm \in [DOMAIN bm -> BrokerRecord] /\ DOMAIN bm = DOMAIN bmOrig
  BY DEF SameBrokers
<1>2. CASE ~HasAffinity
  <2>1. LookedUp = bm
    BY <1>2 DEF LookedUp
  <2> QED BY <1>1, <2>1 DEF SameFlags
<1>3. CASE HasAffinity
  <2> DEFINE x == affinities[bid]
  <2>1. x \in DOMAIN bm
    BY <1>1, <1>3 DEF HasAffinity, Substitutes, Fresh, Real
  <2>2. LookedUp = [bm EXCEPT ![x].used = @ + 1]
    BY <1>3 DEF LookedUp
  <2> HIDE DEF x
  <2> QED BY <1>1, <2>1, <2>2, CountedUse
<1> QED BY <1>2, <1>3

Passes(id) ==
    /\ id \in NotReplaced(bmOrig)
    /\ passesWithParams(Constraints, bm, id, params.minRackIds, Request)

(* A broker that is eligible passes the constraints and is provided.       *)
LEMMA EligibleBroker ==
  ASSUME Cluster, SameBrokers, Substitutes, NEW id \in Eligible
  PROVE  Passes(id)
<1>1. /\ DOMAIN bm = DOMAIN bmOrig /\ NotReplaced(bm) = NotReplaced(bmOrig)
      /\ NotReplaced(bmOrig) \subseteq DOMAIN bm
  BY DEF SameBrokers, NotReplaced, Real
<1>2. \A x \in DOMAIN bm : LookedUp[x].rack = bm[x].rack /\ LookedUp[x].free = bm[x].free
  BY LookedUpBrokers DEF SameFlags
<1>3. /\ id \in NotReplaced(bmOrig)
      /\ passesWithParams(Constraints, LookedUp, id, params.minRackIds, Request)
  <2>1. CASE HasAffinity /\ ~Storage
    <3>1. id = affinities[bid] /\ passesWithParams(Constraints, LookedUp, id, params.minRackIds, Request)
      BY <2>1 DEF Eligible
    <3>2. id \in Fresh
      BY <2>1, <3>1 DEF HasAffinity, Substitutes
    <3> QED BY <3>1, <3>2 DEF Fresh, Cluster, NotReplaced
  <2>2. CASE ~(HasAffinity /\ ~Storage)
    <3> DEFINE list == NotReplaced(bm)
               pass == {x \in list : passesWithParams(Constraints, LookedUp, x, params.minRackIds, Request)}
    <3>1. id \in SelectBroker(Constraints, LookedUp, list, params.placement, params.minRackIds, Request)
      BY <2>2 DEF Eligible
    <3>2. id \in pass
      BY <3>1 DEF SelectBroker, SortPseudoShuffle, First
    <3> QED BY <1>1, <3>2
  <2> QED BY <2>1, <2>2
<1>4. LookedUp[id].rack = bm[id].rack /\ LookedUp[id].free = bm[id].free
  BY <1>1, <1>2, <1>3
<1> QED BY <1>3, <1>4 DEF Passes, passesWithParams

(* The storage a replica asks for is a natural number.                     *)
LEMMA RequestNat ==
  ASSUME params \in ParamSets
  PROVE  Request \in Nat
<1>1. params.sizeFactor \in Nat
  BY InputAssumption
<1>2. Size(pm[slot.n]) \in Nat
  BY SizeNat
<1>3. \A x, y \in Nat : x * y \in Nat
  OBVIOUS
<1> QED BY <1>1, <1>2, <1>3 DEF Request

(* The four kinds of visits.                                               *)
Visiting ==
    /\ pc = "place" /\ ~Placed /\ slot.n \in DOMAIN pm /\ slot' = NextSlot
    /\ UNCHANGED <<pc, params, original, pm, bmOrig, status, affinities, fresh,
                   mid, left, outputs, written>>
Skipped == ~HasSlot /\ skipped' = skipped + 1 /\ UNCHANGED <<bm, newMap, warns>>
Kept == /\ HasSlot /\ bid \in NotReplaced(bmOrig) /\ Appended(bid)
        /\ UNCHANGED <<bm, skipped, warns>>
Replaced(id) ==
    /\ HasSlot /\ bmOrig[bid].replace /\ Passes(id) /\ Appended(id)
    /\ SameFlags(bm', bm) /\ bm'[id].free = bm[id].free - Request
    /\ \A x \in DOMAIN bm \ {id} : bm'[x].free = bm[x].free
    /\ UNCHANGED <<skipped, warns>>
LeftOut ==
    /\ HasSlot /\ bmOrig[bid].replace
    /\ SameFlags(bm', bm) /\ \A x \in DOMAIN bm : bm'[x].free = bm[x].free
    /\ "no brokers" \in warns' /\ UNCHANGED <<newMap, skipped>>

(* The replica that is visited is one of the map.                          *)
LEMMA SlotInMap ==
  ASSUME TypeInv, Visit
  PROVE  Visiting /\ Cluster /\ SameBrokers /\ Substitutes /\ Placing
<1>1. /\ pc = "place" /\ ~Placed /\ slot' = NextSlot
      /\ UNCHANGED <<pc, params, original, pm, bmOrig, status, affinities, fresh,
                     mid, left, outputs, written>>
  BY DEF Visit, output
<1>2. Cluster /\ SameBrokers /\ Substitutes /\ Placing
  BY <1>1 DEF TypeInv
<1>3. slot.n \in Nat \ {0} /\ skipped \in Nat /\ pm \in Seq(Partition)
  BY DEF TypeInv
<1>4. slot.n <= Len(pm)
  BY <1>1, <1>2, <1>3 DEF Placed, Placing
<1>5. slot.n \in DOMAIN pm
  BY <1>3, <1>4
<1> QED BY <1>1, <1>2, <1>5 DEF Visiting

(* A visit skips, keeps, leaves out or replaces the replica.               *)
LEMMA VisitStep ==
  ASSUME TypeInv, Skip \/ Keep \/ Replace \/ LeaveOut
  PROVE  /\ Visiting /\ Cluster /\ SameBrokers /\ Substitutes /\ Placing
         /\ Skipped \/ Kept \/ LeftOut \/ \E id : Replaced(id)
<1>1. Visit
  BY DEF Skip, Keep, Replace, LeaveOut
<1>2. Visiting /\ Cluster /\ SameBrokers /\ Substitutes /\ Placing
  BY <1>1, SlotInMap
<1>3. newMap \in Seq(Partition) /\ slot.n \in DOMAIN newMap /\ params \in ParamSets
  BY <1>2 DEF TypeInv, Visiting, Placing
<1>4. ASSUME Known
      PROVE  bid \in DOMAIN bmOrig /\ bid \in Nat
  BY <1>2, <1>4 DEF Known, Found, SameBrokers, Cluster
<1>5. CASE Skip
  BY <1>2, <1>5 DEF Skip, Skipped
<1>6. CASE Keep
  <2>1. HasSlot /\ Known /\ ~bm[bid].replace /\ AppendReplica(bid) /\ UNCHANGED <<bm, skipped, warns>>
    BY <1>6 DEF Keep
  <2>2. bid \in NotReplaced(bmOrig)
    BY <1>2, <1>4, <2>1 DEF SameBrokers, Cluster, NotReplaced, Real
  <2>3. Appended(bid)
    BY <1>3, <1>4, <2>1, AppendedMap
  <2> QED BY <1>2, <2>1, <2>2, <2>3 DEF Kept
<1>7. CASE LeaveOut
  <2>1. HasSlot /\ Known /\ bm[bid].replace /\ bm' = LookedUp /\ UNCHANGED <<newMap, skipped>>
    BY <1>7 DEF LeaveOut
  <2>2. "no brokers" \in warns'
    BY <1>7 DEF LeaveOut
  <2>3. bmOrig[bid].replace
    BY <1>2, <1>4, <2>1 DEF SameBrokers
  <2>4. SameFlags(bm', bm) /\ \A x \in DOMAIN bm : bm'[x].free = bm[x].free
    BY <1>2, <2>1, LookedUpBrokers
  <2> QED BY <1>2, <2>1, <2>2, <2>3, <2>4 DEF LeftOut
<1>8. CASE Replace
  <2>1. HasSlot /\ Known /\ bm[bid].replace /\ UNCHANGED <<skipped, warns>>
    BY <1>8 DEF Replace
  <2>2. PICK id \in Eligible :
          /\ AppendReplica(id)
          /\ bm' = IF HasAffinity /\ ~Storage THEN LookedUp ELSE Taken(LookedUp, id, Request)
    BY <1>8 DEF Replace
  <2>3. bmOrig[bid].replace
    BY <1>2, <1>4, <2>1 DEF SameBrokers
  <2>4. Passes(id)
    BY <1>2, EligibleBroker
  <2>5. id \in DOMAIN bm /\ id \in Nat /\ DOMAIN bm = DOMAIN bmOrig
    BY <1>2, <2>4 DEF Passes, NotReplaced, Real, SameBrokers, Cluster
  <2>6. Appended(id)
    BY <1>3, <2>2, <2>5, AppendedMap
  <2>7. SameFlags(LookedUp, bm) /\ \A x \in DOMAIN bm : LookedUp[x].free = bm[x].free
    BY <1>2, LookedUpBrokers
  <2>8. /\ SameFlags(bm', bm) /\ bm'[id].free = bm[id].free - Request
        /\ \A x \in DOMAIN bm \ {id} : bm'[x].free = bm[x].free
    <3>1. CASE HasAffinity /\ ~Storage
      <4>1. Request = 0 /\ bm' = LookedUp
        BY <2>2, <3>1 DEF Request
      <4>2. bm[id].free \in Int
        BY <1>2, <2>5 DEF SameBrokers, BrokerRecord
      <4> QED BY <2>5, <2>7, <4>1, <4>2
    <3>2. CASE ~(HasAffinity /\ ~Storage)
      <4> DEFINE l == LookedUp
                 q == Request
      <4>1. bm' = Taken(l, id, q) /\ q \in Int
        BY <1>3, <2>2, <3>2, RequestNat
      <4>2. l \in [DOMAIN bm -> BrokerRecord] /\ DOMAIN l = DOMAIN bm
        BY <2>7 DEF SameFlags
      <4> HIDE DEF l, q
      <4>3. /\ SameFlags(bm', l) /\ bm'[id].free = l[id].free - q
            /\ \A x \in DOMAIN l \ {id} : bm'[x].free = l[x].free
        BY <2>5, <4>1, <4>2, TakenStorage
      <4>4. SameFlags(bm', bm)
        BY <2>7, <4>2, <4>3 DEF SameFlags, l
      <4> QED BY <2>5, <2>7, <4>2, <4>3, <4>4 DEF l, q
    <3> QED BY <3>1, <3>2
  <2>9. Replaced(id)
    BY <2>1, <2>3, <2>4, <2>6, <2>8 DEF Replaced
  <2> QED BY <1>2, <2>9
<1> QED BY <1>5, <1>6, <1>7, <1>8

(* Skip, Keep, Replace and LeaveOut preserve the types.                    *)
LEMMA TypeVisit ==
  ASSUME TypeInv, Skip \/ Keep \/ Replace \/ LeaveOut
  PROVE  TypeInv'
<1>1. Visiting /\ Cluster /\ SameBrokers /\ Substitutes /\ Placing
  BY VisitStep
<1>2. Skipped \/ Kept \/ LeftOut \/ \E id : Replaced(id)
  BY VisitStep
<1>3. SameFlags(bm', bm)
  BY <1>1, <1>2, UnchangedFlags DEF Skipped, Kept, LeftOut, Replaced
<1>4. Cluster' /\ Basis' = Basis /\ SameBrokers' /\ Substitutes'
  BY <1>1, <1>3, ClusterFrame, BrokersFrame DEF Visiting
<1>5. /\ newMap' \in Seq(Partition) /\ DOMAIN newMap' = DOMAIN newMap
      /\ \A n \in DOMAIN newMap : SamePartition(newMap'[n], newMap[n])
  <2>1. CASE newMap' = newMap
    BY <2>1 DEF TypeInv, SamePartition
  <2>2. ASSUME NEW id, Appended(id)
        PROVE  /\ newMap' \in Seq(Partition) /\ DOMAIN newMap' = DOMAIN newMap
               /\ \A n \in DOMAIN newMap : SamePartition(newMap'[n], newMap[n])
    BY <2>2 DEF Appended, SamePartition
  <2> QED BY <1>2, <2>1, <2>2 DEF Skipped, Kept, LeftOut, Replaced
<1>6. /\ slot \in [n : Nat \ {0}, i : Nat \ {0}] /\ pm \in Seq(Partition) /\ slot.n \in DOMAIN pm
      /\ \A n \in DOMAIN pm : pm[n].replicas \in Seq(Int)
  <2>1. slot \in [n : Nat \ {0}, i : Nat \ {0}] /\ pm \in Seq(Partition) /\ slot.n \in DOMAIN pm
    BY <1>1 DEF TypeInv, Visiting
  <2>2. \A n \in DOMAIN pm : pm[n] \in Partition
    BY <2>1
  <2> QED BY <2>1, <2>2 DEF Partition
<1>7. slot' \in [n : Nat \ {0}, i : Nat \ {0}] /\ (ByPartition \/ slot'.n = 1 \/ slot'.n <= Len(pm))
  BY <1>1, <1>6 DEF Visiting, NextSlot
<1>8. Placing'
  <2>1. ByPartition' = ByPartition
    BY <1>1 DEF Visiting, ByPartition, Storage
  <2> QED BY <1>1, <1>5, <1>7, <2>1 DEF Visiting, Placing, SamePartition
<1>9. skipped' \in Nat
  <2>1. skipped \in Nat
    BY DEF TypeInv
  <2>2. skipped' = skipped \/ skipped' = skipped + 1
    BY <1>2 DEF Skipped, Kept, LeftOut, Replaced
  <2> QED BY <2>1, <2>2
<1>10. bm' \in [DOMAIN bm' -> BrokerRecord]
  BY <1>4 DEF SameBrokers
<1> QED BY <1>1, <1>4, <1>5, <1>7, <1>8, <1>9, <1>10 DEF TypeInv, Visiting, Prepared

-----------------------------------------------------------------------------
(* The end of the placement and the optimisation of leadership.            *)

(* A shuffled set is a rearrangement.                                      *)
LEMMA ShuffledArranged ==
  ASSUME NEW s, NEW t \in Shuffles(s)
  PROVE  Arranged(t, s)
BY Zenon DEF Shuffles, Sortings, Arranged

(* The sets of m, each in some order, are those of x at other places.      *)
Reshuffled(x, m, g) ==
    /\ g \in Bijection(DOMAIN m, DOMAIN m)
    /\ x \in Seq(Partition) /\ DOMAIN x = DOMAIN m
    /\ \A i \in DOMAIN m : /\ SamePartition(x[i], m[g[i]])
                           /\ Arranged(x[i].replicas, m[g[i]].replicas)
                           /\ ByPartition \/ x[i].replicas = m[g[i]].replicas

(* The end of the placement reorders replica sets and changes nothing else *)
(* of the map.                                                             *)
LEMMA EndStep ==
  ASSUME TypeInv, EndPlacement
  PROVE  /\ pc = "place" /\ Placed /\ pc' \in {"optimize", "conclude"} /\ slot' = [n |-> 1, i |-> 1]
         /\ UNCHANGED <<params, original, pm, bm, bmOrig, status, affinities, fresh, skipped,
                        mid, left, outputs, written>>
         /\ warns \subseteq warns'
         /\ \E g : Reshuffled(newMap', newMap, g)
         /\ \A i, j \in DOMAIN newMap : i < j => ~ByName(newMap'[j], newMap'[i])
<1>1. /\ pc = "place" /\ Placed /\ pc' \in {"optimize", "conclude"} /\ slot' = [n |-> 1, i |-> 1]
      /\ UNCHANGED <<params, original, pm, bm, bmOrig, status, affinities, fresh, skipped,
                     mid, left, outputs, written>>
      /\ warns \subseteq warns'
  BY DEF EndPlacement, brokers, output
<1>2. PICK sets :
        /\ \A n \in DOMAIN newMap : IF ByPartition THEN sets[n] \in Shuffles(newMap[n].replicas)
                                    ELSE sets[n] = newMap[n].replicas
        /\ newMap' \in Sortings([n \in DOMAIN newMap |-> WithReplicas(newMap[n], sets[n])], ByName)
  BY Zenon DEF EndPlacement
<1> DEFINE x == [n \in DOMAIN newMap |-> WithReplicas(newMap[n], sets[n])]
<1>3. PICK g \in Bijection(DOMAIN x, DOMAIN x) :
        /\ newMap' = [i \in DOMAIN x |-> x[g[i]]]
        /\ \A i, j \in DOMAIN x : i < j => ~ByName(x[g[j]], x[g[i]])
  BY <1>2, Zenon DEF Sortings
<1>4. newMap \in Seq(Partition) /\ \A n \in DOMAIN newMap : newMap[n].replicas \in Seq(Int)
  <2>1. newMap \in Seq(Partition)
    BY DEF TypeInv
  <2>2. \A n \in DOMAIN newMap : newMap[n] \in Partition
    BY <2>1
  <2> QED BY <2>1, <2>2 DEF Partition
<1>5. \A n \in DOMAIN newMap : /\ Arranged(sets[n], newMap[n].replicas)
                               /\ ByPartition \/ sets[n] = newMap[n].replicas
  <2> SUFFICES ASSUME NEW n \in DOMAIN newMap
               PROVE  /\ Arranged(sets[n], newMap[n].replicas)
                      /\ ByPartition \/ sets[n] = newMap[n].replicas
    OBVIOUS
  <2>1. CASE ByPartition
    <3>1. sets[n] \in Shuffles(newMap[n].replicas)
      BY <1>2, <2>1
    <3> QED BY <2>1, <3>1, ShuffledArranged
  <2>2. CASE ~ByPartition
    <3>1. sets[n] = newMap[n].replicas
      BY <1>2, <2>2
    <3> QED BY <1>4, <3>1, ArrangedSame
  <2> QED BY <2>1, <2>2
<1>6. \A n \in DOMAIN newMap : sets[n] \in Seq(Int)
  BY <1>4, <1>5, ArrangedSequence
<1>7. /\ x \in Seq(Partition) /\ DOMAIN x = DOMAIN newMap
      /\ \A n \in DOMAIN newMap : SamePartition(x[n], newMap[n]) /\ x[n].replicas = sets[n]
  <2>1. x = [n \in DOMAIN newMap |-> WithReplicas(newMap[n], sets[n])]
    OBVIOUS
  <2> HIDE DEF x
  <2>2. newMap \in Seq(Partition)
    BY <1>4
  <2> QED BY <1>6, <2>1, <2>2, MapWithReplicas
<1> HIDE DEF x
<1>8. Arranged(newMap', x)
  BY <1>3 DEF Arranged
<1>9. newMap' \in Seq(Partition) /\ DOMAIN newMap' = DOMAIN newMap
  BY <1>7, <1>8, ArrangedSequence
<1>10. \A i \in DOMAIN newMap : g[i] \in DOMAIN newMap
  BY <1>7 DEF Bijection, Injection
<1>11. \A i \in DOMAIN newMap : /\ SamePartition(newMap'[i], newMap[g[i]])
                                /\ newMap'[i].replicas = sets[g[i]]
  BY <1>3, <1>7, <1>10
<1>12. Reshuffled(newMap', newMap, g)
  BY <1>5, <1>7, <1>9, <1>10, <1>11 DEF Reshuffled
<1>13. \A i, j \in DOMAIN newMap : i < j => ~ByName(newMap'[j], newMap'[i])
  BY <1>3, <1>7
<1> QED BY <1>1, <1>12, <1>13

(* EndPlacement preserves the types.                                       *)
LEMMA TypeEndPlacement ==
  ASSUME TypeInv, EndPlacement
  PROVE  TypeInv'
<1>1. /\ pc = "place" /\ pc' \in {"optimize", "conclude"} /\ slot' = [n |-> 1, i |-> 1]
      /\ UNCHANGED <<params, original, pm, bm, bmOrig, affinities, fresh, skipped,
                     mid, left, outputs, written>>
      /\ \A i, j \in DOMAIN newMap : i < j => ~ByName(newMap'[j], newMap'[i])
  BY EndStep
<1>2. PICK g : Reshuffled(newMap', newMap, g)
  BY EndStep
<1>3. Cluster /\ SameBrokers /\ Substitutes /\ Placing /\ Arranged(pm, Basis)
  BY <1>1 DEF TypeInv, Prepared
<1>4. Cluster' /\ Basis' = Basis /\ SameBrokers' /\ Substitutes'
  BY <1>1, <1>3, ClusterFrame, BrokersFrame, UnchangedFlags
<1>5. params \in ParamSets
  BY DEF TypeInv
<1>6. DOMAIN pm = DOMAIN original /\ pm \in Seq(Partition)
  BY <1>3, <1>5, PreparedMap
<1>7. PICK f \in Bijection(DOMAIN original, DOMAIN original) :
         \A n \in DOMAIN pm : SamePartition(pm[n], original[f[n]])
  BY <1>3, <1>5, PreparedMap
<1>8. DOMAIN newMap = DOMAIN original /\ \A n \in DOMAIN original : SamePartition(newMap[n], pm[n])
  BY <1>3, <1>6 DEF Placing
<1> DEFINE h == [i \in DOMAIN original |-> f[g[i]]]
<1>9. g \in Bijection(DOMAIN original, DOMAIN original)
  BY <1>2, <1>8 DEF Reshuffled
<1>10. h \in Bijection(DOMAIN original, DOMAIN original)
  BY <1>9 DEF Bijection, Injection, Surjection, IsInjective
<1>11. g \in [DOMAIN original -> DOMAIN original]
  BY <1>9 DEF Bijection, Injection
<1>12. \A i \in DOMAIN original : SamePartition(newMap'[i], original[h[i]])
  BY <1>2, <1>6, <1>7, <1>8, <1>11 DEF Reshuffled, SamePartition
<1>13. newMap' \in Seq(Partition) /\ DOMAIN newMap' = DOMAIN original
  BY <1>2, <1>8 DEF Reshuffled
<1> HIDE DEF h
<1>14. \A i \in DOMAIN original : SamePartition(newMap'[i], original[i])
  <2>1. original \in Seq(Partition) /\ InNameOrder(original)
    BY <1>3 DEF Cluster, OfKafka
  <2>2. \A i, j \in DOMAIN original : i < j => ~ByName(newMap'[j], newMap'[i])
    BY <1>1, <1>8
  <2> QED BY <1>10, <1>12, <1>13, <2>1, <2>2, NamesInOrder
<1>15. Built'
  BY <1>1, <1>13, <1>14 DEF Built
<1>16. newMap' = <<>> \/ slot'.n <= Len(newMap')
  BY <1>1, <1>13
<1>17. slot' \in [n : Nat \ {0}, i : Nat \ {0}]
  BY <1>1
<1> QED BY <1>1, <1>3, <1>4, <1>13, <1>15, <1>16, <1>17 DEF TypeInv, Prepared

(* One set of newMap is put in another order.                              *)
LEMMA OptimizeStep ==
  ASSUME newMap \in Seq(Partition), slot.n \in DOMAIN newMap,
         newMap' \in OptimizeLeaderFollower(newMap, slot.n)
  PROVE  /\ newMap' \in Seq(Partition) /\ DOMAIN newMap' = DOMAIN newMap
         /\ \A n \in DOMAIN newMap : /\ SamePartition(newMap'[n], newMap[n])
                                     /\ Arranged(newMap'[n].replicas, newMap[n].replicas)
<1> DEFINE k == slot.n
<1>1. PICK rs : /\ newMap' = [newMap EXCEPT ![k].replicas = rs]
                /\ Arranged(rs, newMap[k].replicas)
  BY Zenon DEF OptimizeLeaderFollower, Sortings, Arranged
<1>2. \A n \in DOMAIN newMap : newMap[n] \in Partition
  OBVIOUS
<1>3. \A n \in DOMAIN newMap : newMap[n].replicas \in Seq(Int)
  BY <1>2 DEF Partition
<1>4. rs \in Seq(Int)
  BY <1>1, <1>3, ArrangedSequence
<1> DEFINE p == [newMap[k] EXCEPT !.replicas = rs]
<1>5. p \in Partition /\ p.replicas = rs /\ SamePartition(p, newMap[k])
  BY <1>2, <1>4 DEF Partition, SamePartition
<1>6. newMap' = [n \in DOMAIN newMap |-> IF n = k THEN p ELSE newMap[n]]
  BY <1>1
<1> HIDE DEF p
<1>7. newMap' \in [1 .. Len(newMap) -> Partition]
  BY <1>2, <1>5, <1>6
<1>8. newMap' \in Seq(Partition) /\ DOMAIN newMap' = DOMAIN newMap
  BY <1>7
<1>9. \A n \in DOMAIN newMap : /\ SamePartition(newMap'[n], newMap[n])
                               /\ Arranged(newMap'[n].replicas, newMap[n].replicas)
  <2> SUFFICES ASSUME NEW n \in DOMAIN newMap
               PROVE  /\ SamePartition(newMap'[n], newMap[n])
                      /\ Arranged(newMap'[n].replicas, newMap[n].replicas)
    OBVIOUS
  <2>1. CASE n = k
    BY <1>1, <1>5, <1>6, <2>1
  <2>2. CASE n # k
    BY <1>3, <1>6, <2>2, ArrangedSame DEF SamePartition
  <2> QED BY <2>1, <2>2
<1> QED BY <1>8, <1>9

(* Optimize preserves the types.                                           *)
LEMMA TypeOptimize ==
  ASSUME TypeInv, Optimize
  PROVE  TypeInv'
<1>1. /\ pc = "optimize"
      /\ UNCHANGED <<params, original, pm, bm, bmOrig, affinities, fresh, skipped, warns,
                     mid, left, outputs, written>>
  BY DEF Optimize, brokers, output
<1>2. \/ pc' \in {"exit", "conclude"} /\ UNCHANGED <<newMap, slot>>
      \/ /\ pc' = pc /\ newMap # <<>> /\ newMap' \in OptimizeLeaderFollower(newMap, slot.n)
         /\ slot' = IF slot.n < Len(newMap) THEN [slot EXCEPT !.n = @ + 1]
                    ELSE [n |-> 1, i |-> slot.i + 1]
  BY Zenon DEF Optimize
<1>3. /\ Cluster /\ SameBrokers /\ Substitutes /\ Arranged(pm, Basis) /\ Built
      /\ newMap = <<>> \/ slot.n <= Len(newMap)
  BY <1>1 DEF TypeInv, Prepared
<1>4. Cluster' /\ Basis' = Basis /\ SameBrokers' /\ Substitutes'
  BY <1>1, <1>3, ClusterFrame, BrokersFrame, UnchangedFlags
<1>5. CASE pc' \in {"exit", "conclude"} /\ UNCHANGED <<newMap, slot>>
  <2>1. Built'
    BY <1>1, <1>3, <1>5 DEF Built
  <2> QED BY <1>1, <1>3, <1>4, <1>5, <2>1 DEF TypeInv, Prepared
<1>6. CASE /\ pc' = pc /\ newMap # <<>> /\ newMap' \in OptimizeLeaderFollower(newMap, slot.n)
           /\ slot' = IF slot.n < Len(newMap) THEN [slot EXCEPT !.n = @ + 1]
                      ELSE [n |-> 1, i |-> slot.i + 1]
  <2>1. newMap \in Seq(Partition) /\ slot \in [n : Nat \ {0}, i : Nat \ {0}]
    BY DEF TypeInv
  <2>2. slot.n \in DOMAIN newMap /\ Len(newMap) >= 1 /\ DOMAIN newMap = 1 .. Len(newMap)
    BY <1>3, <1>6, <2>1
  <2>3. /\ newMap' \in Seq(Partition) /\ DOMAIN newMap' = DOMAIN newMap
        /\ \A n \in DOMAIN newMap : SamePartition(newMap'[n], newMap[n])
    BY <1>6, <2>1, <2>2, OptimizeStep
  <2>4. Built'
    BY <1>1, <1>3, <2>3 DEF Built, SamePartition
  <2>5. slot' \in [n : Nat \ {0}, i : Nat \ {0}] /\ slot'.n <= Len(newMap)
    BY <1>6, <2>1, <2>2
  <2>6. Len(newMap') = Len(newMap)
    BY <2>1, <2>3
  <2> QED BY <1>1, <1>3, <1>4, <1>6, <2>3, <2>4, <2>5, <2>6 DEF TypeInv, Prepared
<1> QED BY <1>2, <1>5, <1>6

-----------------------------------------------------------------------------
(* The maps that are written.                                              *)

(* Exchanging two replicas rearranges the set.                             *)
LEMMA SwapArranged ==
  ASSUME NEW rs \in Seq(Int), NEW j \in DOMAIN rs
  PROVE  Arranged([rs EXCEPT ![1] = rs[j], ![j] = rs[1]], rs)
<1> DEFINE f == [i \in DOMAIN rs |-> IF i = j THEN 1 ELSE IF i = 1 THEN j ELSE i]
           t == [rs EXCEPT ![1] = rs[j], ![j] = rs[1]]
<1>1. DOMAIN rs = 1 .. Len(rs) /\ Len(rs) \in Nat /\ 1 \in DOMAIN rs
  OBVIOUS
<1>2. f \in [DOMAIN rs -> DOMAIN rs] /\ \A i \in DOMAIN rs : f[f[i]] = i
  BY <1>1
<1>3. f \in Bijection(DOMAIN rs, DOMAIN rs)
  <2> HIDE DEF f
  <2>1. \A a, b \in DOMAIN rs : f[a] = f[b] => a = b
    BY <1>2
  <2>2. \A b \in DOMAIN rs : \E a \in DOMAIN rs : f[a] = b
    BY <1>2
  <2> QED BY <1>2, <2>1, <2>2 DEF Bijection, Injection, Surjection, IsInjective
<1>4. t = [i \in DOMAIN rs |-> rs[f[i]]]
  BY <1>1
<1>5. Arranged(t, rs)
  BY <1>3, <1>4 DEF Arranged
<1> QED BY <1>5

(* Every set of m, in some order.                                          *)
SetsOf(x, m) ==
    /\ x \in Seq(Partition) /\ DOMAIN x = DOMAIN m
    /\ \A n \in DOMAIN m : SamePartition(x[n], m[n]) /\ Arranged(x[n].replicas, m[n].replicas)

(* evacuateLeadership reorders the replica sets of the evacuated topics    *)
(* only.                                                                   *)
LEMMA Evacuated ==
  ASSUME NEW m \in Seq(Partition), \A n \in DOMAIN m : ToEvacuate(m[n]) => CanLead(m[n]) # {}
  PROVE  /\ SetsOf(evacuateLeadership(m), m)
         /\ params.evacTopics = {} => evacuateLeadership(m) = m
<1> DEFINE j(n) == Min(CanLead(m[n]))
           rs(n) == m[n].replicas
           f == [n \in DOMAIN m |-> IF ~ToEvacuate(m[n]) THEN rs(n)
                                    ELSE [rs(n) EXCEPT ![1] = rs(n)[j(n)], ![j(n)] = rs(n)[1]]]
           x == evacuateLeadership(m)
<1>1. \A n \in DOMAIN m : m[n] \in Partition /\ rs(n) \in Seq(Int)
  <2>1. \A n \in DOMAIN m : m[n] \in Partition
    OBVIOUS
  <2> QED BY <2>1 DEF Partition
<1>2. \A n \in DOMAIN m : Arranged(f[n], rs(n))
  <2> SUFFICES ASSUME NEW n \in DOMAIN m PROVE Arranged(f[n], rs(n))
    OBVIOUS
  <2>1. CASE ~ToEvacuate(m[n])
    <3>1. f[n] = rs(n) /\ rs(n) \in Seq(Int)
      BY <1>1, <2>1
    <3> HIDE DEF f, rs
    <3> QED BY <3>1, ArrangedSame
  <2>2. CASE ToEvacuate(m[n])
    <3>1. CanLead(m[n]) # {} /\ CanLead(m[n]) \subseteq DOMAIN rs(n)
      BY <2>2 DEF CanLead
    <3>2. CanLead(m[n]) \in SUBSET Nat
      BY <1>1, <3>1
    <3>3. j(n) \in DOMAIN rs(n)
      BY <3>1, <3>2, MinNat
    <3>4. f[n] = [rs(n) EXCEPT ![1] = rs(n)[j(n)], ![j(n)] = rs(n)[1]] /\ rs(n) \in Seq(Int)
      BY <1>1, <2>2
    <3> HIDE DEF f, rs, j
    <3> QED BY <3>3, <3>4, SwapArranged
  <2> QED BY <2>1, <2>2
<1>3. \A n \in DOMAIN m : f[n] \in Seq(Int)
  <2> HIDE DEF f
  <2> QED BY <1>1, <1>2, ArrangedSequence
<1>4. x = [n \in DOMAIN m |-> WithReplicas(m[n], f[n])]
  <2>1. \A n \in DOMAIN m : WithReplicas(m[n], m[n].replicas) = m[n]
    BY <1>1 DEF WithReplicas, Partition
  <2> QED BY <2>1 DEF evacuateLeadership
<1>5. params.evacTopics = {} => x = m
  <2>1. params.evacTopics = {} => \A n \in DOMAIN m : ~ToEvacuate(m[n])
    BY DEF ToEvacuate
  <2>2. m = [n \in DOMAIN m |-> m[n]]
    OBVIOUS
  <2> QED BY <2>1, <2>2 DEF evacuateLeadership
<1> HIDE DEF f, x
<1>6. /\ x \in Seq(Partition) /\ DOMAIN x = DOMAIN m
      /\ \A n \in DOMAIN m : SamePartition(x[n], m[n]) /\ x[n].replicas = f[n]
  BY <1>3, <1>4, MapWithReplicas
<1>7. SetsOf(x, m)
  BY <1>2, <1>6 DEF SetsOf
<1> QED BY <1>5, <1>7 DEF x

(* The final map has the sets of the map m that was built; x is what is    *)
(* left of it when the places that do not change are pruned.               *)
ConcludedFrom(m, final, places, x) ==
    /\ m \in Seq(Partition) /\ DOMAIN m = DOMAIN original
    /\ \A n \in DOMAIN original : SamePartition(m[n], original[n])
    /\ SetsOf(final, m) /\ (params.evacTopics = {} => final = m)
    /\ places \subseteq DOMAIN original
    /\ \A n \in DOMAIN original \ places : final[n].replicas = original[n].replicas
    /\ x = Pruned(final, places)

(* What Conclude hands to the output.                                      *)
LEMMA ConcludeStep ==
  ASSUME TypeInv, Conclude
  PROVE  /\ pc = "conclude" /\ warns \subseteq warns'
         /\ UNCHANGED <<params, original, pm, bm, bmOrig, status, affinities, fresh, slot, skipped,
                        written>>
         /\ \/ pc' = "exit" /\ UNCHANGED <<newMap, mid, left, outputs>>
            \/ /\ pc' = IF params.chunkStepSize > 0 THEN "chunk" ELSE "write"
               /\ left' = Real(bmOrig)
               /\ outputs' = (IF params.phased THEN <<phasedReassignment(original, newMap)>> ELSE <<>>)
                               \o (IF params.chunkStepSize > 0 THEN <<>> ELSE <<newMap'>>)
               /\ \E final, places : /\ ConcludedFrom(newMap, final, places, newMap')
                                     /\ mid' = Pruned(original, places)
<1> DEFINE final == evacuateLeadership(newMap)
           changed == IF params.skipNoOps THEN Changed(original, final) ELSE DOMAIN final
<1>1. /\ pc = "conclude" /\ warns \subseteq warns'
      /\ UNCHANGED <<params, original, pm, bm, bmOrig, status, affinities, fresh, slot, skipped,
                     written>>
  BY Zenon DEF Conclude, brokers
<1>2. \/ pc' = "exit" /\ UNCHANGED <<newMap, mid, left, outputs>>
      \/ /\ \A n \in DOMAIN newMap : ToEvacuate(newMap[n]) => CanLead(newMap[n]) # {}
         /\ pc' = IF params.chunkStepSize > 0 THEN "chunk" ELSE "write"
         /\ left' = Real(bmOrig)
         /\ outputs' = (IF params.phased THEN <<phasedReassignment(original, newMap)>> ELSE <<>>)
                         \o (IF params.chunkStepSize > 0 THEN <<>> ELSE <<newMap'>>)
         /\ newMap' = Pruned(final, changed) /\ mid' = Pruned(original, changed)
  BY Zenon DEF Conclude
<1>3. ASSUME \A n \in DOMAIN newMap : ToEvacuate(newMap[n]) => CanLead(newMap[n]) # {},
             newMap' = Pruned(final, changed)
      PROVE  ConcludedFrom(newMap, final, changed, newMap')
  <2>1. newMap \in Seq(Partition) /\ Built
    BY <1>1 DEF TypeInv
  <2>2. SetsOf(final, newMap) /\ (params.evacTopics = {} => final = newMap)
    BY <1>3, <2>1, Evacuated
  <2> HIDE DEF final
  <2>3. DOMAIN final = DOMAIN original
    BY <2>1, <2>2 DEF SetsOf, Built
  <2>4. /\ changed \subseteq DOMAIN original
        /\ \A n \in DOMAIN original \ changed : final[n].replicas = original[n].replicas
    BY <2>3 DEF Changed
  <2> QED BY <1>3, <2>1, <2>2, <2>4 DEF ConcludedFrom, Built
<1> HIDE DEF final, changed
<1> QED BY <1>1, <1>2, <1>3

(* Conclude preserves the types.                                           *)
LEMMA TypeConclude ==
  ASSUME TypeInv, Conclude
  PROVE  TypeInv'
<1>1. /\ pc = "conclude"
      /\ UNCHANGED <<params, original, pm, bm, bmOrig, affinities, fresh, slot, skipped, written>>
      /\ pc' \in {"exit", "chunk", "write"}
  BY ConcludeStep
<1>2. Cluster /\ SameBrokers /\ Substitutes /\ Arranged(pm, Basis)
  BY <1>1 DEF TypeInv, Prepared
<1>3. Cluster' /\ Basis' = Basis /\ SameBrokers' /\ Substitutes'
  BY <1>1, <1>2, ClusterFrame, BrokersFrame, UnchangedFlags
<1>4. CASE pc' = "exit" /\ UNCHANGED <<newMap, mid>>
  BY <1>1, <1>4 DEF TypeInv, Prepared
<1>5. CASE \E final, places : /\ ConcludedFrom(newMap, final, places, newMap')
                              /\ mid' = Pruned(original, places)
  <2>1. PICK final, places : /\ ConcludedFrom(newMap, final, places, newMap')
                             /\ mid' = Pruned(original, places)
    BY <1>5
  <2>2. /\ final \in Seq(Partition) /\ places \in SUBSET DOMAIN final
        /\ original \in Seq(Partition) /\ places \in SUBSET DOMAIN original
        /\ newMap' = Pruned(final, places)
    BY <2>1 DEF ConcludedFrom, SetsOf, TypeInv
  <2>3. newMap' \in Seq(Partition) /\ DOMAIN newMap' = 1 .. Cardinality(places)
    BY <2>2, PrunedMap
  <2>4. mid' \in Seq(Partition) /\ DOMAIN mid' = 1 .. Cardinality(places)
    BY <2>1, <2>2, PrunedMap
  <2> QED BY <1>1, <1>2, <1>3, <2>3, <2>4 DEF TypeInv, Prepared
<1> QED BY <1>4, <1>5, ConcludeStep

(* A chunk replaces some of its brokers with those of the final map.       *)
LEMMA ChunkStep ==
  ASSUME TypeInv, Chunk
  PROVE  /\ pc = "chunk" /\ left # {} /\ left' = left \ ChunkBrokers
         /\ UNCHANGED <<params, original, pm, bm, bmOrig, status, affinities, fresh, newMap, slot,
                        skipped, warns, written>>
         /\ \/ pc' = "exit" /\ UNCHANGED <<mid, outputs>>
            \/ /\ pc' = "chunk"
               /\ outputs' = IF mid' # mid THEN Append(outputs, mid') ELSE outputs
               /\ mid' \in Seq(Partition) /\ DOMAIN mid' = DOMAIN mid
               /\ \A n \in DOMAIN mid :
                    /\ SamePartition(mid'[n], mid[n])
                    /\ Len(mid'[n].replicas) = Len(mid[n].replicas)
                    /\ \A j \in DOMAIN mid[n].replicas :
                         IF mid[n].replicas[j] \in ChunkBrokers
                         THEN /\ Len(newMap[n].replicas) = Len(mid[n].replicas)
                              /\ mid'[n].replicas[j] = newMap[n].replicas[j]
                         ELSE mid'[n].replicas[j] = mid[n].replicas[j]
<1>1. /\ pc = "chunk" /\ left # {} /\ left' = left \ ChunkBrokers
      /\ UNCHANGED <<params, original, pm, bm, bmOrig, status, affinities, fresh, newMap, slot,
                     skipped, warns, written>>
  BY DEF Chunk, brokers, placement
<1>2. \/ pc' = "exit" /\ UNCHANGED <<mid, outputs>>
      \/ /\ \A n \in DOMAIN mid : Moves(n) => Len(mid[n].replicas) = Len(newMap[n].replicas)
         /\ pc' = "chunk" /\ mid' = ChunkMap
         /\ outputs' = IF mid' # mid THEN Append(outputs, mid') ELSE outputs
  BY Zenon DEF Chunk
<1>3. ASSUME \A n \in DOMAIN mid : Moves(n) => Len(mid[n].replicas) = Len(newMap[n].replicas),
             mid' = ChunkMap
      PROVE  /\ mid' \in Seq(Partition) /\ DOMAIN mid' = DOMAIN mid
             /\ \A n \in DOMAIN mid :
                  /\ SamePartition(mid'[n], mid[n])
                  /\ Len(mid'[n].replicas) = Len(mid[n].replicas)
                  /\ \A j \in DOMAIN mid[n].replicas :
                       IF mid[n].replicas[j] \in ChunkBrokers
                       THEN /\ Len(newMap[n].replicas) = Len(mid[n].replicas)
                            /\ mid'[n].replicas[j] = newMap[n].replicas[j]
                       ELSE mid'[n].replicas[j] = mid[n].replicas[j]
  <2> DEFINE f == [n \in DOMAIN mid |->
                     [j \in DOMAIN mid[n].replicas |->
                        IF mid[n].replicas[j] \in ChunkBrokers THEN newMap[n].replicas[j]
                        ELSE mid[n].replicas[j]]]
  <2>1. mid \in Seq(Partition) /\ newMap \in Seq(Partition) /\ DOMAIN mid = DOMAIN newMap
    BY <1>1 DEF TypeInv
  <2>2. \A n \in DOMAIN mid : mid[n] \in Partition /\ newMap[n] \in Partition
    BY <2>1
  <2>3. \A n \in DOMAIN mid : mid[n].replicas \in Seq(Int) /\ newMap[n].replicas \in Seq(Int)
    BY <2>2 DEF Partition
  <2>4. ASSUME NEW n \in DOMAIN mid, NEW j \in DOMAIN mid[n].replicas,
               mid[n].replicas[j] \in ChunkBrokers
        PROVE  Len(newMap[n].replicas) = Len(mid[n].replicas)
    BY <1>3, <2>4 DEF Moves, Range
  <2>5. \A n \in DOMAIN mid : f[n] \in Seq(Int) /\ Len(f[n]) = Len(mid[n].replicas)
    <3> SUFFICES ASSUME NEW n \in DOMAIN mid
                 PROVE  f[n] \in Seq(Int) /\ Len(f[n]) = Len(mid[n].replicas)
      OBVIOUS
    <3> DEFINE k == Len(mid[n].replicas)
               a == mid[n].replicas
               b == newMap[n].replicas
    <3>1. a \in Seq(Int) /\ b \in Seq(Int) /\ k \in Nat /\ DOMAIN a = 1 .. k /\ k = Len(a)
      BY <2>3
    <3>2. f[n] = [j \in DOMAIN a |-> IF a[j] \in ChunkBrokers THEN b[j] ELSE a[j]]
      OBVIOUS
    <3>3. \A j \in DOMAIN a : a[j] \in ChunkBrokers => Len(b) = k
      BY <2>4
    <3> HIDE DEF k, a, b, f
    <3>4. \A j \in 1 .. k : a[j] \in Int /\ (a[j] \in ChunkBrokers => b[j] \in Int)
      BY <3>1, <3>3
    <3>5. f[n] \in [1 .. k -> Int]
      BY <3>1, <3>2, <3>4
    <3>6. f[n] \in Seq(Int) /\ Len(f[n]) = k
      BY <3>1, <3>5, FunctionSequence
    <3> QED BY <3>6 DEF k
  <2>6. mid' = [n \in DOMAIN mid |-> WithReplicas(mid[n], f[n])]
    BY <1>3 DEF ChunkMap
  <2>7. \A n \in DOMAIN mid : \A j \in DOMAIN mid[n].replicas :
          f[n][j] = IF mid[n].replicas[j] \in ChunkBrokers THEN newMap[n].replicas[j]
                    ELSE mid[n].replicas[j]
    OBVIOUS
  <2> HIDE DEF f
  <2>8. \A n \in DOMAIN mid : f[n] \in Seq(Int)
    BY <2>5
  <2>9. /\ mid' \in Seq(Partition) /\ DOMAIN mid' = DOMAIN mid
        /\ \A n \in DOMAIN mid : SamePartition(mid'[n], mid[n]) /\ mid'[n].replicas = f[n]
    <3>1. mid \in Seq(Partition)
      BY <2>1
    <3> QED BY <2>6, <2>8, <3>1, MapWithReplicas
  <2> QED BY <2>4, <2>5, <2>7, <2>9
<1> QED BY <1>1, <1>2, <1>3

(* Chunk preserves the types.                                              *)
LEMMA TypeChunk ==
  ASSUME TypeInv, Chunk
  PROVE  TypeInv'
<1>1. /\ pc = "chunk"
      /\ UNCHANGED <<params, original, pm, bm, bmOrig, affinities, fresh, newMap, slot, skipped, warns,
                     written>>
  BY ChunkStep
<1>2. \/ pc' = "exit" /\ UNCHANGED mid
      \/ pc' = "chunk" /\ mid' \in Seq(Partition) /\ DOMAIN mid' = DOMAIN mid
  BY ChunkStep
<1>3. Cluster /\ SameBrokers /\ Substitutes /\ Arranged(pm, Basis)
  BY <1>1 DEF TypeInv, Prepared
<1>4. Cluster' /\ Basis' = Basis /\ SameBrokers' /\ Substitutes'
  BY <1>1, <1>3, ClusterFrame, BrokersFrame, UnchangedFlags
<1> QED BY <1>1, <1>2, <1>3, <1>4 DEF TypeInv, Prepared

(* EndChunks and Write preserve the types.                                 *)
LEMMA TypeEnd ==
  ASSUME TypeInv, EndChunks \/ Write
  PROVE  TypeInv'
<1>1. /\ pc \in {"chunk", "write"} /\ pc' \in {"write", "done", "exit"}
      /\ UNCHANGED <<params, original, pm, bm, bmOrig, affinities, fresh, newMap, slot, skipped, warns,
                     mid, left, outputs>>
  BY DEF EndChunks, Write, brokers, placement, output
<1>2. Cluster /\ SameBrokers /\ Substitutes /\ Arranged(pm, Basis)
  BY <1>1 DEF TypeInv, Prepared
<1>3. Cluster' /\ Basis' = Basis /\ SameBrokers' /\ Substitutes'
  BY <1>1, <1>2, ClusterFrame, BrokersFrame, UnchangedFlags
<1> QED BY <1>1, <1>2, <1>3 DEF TypeInv, Prepared

(* Stuttering preserves the types.                                         *)
LEMMA TypeStutter ==
  ASSUME TypeInv, UNCHANGED vars
  PROVE  TypeInv'
<1>1. UNCHANGED <<pc, params, original, pm, bm, bmOrig, affinities, fresh, newMap, slot, skipped, warns,
                  mid, left, outputs, written>>
  BY DEF vars, brokers, placement, output
<1>2. /\ Untouched' = Untouched /\ Basis' = Basis /\ Placing' = Placing /\ Built' = Built
      /\ Substitutes' = Substitutes /\ SameBrokers' = SameBrokers /\ Prepared' = Prepared
  BY <1>1 DEF Untouched, Basis, Resized, Placing, ByPartition, Storage, Built, Substitutes, Fresh,
              SameBrokers, Prepared
<1>3. Cluster => Cluster'
  BY <1>1, ClusterFrame
<1> QED BY <1>1, <1>2, <1>3 DEF TypeInv

(* Panic preserves the types.                                              *)
LEMMA TypePanic ==
  ASSUME TypeInv, Panic
  PROVE  TypeInv'
<1>1. /\ pc = "place" /\ pc' = "exit"
      /\ UNCHANGED <<params, original, pm, bm, bmOrig, affinities, fresh, newMap, slot, skipped, warns,
                     mid, left, outputs, written>>
  BY DEF Panic, brokers, placement, output
<1>2. Cluster /\ SameBrokers /\ Substitutes /\ Arranged(pm, Basis)
  BY <1>1 DEF TypeInv, Prepared
<1>3. Cluster' /\ Basis' = Basis /\ SameBrokers' /\ Substitutes'
  BY <1>1, <1>2, ClusterFrame, BrokersFrame, UnchangedFlags
<1> QED BY <1>1, <1>2, <1>3 DEF TypeInv, Prepared

(* Every step preserves the types.                                         *)
LEMMA TypeNext ==
  ASSUME TypeInv, [Next]_vars
  PROVE  TypeInv'
<1>1. CASE Validate \/ ReadFails
  BY <1>1, TypeEarly
<1>2. CASE Skip \/ Keep \/ Replace \/ LeaveOut
  BY <1>2, TypeVisit
<1>3. CASE EndChunks \/ Write
  BY <1>3, TypeEnd
<1> QED BY <1>1, <1>2, <1>3, TypeRead, TypeSubstitute, TypeSubstituted, TypePrepare, TypePanic,
           TypeEndPlacement, TypeOptimize, TypeConclude, TypeChunk, TypeStutter DEF Next

(* Every reachable state is well typed.                                    *)
LEMMA TypeInvariant == Spec => []TypeInv
<1>1. Init => TypeInv
  BY TypeInitial
<1>2. TypeInv /\ [Next]_vars => TypeInv'
  BY TypeNext
<1> QED BY <1>1, <1>2, PTL DEF Spec

(* The variables have their types for all maps and parameters, and the     *)
(* broker map of the placement has records for just the online replicas:   *)
(* placeByPosition and placeByPartition, which look brokers up unchecked,  *)
(* find none for a replica that is offline (ID -1), and one for every      *)
(* other.                                                                  *)
THEOREM RebuildTypes == Spec => []TypeOK
<1>1. TypeInv => TypeOK
  <2> SUFFICES ASSUME TypeInv PROVE TypeOK
    OBVIOUS
  <2>1. Maps = Seq(Partition) /\ BrokerRecords = BrokerRecord
    BY DEF Maps, Partition, BrokerRecords, BrokerRecord
  <2>2. pc = "place" => OnlineIn(pm) = BrokersIn(pm) \cap DOMAIN bm /\ Len(newMap) = Len(pm)
    <3> SUFFICES ASSUME pc = "place"
                 PROVE  OnlineIn(pm) = BrokersIn(pm) \cap DOMAIN bm /\ Len(newMap) = Len(pm)
      OBVIOUS
    <3>1. Cluster /\ SameBrokers /\ Placing /\ Arranged(pm, Basis) /\ params \in ParamSets
      BY DEF TypeInv, Prepared
    <3>2. OnlineIn(pm) \subseteq DOMAIN bm /\ Offline \notin DOMAIN bm
      BY <3>1, PreparedMap DEF SameBrokers, Cluster, Offline
    <3>3. newMap \in Seq(Partition) /\ pm \in Seq(Partition) /\ DOMAIN newMap = DOMAIN pm
      BY <3>1 DEF TypeInv, Placing
    <3> QED BY <3>2, <3>3 DEF OnlineIn
  <2> QED BY <2>1, <2>2 DEF TypeInv, TypeOK
<1> QED BY <1>1, TypeInvariant, PTL
=============================================================================
