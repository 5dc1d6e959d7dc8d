----------------------- MODULE RebuildPlacementProofs -----------------------
(***************************************************************************)
(* Proofs about the maps that `topicmappr rebuild` writes: which brokers a *)
(* replica set is given, and what the phases and the chunks make of it.    *)
(***************************************************************************)
EXTENDS RebuildProofs

-----------------------------------------------------------------------------
(* A replica set as it is built.  rs is the new set, old the one before    *)
(* with stubs for the replicas to place, seen the positions of old that    *)
(* have been visited, b the brokers and min the parameter minRackIds.      *)

RacksOf(ids, b) == {b[id].rack : id \in ids} \ {NoRack}
Around(rs, old, b) == Range(rs) \cup (Range(old) \cap NotReplaced(b))

(* A broker shares the rack of another only if there are enough racks.     *)
Spread(rs, old, b, min) ==
    \A x \in Range(rs) \ Range(old) : \A y \in Around(rs, old, b) \ {x} :
        b[x].rack # NoRack /\ b[x].rack = b[y].rack
          => min > 0 /\ Cardinality(RacksOf(Around(rs, old, b), b)) >= min

Partial(rs, old, seen, b, min) ==
    /\ rs \in Seq(Int) /\ IsInjective(rs) /\ Range(rs) \subseteq NotReplaced(b)
    /\ \A id \in Range(rs) : id \in {old[i] : i \in seen} \/ id \notin Range(old)
    /\ \A i \in seen : old[i] \in NotReplaced(b) => old[i] \in Range(rs)
    /\ Spread(rs, old, b, min)

(* Where no replica is left out, every position has its replica.           *)
Aligned(rs, old) ==
    \A j \in DOMAIN rs : j \in DOMAIN old /\ (rs[j] = old[j] \/ rs[j] \notin Range(old))

(* No broker twice, among those that stay.                                 *)
DistinctKept(old, b) ==
    /\ old \in Seq(Int)
    /\ \A i, j \in DOMAIN old : old[i] = old[j] /\ old[i] \in NotReplaced(b) => i = j

(* Appending a replica adds one position and one broker.                   *)
LEMMA AppendedSet ==
  ASSUME NEW rs \in Seq(Int), NEW id \in Int
  PROVE  LET t == Append(rs, id)
         IN  /\ t \in Seq(Int) /\ Range(t) = Range(rs) \cup {id} /\ Len(t) = Len(rs) + 1
             /\ DOMAIN t = DOMAIN rs \cup {Len(rs) + 1}
             /\ \A j \in DOMAIN rs : t[j] = rs[j]
             /\ t[Len(rs) + 1] = id
             /\ IsInjective(rs) /\ id \notin Range(rs) => IsInjective(t)
<1> DEFINE t == Append(rs, id)
           k == Len(rs)
<1>1. /\ t \in Seq(Int) /\ Len(t) = k + 1 /\ k \in Nat /\ DOMAIN t = 1 .. k + 1 /\ DOMAIN rs = 1 .. k
      /\ t[k + 1] = id /\ \A j \in 1 .. k : t[j] = rs[j]
  OBVIOUS
<1> HIDE DEF t, k
<1>2. DOMAIN t = DOMAIN rs \cup {k + 1} /\ k + 1 \notin DOMAIN rs
  BY <1>1
<1>3. Range(t) = Range(rs) \cup {id}
  BY <1>1, <1>2 DEF Range
<1>4. IsInjective(rs) /\ id \notin Range(rs) => IsInjective(t)
  BY <1>1, <1>2 DEF IsInjective, Range
<1> QED BY <1>1, <1>2, <1>3, <1>4 DEF t, k

(* More brokers have more racks.                                           *)
LEMMA MoreRacks ==
  ASSUME NEW b, b \in [DOMAIN b -> BrokerRecord], NEW U, NEW V, U \subseteq V, IsFiniteSet(V)
  PROVE  /\ Cardinality(RacksOf(U, b)) <= Cardinality(RacksOf(V, b))
         /\ Cardinality(RacksOf(U, b)) \in Nat /\ Cardinality(RacksOf(V, b)) \in Nat
<1>1. IsFiniteSet({b[id].rack : id \in V})
  <2> DEFINE f == [id \in V |-> b[id].rack]
             R == {b[id].rack : id \in V}
  <2>1. f \in Surjection(V, R)
    BY DEF Surjection
  <2> HIDE DEF f, R
  <2>2. IsFiniteSet(R)
    BY <2>1, FS_Surjection
  <2> QED BY <2>2 DEF R
<1>2. IsFiniteSet(RacksOf(V, b))
  <2>1. RacksOf(V, b) \subseteq {b[id].rack : id \in V}
    BY DEF RacksOf
  <2> QED BY <1>1, <2>1, FS_Subset
<1>3. RacksOf(U, b) \subseteq RacksOf(V, b)
  BY DEF RacksOf
<1> HIDE DEF RacksOf
<1>4. IsFiniteSet(RacksOf(U, b))
  BY <1>2, <1>3, FS_Subset
<1> QED BY <1>2, <1>3, <1>4, FS_Subset, FS_CardinalityType

(* A broker that stays keeps its place.                                    *)
LEMMA PartialKeep ==
  ASSUME NEW old, NEW b, NEW min, DistinctKept(old, b), NEW seen, seen \subseteq DOMAIN old,
         NEW rs, Partial(rs, old, seen, b, min),
         NEW i \in DOMAIN old, i \notin seen, old[i] \in NotReplaced(b)
  PROVE  Partial(Append(rs, old[i]), old, seen \cup {i}, b, min)
<1> DEFINE id == old[i]
           t == Append(rs, id)
<1>1. rs \in Seq(Int) /\ IsInjective(rs) /\ id \in Int /\ id \in Range(old)
  BY DEF Partial, DistinctKept, Range
<1>2. id \notin Range(rs)
  <2> SUFFICES ASSUME id \in Range(rs) PROVE FALSE
    OBVIOUS
  <2>1. PICK j \in seen : old[j] = id
    BY <1>1 DEF Partial
  <2> QED BY <2>1 DEF DistinctKept
<1>3. t \in Seq(Int) /\ Range(t) = Range(rs) \cup {id} /\ IsInjective(t)
  BY <1>1, <1>2, AppendedSet
<1> HIDE DEF t
<1>4. Range(t) \subseteq NotReplaced(b)
  BY <1>3 DEF Partial
<1>5. \A x \in Range(t) : x \in {old[j] : j \in seen \cup {i}} \/ x \notin Range(old)
  BY <1>3 DEF Partial
<1>6. \A j \in seen \cup {i} : old[j] \in NotReplaced(b) => old[j] \in Range(t)
  BY <1>3 DEF Partial
<1>7. Spread(t, old, b, min)
  <2>1. Around(t, old, b) = Around(rs, old, b)
    BY <1>1, <1>3 DEF Around
  <2>2. Range(t) \ Range(old) = Range(rs) \ Range(old)
    BY <1>1, <1>3
  <2> QED BY <2>1, <2>2 DEF Partial, Spread
<1>8. Partial(t, old, seen \cup {i}, b, min)
  BY <1>3, <1>4, <1>5, <1>6, <1>7 DEF Partial
<1> QED BY <1>8 DEF t

(* Another broker takes the place of one that is replaced.                 *)
LEMMA PartialPlace ==
  ASSUME NEW old, NEW b, b \in [DOMAIN b -> BrokerRecord], NEW min \in Nat,
         old \in Seq(Int), NEW seen, NEW rs, Partial(rs, old, seen, b, min),
         NEW i \in DOMAIN old, old[i] \notin NotReplaced(b),
         NEW id \in NotReplaced(b) \cap Nat, id \notin Around(rs, old, b),
         b[id].rack \in RacksOf(Around(rs, old, b), b)
           => min > 0 /\ Cardinality(RacksOf(Around(rs, old, b), b)) >= min
  PROVE  Partial(Append(rs, id), old, seen \cup {i}, b, min)
<1> DEFINE t == Append(rs, id)
           U == Around(rs, old, b)
           V == Around(t, old, b)
<1>1. rs \in Seq(Int) /\ IsInjective(rs) /\ id \notin Range(rs) /\ id \notin Range(old)
  BY DEF Partial, Around
<1>2. t \in Seq(Int) /\ Range(t) = Range(rs) \cup {id} /\ IsInjective(t)
  BY <1>1, AppendedSet
<1> HIDE DEF t
<1>3. Range(t) \subseteq NotReplaced(b)
  BY <1>2 DEF Partial
<1>4. \A x \in Range(t) : x \in {old[j] : j \in seen \cup {i}} \/ x \notin Range(old)
  BY <1>1, <1>2 DEF Partial
<1>5. \A j \in seen \cup {i} : old[j] \in NotReplaced(b) => old[j] \in Range(t)
  BY <1>2 DEF Partial
<1>6. V = U \cup {id}
  BY <1>2 DEF Around
<1>7. IsFiniteSet(V)
  <2>1. IsFiniteSet(Range(t)) /\ IsFiniteSet(Range(old))
    BY <1>2, SequenceRange
  <2>2. V \subseteq Range(t) \cup Range(old)
    BY DEF Around
  <2>3. IsFiniteSet(Range(t) \cup Range(old))
    BY <2>1, FS_Union
  <2> QED BY <2>2, <2>3, FS_Subset
<1>8. Spread(t, old, b, min)
  <2> SUFFICES ASSUME NEW x \in Range(t) \ Range(old), NEW y \in V \ {x},
                      b[x].rack # NoRack, b[x].rack = b[y].rack
               PROVE  min > 0 /\ Cardinality(RacksOf(V, b)) >= min
    BY DEF Spread
  <2>1. min > 0 /\ Cardinality(RacksOf(U, b)) >= min
    <3>1. CASE x # id /\ y # id
      <4>1. x \in Range(rs) \ Range(old) /\ y \in U \ {x}
        BY <1>2, <1>6, <3>1
      <4> QED BY <4>1 DEF Partial, Spread
    <3>2. CASE x = id
      <4>1. y \in U /\ b[y].rack = b[id].rack /\ b[id].rack # NoRack
        BY <1>6, <3>2
      <4>2. b[id].rack \in RacksOf(U, b)
        BY <4>1 DEF RacksOf
      <4> QED BY <4>2
    <3>3. CASE x # id /\ y = id
      <4>1. x \in U /\ b[x].rack = b[id].rack /\ b[id].rack # NoRack
        BY <1>2, <3>3 DEF Around
      <4>2. b[id].rack \in RacksOf(U, b)
        BY <4>1 DEF RacksOf
      <4> QED BY <4>2
    <3> QED BY <3>1, <3>2, <3>3
  <2>2. U \subseteq V
    BY <1>6
  <2> HIDE DEF U, V
  <2>3. /\ Cardinality(RacksOf(U, b)) <= Cardinality(RacksOf(V, b))
        /\ Cardinality(RacksOf(U, b)) \in Nat /\ Cardinality(RacksOf(V, b)) \in Nat
    BY <1>7, <2>2, MoreRacks
  <2> QED BY <2>1, <2>3
<1>9. Partial(t, old, seen \cup {i}, b, min)
  BY <1>2, <1>3, <1>4, <1>5, <1>8 DEF Partial
<1> QED BY <1>9 DEF t

(* A replica for which no broker passes is left out.                       *)
LEMMA PartialLeave ==
  ASSUME NEW old, NEW b, NEW min, NEW seen, NEW rs, Partial(rs, old, seen, b, min),
         NEW i, old[i] \notin NotReplaced(b)
  PROVE  Partial(rs, old, seen \cup {i}, b, min)
BY DEF Partial

(* A replica at the next position.                                         *)
LEMMA AlignedAppend ==
  ASSUME NEW old \in Seq(Int), NEW rs \in Seq(Int), Aligned(rs, old),
         NEW id \in Nat, Len(rs) + 1 \in DOMAIN old,
         id = old[Len(rs) + 1] \/ id \notin Range(old)
  PROVE  Aligned(Append(rs, id), old)
<1> DEFINE t == Append(rs, id)
           k == Len(rs) + 1
<1>1. DOMAIN t = DOMAIN rs \cup {k} /\ t[k] = id /\ \A j \in DOMAIN rs : t[j] = rs[j]
  BY AppendedSet
<1> HIDE DEF t, k
<1>2. \A j \in DOMAIN rs \cup {k} : j \in DOMAIN old /\ (t[j] = old[j] \/ t[j] \notin Range(old))
  BY <1>1 DEF Aligned, k
<1>3. Aligned(t, old)
  BY <1>1, <1>2 DEF Aligned
<1> QED BY <1>3 DEF t

-----------------------------------------------------------------------------
(* The order of the visits.                                                *)

(* The positions of the set n that come before the slot.                   *)
Seen(n) ==
    {i \in DOMAIN pm[n].replicas :
        IF ByPartition THEN n < slot.n \/ (n = slot.n /\ i < slot.i)
        ELSE i < slot.i \/ (i = slot.i /\ n < slot.n)}

(* What the visits have built.                                             *)
SetsSoFar ==
    \A n \in DOMAIN pm :
        Partial(newMap[n].replicas, pm[n].replicas, Seen(n), bmOrig, params.minRackIds)
InPlace ==
    \A n \in DOMAIN pm : /\ DOMAIN newMap[n].replicas = Seen(n)
                         /\ Aligned(newMap[n].replicas, pm[n].replicas)
PlaceInv == pc = "place" => SetsSoFar /\ ("no brokers" \in warns \/ InPlace)

(* A visit adds its position, if there is one, to those of its set.        *)
LEMMA SeenNext ==
  ASSUME TypeInv, Visiting, Placing
  PROVE  /\ \A n \in DOMAIN pm :
              Seen(n)' = IF n = slot.n /\ HasSlot THEN Seen(n) \cup {slot.i} ELSE Seen(n)
         /\ HasSlot => /\ slot.i \in DOMAIN pm[slot.n].replicas
                       /\ \A j \in DOMAIN pm[slot.n].replicas : j \in Seen(slot.n) <=> j < slot.i
<1>1. /\ pm' = pm /\ slot' = NextSlot /\ slot.n \in DOMAIN pm /\ ByPartition' = ByPartition
      /\ slot \in [n : Nat \ {0}, i : Nat \ {0}] /\ pm \in Seq(Partition)
      /\ DOMAIN pm = 1 .. Len(pm) /\ Len(pm) \in Nat
  BY DEF Visiting, TypeInv, ByPartition, Storage
<1>2. \A n \in DOMAIN pm : pm[n] \in Partition
  BY <1>1
<1>3. \A n \in DOMAIN pm : /\ DOMAIN pm[n].replicas = 1 .. Len(pm[n].replicas)
                           /\ Len(pm[n].replicas) \in Nat
  BY <1>2 DEF Partition
<1>4. HasSlot <=> slot.i \in DOMAIN pm[slot.n].replicas
  BY <1>1, <1>3 DEF HasSlot
<1>5. HasSlot => \A j \in DOMAIN pm[slot.n].replicas : j \in Seen(slot.n) <=> j < slot.i
  BY <1>1, <1>3 DEF Seen
<1>6. ASSUME NEW n \in DOMAIN pm
      PROVE  Seen(n)' = IF n = slot.n /\ HasSlot THEN Seen(n) \cup {slot.i} ELSE Seen(n)
  <2> DEFINE k == slot.n
             i == slot.i
             D == DOMAIN pm[n].replicas
  <2>1. /\ k \in Nat \ {0} /\ i \in Nat \ {0} /\ k \in DOMAIN pm /\ n \in Nat \ {0}
        /\ D \subseteq Nat \ {0}
    BY <1>1, <1>3
  <2>2. n = k => (HasSlot <=> i \in D)
    BY <1>4
  <2>3. CASE ByPartition
    <3>1. Seen(n) = {j \in D : n < k \/ (n = k /\ j < i)}
      BY <2>3 DEF Seen
    <3>2. Seen(n)' = {j \in D : n < slot'.n \/ (n = slot'.n /\ j < slot'.i)}
      BY <1>1, <2>3 DEF Seen
    <3>3. CASE i < Len(pm[k].replicas)
      <4>1. slot'.n = k /\ slot'.i = i + 1
        BY <1>1, <2>3, <3>3 DEF NextSlot
      <4> QED BY <2>1, <2>2, <3>1, <3>2, <4>1
    <3>4. CASE ~(i < Len(pm[k].replicas))
      <4>1. slot'.n = k + 1 /\ slot'.i = 1
        BY <1>1, <2>3, <3>4 DEF NextSlot
      <4>2. n = k => \A j \in D : j <= i
        BY <1>3, <2>1, <3>4
      <4>3. CASE n = k
        <5>1. Seen(n)' = D
          BY <2>1, <3>2, <4>1, <4>3
        <5>2. D = Seen(n) \cup (IF HasSlot THEN {i} ELSE {})
          BY <2>1, <2>2, <3>1, <4>2, <4>3
        <5> QED BY <4>3, <5>1, <5>2
      <4>4. CASE n # k
        BY <2>1, <3>1, <3>2, <4>1, <4>4
      <4> QED BY <4>3, <4>4
    <3> QED BY <3>3, <3>4
  <2>4. CASE ~ByPartition
    <3>1. Seen(n) = {j \in D : j < i \/ (j = i /\ n < k)}
      BY <2>4 DEF Seen
    <3>2. Seen(n)' = {j \in D : j < slot'.i \/ (j = slot'.i /\ n < slot'.n)}
      BY <1>1, <2>4 DEF Seen
    <3>3. CASE k < Len(pm)
      <4>1. slot'.n = k + 1 /\ slot'.i = i
        BY <1>1, <2>4, <3>3 DEF NextSlot
      <4> QED BY <2>1, <2>2, <3>1, <3>2, <4>1
    <3>4. CASE ~(k < Len(pm))
      <4>1. slot'.n = 1 /\ slot'.i = i + 1
        BY <1>1, <2>4, <3>4 DEF NextSlot
      <4>2. n <= k
        BY <1>1, <2>1, <3>4
      <4>3. CASE n = k
        BY <2>1, <2>2, <3>1, <3>2, <4>1, <4>3
      <4>4. CASE n # k
        BY <2>1, <3>1, <3>2, <4>1, <4>2, <4>4
      <4> QED BY <4>3, <4>4
    <3> QED BY <3>3, <3>4
  <2> QED BY <2>3, <2>4
<1> QED BY <1>4, <1>5, <1>6

(* The sets that the placement starts from.                                *)
LEMMA OldSets ==
  ASSUME params \in ParamSets, Cluster, Arranged(pm, Basis), NEW n \in DOMAIN pm
  PROVE  DistinctKept(pm[n].replicas, bmOrig)
<1>1. PICK f \in Bijection(DOMAIN original, DOMAIN original) :
         \A k \in DOMAIN pm : StandsFor(pm[k].replicas, original[f[k]].replicas)
  BY PreparedMap
<1>2. DOMAIN pm = DOMAIN original
  BY PreparedMap
<1>3. f[n] \in DOMAIN original
  BY <1>2 DEF Bijection, Injection
<1>4. StandsFor(pm[n].replicas, original[f[n]].replicas) /\ Distinct(original[f[n]].replicas)
  BY <1>1, <1>3 DEF Cluster, OfKafka
<1>5. StubBrokerID \notin NotReplaced(bmOrig) /\ Offline \notin NotReplaced(bmOrig)
  BY DEF NotReplaced, Real, Cluster, Offline
<1> QED BY <1>4, <1>5 DEF DistinctKept, StandsFor, Distinct

(* Prepare establishes the invariant of the placement.                     *)
LEMMA PlacePrepare ==
  ASSUME TypeInv, Prepare
  PROVE  PlaceInv'
<1> SUFFICES ASSUME pc' = "place" PROVE SetsSoFar' /\ InPlace'
  BY DEF PlaceInv
<1>1. /\ pc = "prepare" /\ slot' = slot
      /\ newMap' = [n \in DOMAIN pm' |-> WithReplicas(pm'[n], <<>>)]
  BY Zenon DEF Prepare
<1>2. slot' = [n |-> 1, i |-> 1]
  BY <1>1 DEF TypeInv, Untouched
<1>3. TypeInv'
  BY TypePrepare
<1>4. pm' \in Seq(Partition)
  BY <1>3 DEF TypeInv
<1>5. ASSUME NEW n \in DOMAIN pm'
      PROVE  newMap'[n].replicas = <<>> /\ Seen(n)' = {}
  <2>1. pm'[n] \in Partition
    BY <1>4, <1>5
  <2>2. newMap'[n].replicas = <<>>
    BY <1>1, <1>5, <2>1 DEF WithReplicas, Partition
  <2>3. DOMAIN pm'[n].replicas \subseteq Nat \ {0} /\ n \in Nat \ {0}
    BY <1>4, <1>5, <2>1 DEF Partition
  <2>4. Seen(n)' = {}
    BY <1>2, <2>3 DEF Seen
  <2> QED BY <2>2, <2>4
<1>6. \A old, b, min : Partial(<<>>, old, {}, b, min) /\ Aligned(<<>>, old)
  BY DEF Partial, Aligned, Spread, Range, IsInjective
<1> HIDE DEF Seen
<1>7. SetsSoFar'
  BY <1>5, <1>6 DEF SetsSoFar
<1>8. InPlace'
  <2>1. DOMAIN <<>> = {}
    OBVIOUS
  <2> QED BY <1>5, <1>6, <2>1 DEF InPlace
<1> QED BY <1>7, <1>8

(* A broker that passes is not in the set, nor among those of the old set  *)
(* that stay, and its rack does not clash.                                 *)
LEMMA PassesSpread ==
  ASSUME SameBrokers, NEW id, Passes(id), slot.n \in DOMAIN pm,
         NEW U, U = Around(newMap[slot.n].replicas, pm[slot.n].replicas, bmOrig),
         Range(newMap[slot.n].replicas) \subseteq NotReplaced(bmOrig)
  PROVE  /\ id \notin U
         /\ bmOrig[id].rack \in RacksOf(U, bmOrig)
              => params.minRackIds > 0 /\ Cardinality(RacksOf(U, bmOrig)) >= params.minRackIds
<1>1. NotReplaced(bm) = NotReplaced(bmOrig) /\ NotReplaced(bmOrig) \subseteq DOMAIN bmOrig
  BY DEF SameBrokers, NotReplaced, Real
<1>2. Constraints.ids = U
  BY <1>1 DEF Constraints, MergeConstraints, Around
<1>3. Constraints.localities = {bm[x].rack : x \in U} \ {NoRack}
  BY <1>1 DEF Constraints, MergeConstraints, Around
<1>4. U \subseteq DOMAIN bmOrig
  BY <1>1 DEF Around
<1>5. {bm[x].rack : x \in U} = {bmOrig[x].rack : x \in U}
  BY <1>4 DEF SameBrokers
<1>6. Constraints.localities = RacksOf(U, bmOrig) /\ bm[id].rack = bmOrig[id].rack
  BY <1>1, <1>3, <1>5 DEF RacksOf, Passes, SameBrokers
<1> QED BY <1>2, <1>6 DEF Passes, passesWithParams

(* Skip, Keep, Replace and LeaveOut preserve the invariant of the          *)
(* placement.                                                              *)
LEMMA PlaceVisit ==
  ASSUME TypeInv, PlaceInv, Skip \/ Keep \/ Replace \/ LeaveOut
  PROVE  PlaceInv'
<1>1. Visiting /\ Cluster /\ SameBrokers /\ Substitutes /\ Placing
  BY VisitStep
<1>2. Skipped \/ Kept \/ LeftOut \/ \E id : Replaced(id)
  BY VisitStep
<1>3. /\ UNCHANGED <<params, pm, bmOrig>> /\ slot.n \in DOMAIN pm /\ params \in ParamSets
      /\ DOMAIN newMap = DOMAIN pm /\ Arranged(pm, Basis) /\ SetsSoFar
      /\ "no brokers" \in warns \/ InPlace
  BY <1>1 DEF Visiting, TypeInv, Prepared, Placing, PlaceInv
<1> PICK k, i : k = slot.n /\ i = slot.i
  OBVIOUS
<1> DEFINE old(n) == pm[n].replicas
           rs(n) == newMap[n].replicas
           min == params.minRackIds
           b == bmOrig
<1>4. /\ \A n \in DOMAIN pm : Seen(n)' = IF n = k /\ HasSlot THEN Seen(n) \cup {i} ELSE Seen(n)
      /\ HasSlot => i \in DOMAIN old(k) /\ \A j \in DOMAIN old(k) : j \in Seen(k) <=> j < i
  BY <1>1, SeenNext
<1>5. min \in Nat
  BY <1>3, InputAssumption
<1>6. \A n \in DOMAIN pm : DistinctKept(old(n), b)
  BY <1>1, <1>3, OldSets
<1>7. b \in [DOMAIN b -> BrokerRecord] /\ NotReplaced(b) \subseteq Nat /\ StubBrokerID \notin NotReplaced(b)
  BY <1>1 DEF Cluster, NotReplaced, Real
<1>8. \A n \in DOMAIN pm : Partial(rs(n), old(n), Seen(n), b, min) /\ Seen(n) \subseteq DOMAIN old(n)
  BY <1>3 DEF SetsSoFar, Seen
<1>9. HasSlot => i \notin Seen(k) /\ i \in Nat
  BY <1>1, <1>4 DEF TypeInv
<1>10. HasSlot /\ InPlace => Len(rs(k)) + 1 = i
  <2> SUFFICES ASSUME HasSlot, InPlace PROVE Len(rs(k)) + 1 = i
    OBVIOUS
  <2>1. rs(k) \in Seq(Int) /\ old(k) \in Seq(Int)
    BY <1>3, <1>6, <1>8 DEF Partial, DistinctKept
  <2>2. \A j \in Nat : j \in 1 .. Len(rs(k)) <=> j \in 1 .. i - 1
    <3>1. DOMAIN rs(k) = Seen(k) /\ DOMAIN rs(k) = 1 .. Len(rs(k))
      <4>1. DOMAIN rs(k) = Seen(k)
        BY <1>3 DEF InPlace
      <4> QED BY <2>1, <4>1
    <3>2. DOMAIN old(k) = 1 .. Len(old(k)) /\ Len(old(k)) \in Nat /\ i \in 1 .. Len(old(k))
      BY <1>4, <2>1
    <3> HIDE DEF rs, old
    <3> QED BY <1>4, <1>8, <1>3, <3>1, <3>2
  <2>3. Len(rs(k)) \in Nat /\ i \in Nat \ {0}
    BY <2>1 DEF TypeInv
  <2> HIDE DEF rs
  <2> QED BY <2>2, <2>3
<1>11. Partial(rs(k), old(k), Seen(k), b, min) /\ rs(k) \in Seq(Int) /\ old(k) \in Seq(Int) /\ k \in DOMAIN pm
  BY <1>3, <1>6, <1>8 DEF Partial, DistinctKept
(* Of the sets only that of the slot changes, and of its positions one.    *)
<1>12. ASSUME UNCHANGED newMap \/ \E id : Appended(id),
              Partial(newMap'[k].replicas, old(k), Seen(k)', b, min)
       PROVE  SetsSoFar'
  <2> SUFFICES ASSUME NEW n \in DOMAIN pm
               PROVE  Partial(newMap'[n].replicas, old(n), Seen(n)', b, min)
    BY <1>3 DEF SetsSoFar
  <2>1. CASE n = k
    BY <1>12, <2>1
  <2>2. CASE n # k
    <3>1. newMap'[n] = newMap[n]
      BY <1>3, <1>12, <2>2 DEF Appended
    <3>2. Seen(n)' = Seen(n)
      BY <1>4, <2>2
    <3> QED BY <1>8, <3>1, <3>2
  <2> QED BY <2>1, <2>2
<1>13. ASSUME UNCHANGED newMap \/ \E id : Appended(id), InPlace,
              DOMAIN newMap'[k].replicas = Seen(k)', Aligned(newMap'[k].replicas, old(k))
       PROVE  InPlace'
  <2> SUFFICES ASSUME NEW n \in DOMAIN pm
               PROVE  DOMAIN newMap'[n].replicas = Seen(n)' /\ Aligned(newMap'[n].replicas, old(n))
    BY <1>3 DEF InPlace
  <2>1. CASE n = k
    BY <1>13, <2>1
  <2>2. CASE n # k
    <3>1. newMap'[n] = newMap[n]
      BY <1>3, <1>13, <2>2 DEF Appended
    <3>2. Seen(n)' = Seen(n)
      BY <1>4, <2>2
    <3> QED BY <1>13, <3>1, <3>2 DEF InPlace
  <2> QED BY <2>1, <2>2
<1>14. CASE Skipped
  <2>1. UNCHANGED <<newMap, warns>> /\ Seen(k)' = Seen(k)
    BY <1>3, <1>4, <1>14 DEF Skipped
  <2>2. SetsSoFar'
    BY <1>11, <1>12, <2>1
  <2>3. InPlace => InPlace'
    BY <1>3, <1>13, <2>1 DEF InPlace
  <2> QED BY <1>3, <2>1, <2>2, <2>3 DEF PlaceInv
<1>15. CASE LeftOut
  <2>1. HasSlot /\ b[bid].replace /\ UNCHANGED newMap /\ "no brokers" \in warns' /\ bid = old(k)[i]
    BY <1>15 DEF LeftOut, bid
  <2>2. Seen(k)' = Seen(k) \cup {i} /\ old(k)[i] \notin NotReplaced(b)
    BY <1>3, <1>4, <2>1 DEF NotReplaced
  <2>3. Partial(rs(k), old(k), Seen(k) \cup {i}, b, min)
    BY <1>11, <2>2, PartialLeave
  <2>4. SetsSoFar'
    BY <1>12, <2>1, <2>2, <2>3
  <2> QED BY <2>1, <2>4 DEF PlaceInv
<1>16. ASSUME HasSlot, NEW id \in NotReplaced(b), Appended(id), UNCHANGED warns,
              id = old(k)[i] \/ id \notin Range(old(k)),
              Partial(Append(rs(k), id), old(k), Seen(k) \cup {i}, b, min)
       PROVE  PlaceInv'
  <2>1. newMap'[k].replicas = Append(rs(k), id) /\ Seen(k)' = Seen(k) \cup {i} /\ id \in Nat
    BY <1>3, <1>4, <1>7, <1>16 DEF Appended
  <2>2. SetsSoFar'
    BY <1>12, <1>16, <2>1
  <2>3. InPlace => InPlace'
    <3> SUFFICES ASSUME InPlace PROVE InPlace'
      OBVIOUS
    <3>1. Len(rs(k)) + 1 = i /\ DOMAIN rs(k) = Seen(k) /\ Aligned(rs(k), old(k))
      BY <1>3, <1>10, <1>16 DEF InPlace
    <3>2. Len(rs(k)) + 1 \in DOMAIN old(k) /\ (id = old(k)[Len(rs(k)) + 1] \/ id \notin Range(old(k)))
      BY <1>4, <1>16, <3>1
    <3>3. Aligned(Append(rs(k), id), old(k))
      <4> HIDE DEF rs, old
      <4> QED BY <1>11, <2>1, <3>1, <3>2, AlignedAppend
    <3>4. DOMAIN Append(rs(k), id) = DOMAIN rs(k) \cup {Len(rs(k)) + 1}
      BY <1>11, <2>1, AppendedSet
    <3> QED BY <1>13, <1>16, <2>1, <3>1, <3>3, <3>4
  <2> QED BY <1>3, <1>16, <2>2, <2>3 DEF PlaceInv
<1>17. CASE Kept
  <2>1. HasSlot /\ bid \in NotReplaced(b) /\ Appended(bid) /\ UNCHANGED warns /\ bid = old(k)[i]
    BY <1>17 DEF Kept, bid
  <2>2. Partial(Append(rs(k), old(k)[i]), old(k), Seen(k) \cup {i}, b, min)
    <3>1. i \in DOMAIN old(k) /\ i \notin Seen(k) /\ Seen(k) \subseteq DOMAIN old(k) /\ DistinctKept(old(k), b)
      BY <1>3, <1>4, <1>6, <1>8, <1>9, <2>1
    <3> HIDE DEF rs, old, b, min
    <3> QED BY <1>11, <2>1, <3>1, PartialKeep
  <2> QED BY <1>16, <2>1, <2>2
<1>18. ASSUME NEW id, Replaced(id)
       PROVE  PlaceInv'
  <2>1. HasSlot /\ b[bid].replace /\ Appended(id) /\ Passes(id) /\ UNCHANGED warns /\ bid = old(k)[i]
    BY <1>18 DEF Replaced, bid
  <2>2. old(k)[i] \notin NotReplaced(b) /\ id \in NotReplaced(b) \cap Nat
    BY <1>7, <2>1 DEF NotReplaced, Passes
  <2>3. Range(rs(k)) \subseteq NotReplaced(b)
    BY <1>11 DEF Partial
  <2>4. /\ id \notin Around(rs(k), old(k), b)
        /\ b[id].rack \in RacksOf(Around(rs(k), old(k), b), b)
             => min > 0 /\ Cardinality(RacksOf(Around(rs(k), old(k), b), b)) >= min
    BY <1>1, <1>11, <2>1, <2>3, PassesSpread
  <2>5. i \in DOMAIN old(k)
    BY <1>4, <2>1
  <2>6. Partial(Append(rs(k), id), old(k), Seen(k) \cup {i}, b, min)
    <3> HIDE DEF rs, old, b, min
    <3> QED BY <1>5, <1>7, <1>11, <2>2, <2>4, <2>5, PartialPlace
  <2>7. id \notin Range(old(k))
    BY <2>2, <2>4 DEF Around
  <2> QED BY <1>16, <2>1, <2>2, <2>6, <2>7
<1> QED BY <1>2, <1>14, <1>15, <1>17, <1>18

-----------------------------------------------------------------------------
(* When the placement ends.                                                *)

(* The visits to the set n that came after its last position.              *)
Extra(n) ==
    LET visits == IF n < slot.n THEN slot.i ELSE slot.i - 1
    IN  IF Len(pm[n].replicas) < visits THEN visits - Len(pm[n].replicas) ELSE 0
Extras == [n \in DOMAIN pm |-> Extra(n)]
SkipInv == pc = "place" /\ ~ByPartition => skipped = SumFunctionOnSet(Extras, DOMAIN pm)

(* The visits beyond the end of each replica set can be counted.           *)
LEMMA ExtrasTypes ==
  ASSUME pm \in Seq(Partition), slot \in [n : Nat \ {0}, i : Nat \ {0}]
  PROVE  /\ IsFiniteSet(DOMAIN pm) /\ DOMAIN Extras = DOMAIN pm
         /\ \A n \in DOMAIN pm : /\ Extras[n] = Extra(n) /\ Extra(n) \in Nat
                                 /\ Len(pm[n].replicas) \in Nat /\ n \in Nat \ {0}
<1>1. IsFiniteSet(DOMAIN pm) /\ DOMAIN pm = 1 .. Len(pm) /\ Len(pm) \in Nat
  BY SequenceRange
<1>2. \A n \in DOMAIN pm : pm[n] \in Partition
  OBVIOUS
<1>3. \A n \in DOMAIN pm : Len(pm[n].replicas) \in Nat /\ n \in Nat \ {0}
  BY <1>1, <1>2 DEF Partition
<1>4. \A n \in DOMAIN pm : Extra(n) \in Nat
  BY <1>3 DEF Extra
<1> QED BY <1>1, <1>3, <1>4 DEF Extras

(* Prepare establishes the count of skipped replicas.                      *)
LEMMA SkipPrepare ==
  ASSUME TypeInv, Prepare
  PROVE  SkipInv'
<1> SUFFICES ASSUME pc' = "place" PROVE (skipped = SumFunctionOnSet(Extras, DOMAIN pm))'
  BY DEF SkipInv
<1>1. pc = "prepare" /\ slot' = slot /\ skipped' = skipped
  BY Zenon DEF Prepare
<1>2. slot' = [n |-> 1, i |-> 1] /\ skipped' = 0
  BY <1>1 DEF TypeInv, Untouched
<1>3. TypeInv'
  BY TypePrepare
<1>4. pm' \in Seq(Partition)
  BY <1>3 DEF TypeInv
<1>5. IsFiniteSet(DOMAIN pm') /\ DOMAIN pm' = 1 .. Len(pm') /\ Len(pm') \in Nat
  BY <1>4, SequenceRange
<1>6. \A n \in DOMAIN pm' : pm'[n] \in Partition
  BY <1>4
<1>7. \A n \in DOMAIN pm' : Extras'[n] = 0
  <2>1. \A n \in DOMAIN pm' : Len(pm'[n].replicas) \in Nat /\ n \in Nat \ {0}
    BY <1>5, <1>6 DEF Partition
  <2> QED BY <1>2, <2>1 DEF Extras, Extra
<1>8. SumFunctionOnSet(Extras', DOMAIN pm') = 0
  BY <1>5, <1>7, SumZero
<1> QED BY <1>2, <1>8

(* Skip, Keep, Replace and LeaveOut preserve the count of skipped          *)
(* replicas.                                                               *)
LEMMA SkipVisit ==
  ASSUME TypeInv, SkipInv, Skip \/ Keep \/ Replace \/ LeaveOut
  PROVE  SkipInv'
<1>1. Visiting /\ Placing
  BY VisitStep
<1>2. Skipped \/ Kept \/ LeftOut \/ \E id : Replaced(id)
  BY VisitStep
<1>3. /\ pc = "place" /\ pc' = pc /\ pm' = pm /\ slot' = NextSlot /\ slot.n \in DOMAIN pm
      /\ ByPartition' = ByPartition
  BY <1>1 DEF Visiting, ByPartition, Storage
<1> SUFFICES ASSUME ~ByPartition PROVE skipped' = SumFunctionOnSet(Extras', DOMAIN pm)
  BY <1>3 DEF SkipInv
<1>4. /\ pm \in Seq(Partition) /\ slot \in [n : Nat \ {0}, i : Nat \ {0}] /\ skipped \in Nat
      /\ DOMAIN pm = 1 .. Len(pm) /\ Len(pm) \in Nat
  BY DEF TypeInv
<1> PICK k, i : k = slot.n /\ i = slot.i
  OBVIOUS
<1> DEFINE D == DOMAIN pm
           w == Extras
           v == Extras'
           one == IF HasSlot THEN 0 ELSE 1
<1>5. /\ IsFiniteSet(D) /\ k \in D
      /\ \A n \in D : w[n] = Extra(n) /\ w[n] \in Nat /\ Len(pm[n].replicas) \in Nat /\ n \in Nat \ {0}
  BY <1>3, <1>4, ExtrasTypes
<1>6. TypeInv'
  BY TypeVisit
<1>7. slot' \in [n : Nat \ {0}, i : Nat \ {0}]
  BY <1>6 DEF TypeInv
<1>8. \A n \in D : v[n] = Extra(n)'
  BY <1>3 DEF Extras
<1>9. slot' = IF k < Len(pm) THEN [n |-> k + 1, i |-> i] ELSE [n |-> 1, i |-> i + 1]
  <2>1. [slot EXCEPT !.n = @ + 1] = [n |-> k + 1, i |-> i]
    BY <1>4
  <2> QED BY <1>3, <2>1 DEF NextSlot
<1>10. HasSlot <=> i <= Len(pm[k].replicas)
  BY <1>4, <1>5 DEF HasSlot
<1>11. v[k] = w[k] + one
  <2>1. w[k] = IF Len(pm[k].replicas) < i - 1 THEN i - 1 - Len(pm[k].replicas) ELSE 0
    BY <1>4, <1>5 DEF Extra
  <2>2. v[k] = IF Len(pm[k].replicas) < i THEN i - Len(pm[k].replicas) ELSE 0
    <3>1. CASE k < Len(pm)
      BY <1>3, <1>4, <1>5, <1>8, <1>9, <3>1 DEF Extra
    <3>2. CASE ~(k < Len(pm))
      BY <1>3, <1>4, <1>5, <1>8, <1>9, <3>2 DEF Extra
    <3> QED BY <3>1, <3>2
  <2> HIDE DEF w, v
  <2> QED BY <1>4, <1>5, <1>10, <2>1, <2>2
<1>12. ASSUME NEW n \in D, n # k
       PROVE  v[n] = w[n]
  <2> DEFINE visits == IF n < k THEN i ELSE i - 1
  <2>1. w[n] = IF Len(pm[n].replicas) < visits THEN visits - Len(pm[n].replicas) ELSE 0
    BY <1>5 DEF Extra
  <2>2. (IF n < slot'.n THEN slot'.i ELSE slot'.i - 1) = visits
    <3>1. CASE k < Len(pm)
      BY <1>4, <1>5, <1>9, <1>12, <3>1
    <3>2. CASE ~(k < Len(pm))
      BY <1>4, <1>5, <1>9, <1>12, <3>2
    <3> QED BY <3>1, <3>2
  <2> HIDE DEF visits
  <2>3. v[n] = IF Len(pm[n].replicas) < visits THEN visits - Len(pm[n].replicas) ELSE 0
    BY <1>3, <1>8, <2>2 DEF Extra
  <2> QED BY <2>1, <2>3
<1>13. \A n \in D : w[n] \in Int /\ v[n] \in Int
  BY <1>5, <1>11, <1>12
<1> HIDE DEF w, v
<1>14. /\ SumFunctionOnSet(w, D) = w[k] + SumFunctionOnSet(w, D \ {k})
       /\ SumFunctionOnSet(v, D) = v[k] + SumFunctionOnSet(v, D \ {k})
  BY <1>5, <1>13, SumRemove
<1>15. IsFiniteSet(D \ {k}) /\ \A n \in D \ {k} : w[n] = v[n] /\ w[n] \in Int
  BY <1>5, <1>12, FS_RemoveElement
<1>16. /\ SumFunctionOnSet(w, D \ {k}) = SumFunctionOnSet(v, D \ {k})
       /\ SumFunctionOnSet(w, D \ {k}) \in Int
  BY <1>15, SumEqual, SumRemove
<1>17. skipped' = skipped + one
  <2>1. CASE HasSlot
    <3>1. skipped' = skipped
      BY <1>2, <2>1 DEF Skipped, Kept, LeftOut, Replaced
    <3> QED BY <1>4, <2>1, <3>1
  <2>2. CASE ~HasSlot
    <3>1. skipped' = skipped + 1
      BY <1>2, <2>2 DEF Skipped, Kept, LeftOut, Replaced
    <3> QED BY <2>2, <3>1
  <2> QED BY <2>1, <2>2
<1>18. skipped = SumFunctionOnSet(w, D)
  BY <1>3 DEF SkipInv, w
<1>19. skipped' = SumFunctionOnSet(v, D)
  <2>1. one \in Int
    OBVIOUS
  <2> HIDE DEF one
  <2> QED BY <1>5, <1>11, <1>13, <1>14, <1>16, <1>17, <1>18, <2>1
<1> QED BY <1>19 DEF v

(* Every position has been visited at the end.                             *)
LEMMA AllSeen ==
  ASSUME TypeInv, SkipInv, pc = "place", Placed, AllVisited, NEW n \in DOMAIN pm
  PROVE  Seen(n) = DOMAIN pm[n].replicas
<1>1. /\ pm \in Seq(Partition) /\ slot \in [n : Nat \ {0}, i : Nat \ {0}] /\ skipped \in Nat
      /\ DOMAIN pm = 1 .. Len(pm) /\ Len(pm) \in Nat /\ n \in Nat
  BY DEF TypeInv
<1>2. CASE ByPartition
  <2>1. n < slot.n
    BY <1>1, <1>2 DEF Placed
  <2> QED BY <1>2, <2>1 DEF Seen
<1>3. CASE ~ByPartition
  <2> PICK i : i = slot.i
    OBVIOUS
  <2>1. slot.n = 1 /\ skipped >= Len(pm) /\ i \in Nat \ {0} /\ skipped = SumFunctionOnSet(Extras, DOMAIN pm)
    BY <1>1, <1>3 DEF Placed, SkipInv
  <2>2. Len(pm[n].replicas) \in Nat /\ DOMAIN pm[n].replicas = 1 .. Len(pm[n].replicas)
    <3>1. pm[n] \in Partition
      BY <1>1
    <3> QED BY <3>1 DEF Partition
  <2>3. Excess(i - 1) = SumFunctionOnSet(Extras, DOMAIN pm)
    <3> DEFINE e == [x \in DOMAIN pm |-> IF Len(pm[x].replicas) < i - 1 THEN i - 1 - Len(pm[x].replicas) ELSE 0]
    <3>1. Excess(i - 1) = SumFunctionOnSet(e, DOMAIN pm)
      BY DEF Excess, SumFunction
    <3>2. \A x \in DOMAIN pm : Extras[x] = e[x]
      BY <1>1, <2>1 DEF Extras, Extra
    <3>3. IsFiniteSet(DOMAIN pm)
      BY <1>1, SequenceRange
    <3> HIDE DEF e
    <3>4. SumFunctionOnSet(Extras, DOMAIN pm) = SumFunctionOnSet(e, DOMAIN pm)
      BY <3>2, <3>3, SumEqual
    <3> QED BY <3>1, <3>4
  <2>4. i > Len(pm[n].replicas)
    <3> SUFFICES ASSUME i <= Len(pm[n].replicas) PROVE FALSE
      BY <2>1, <2>2
    <3>1. CASE i = 1
      <4>1. \A x \in DOMAIN pm : Extras[x] = 0
        <5>1. \A x \in DOMAIN pm : Extras[x] = Extra(x) /\ Len(pm[x].replicas) \in Nat /\ x \in Nat \ {0}
          BY <1>1, ExtrasTypes
        <5>2. slot.n = 1 /\ slot.i = 1
          BY <2>1, <3>1
        <5> SUFFICES ASSUME NEW x \in DOMAIN pm PROVE Extra(x) = 0
          BY <5>1
        <5>3. ~(x < slot.n) /\ ~(Len(pm[x].replicas) < slot.i - 1)
          BY <5>1, <5>2
        <5> QED BY <5>3 DEF Extra
      <4>2. IsFiniteSet(DOMAIN pm)
        BY <1>1, SequenceRange
      <4>3. skipped = 0
        BY <2>1, <4>1, <4>2, SumZero
      <4> QED BY <1>1, <2>1, <4>3
    <3>2. CASE i # 1
      <4>1. i - 1 \in 1 .. Len(pm[n].replicas) - 1
        BY <2>1, <2>2, <3>2
      <4>2. Excess(i - 1) < Len(pm)
        BY <1>3, <4>1 DEF AllVisited
      <4> QED BY <1>1, <2>1, <2>3, <4>2
    <3> QED BY <3>1, <3>2
  <2>5. \A j \in DOMAIN pm[n].replicas : j < slot.i
    BY <2>1, <2>2, <2>4
  <2> QED BY <1>3, <2>5 DEF Seen
<1> QED BY <1>2, <1>3

-----------------------------------------------------------------------------
(* The sets of the map that is built.                                      *)

(* A partition occurs once in Kafka's map.                                 *)
LEMMA UniqueNames ==
  ASSUME NEW m, OfKafka(m), NEW i \in DOMAIN m, NEW j \in DOMAIN m, SamePartition(m[i], m[j])
  PROVE  i = j
<1>1. DOMAIN m \subseteq Nat /\ m[i] \in Partition /\ m[j] \in Partition
  BY DEF OfKafka
<1>2. m[i].topic \in Nat /\ m[j].topic \in Nat /\ m[i].partition \in Nat /\ m[j].partition \in Nat
  BY <1>1 DEF Partition
<1>3. ~ByName(m[i], m[j]) /\ ~ByName(m[j], m[i])
  BY <1>2 DEF ByName, SamePartition
<1>4. ~(i < j) /\ ~(j < i)
  BY <1>3 DEF OfKafka, InNameOrder
<1> QED BY <1>1, <1>4

Good(rs, old, b, min) ==
    /\ rs \in Seq(Int) /\ IsInjective(rs) /\ Range(rs) \subseteq NotReplaced(b)
    /\ Spread(rs, old, b, min)

(* A good replica set stays good in any order.                             *)
LEMMA ArrangedGood ==
  ASSUME NEW rs, NEW old, NEW b, NEW min, Good(rs, old, b, min), NEW t, Arranged(t, rs)
  PROVE  Good(t, old, b, min) /\ Range(t) = Range(rs) /\ Len(t) = Len(rs)
<1>1. t \in Seq(Int) /\ IsInjective(t) /\ Range(t) = Range(rs) /\ Len(t) = Len(rs)
  BY ArrangedSequence DEF Good
<1> QED BY <1>1 DEF Good, Spread, Around

(* No broker twice, only ones that stay, no clash of racks; and if all     *)
(* positions have been visited, every broker that stays, and a replica for *)
(* every position unless one was left out.                                 *)
SetsGood(m) ==
    \A n \in DOMAIN original :
        /\ Good(m[n].replicas, Basis[n].replicas, bmOrig, params.minRackIds)
        /\ AllVisited => Range(Basis[n].replicas) \cap NotReplaced(bmOrig) \subseteq Range(m[n].replicas)
        /\ AllVisited /\ "no brokers" \notin warns => Len(m[n].replicas) = Len(Basis[n].replicas)
SetsAligned(m) == \A n \in DOMAIN original : Aligned(m[n].replicas, Basis[n].replicas)

SetInv ==
    /\ pc = "optimize" => params.optimizeLeadership
    /\ pc \in {"optimize", "conclude"} =>
         /\ SetsGood(newMap)
         /\ \/ params.optimizeLeadership \/ ByPartition \/ "no brokers" \in warns
            \/ SetsAligned(newMap)

(* Whether all replicas are visited depends on the parameters and the map  *)
(* only.                                                                   *)
LEMMA VisitedFrame ==
  ASSUME UNCHANGED <<params, pm>>
  PROVE  AllVisited' = AllVisited /\ ByPartition' = ByPartition
BY DEF AllVisited, ByPartition, Storage, Excess

(* Sets that are put in another order are as good.                         *)
LEMMA GoodFrame ==
  ASSUME NEW m, SetsGood(m), NEW x, UNCHANGED <<params, pm, original, bmOrig>>, Basis' = Basis,
         warns \subseteq warns',
         \A n \in DOMAIN original : Arranged(x[n].replicas, m[n].replicas)
  PROVE  /\ \A n \in DOMAIN original' :
              /\ Good(x[n].replicas, Basis'[n].replicas, bmOrig', params'.minRackIds)
              /\ AllVisited' => Range(Basis'[n].replicas) \cap NotReplaced(bmOrig') \subseteq Range(x[n].replicas)
              /\ AllVisited' /\ "no brokers" \notin warns' => Len(x[n].replicas) = Len(Basis'[n].replicas)
<1>1. AllVisited' = AllVisited
  BY VisitedFrame
<1>2. \A n \in DOMAIN original :
        /\ Good(x[n].replicas, Basis[n].replicas, bmOrig, params.minRackIds)
        /\ Range(x[n].replicas) = Range(m[n].replicas) /\ Len(x[n].replicas) = Len(m[n].replicas)
  BY ArrangedGood DEF SetsGood
<1>3. "no brokers" \notin warns' => "no brokers" \notin warns
  OBVIOUS
<1> HIDE DEF AllVisited
<1> QED BY <1>1, <1>2, <1>3 DEF SetsGood

(* Sorting by name brings every set back to the place of the one it is     *)
(* built from.                                                             *)
LEMMA PlacesRestored ==
  ASSUME pc' \in {"optimize", "conclude"}, params \in ParamSets, Cluster, Placing, Built',
         original' = original, Arranged(pm, Basis), NEW g, Reshuffled(newMap', newMap, g)
  PROVE  /\ DOMAIN pm = DOMAIN original /\ DOMAIN newMap = DOMAIN original
         /\ \A n \in DOMAIN newMap : g[n] \in DOMAIN pm /\ Basis[n].replicas = pm[g[n]].replicas
<1>1. PICK f \in Bijection(DOMAIN original, DOMAIN original) :
         \A n \in DOMAIN pm : pm[n] = Basis[f[n]] /\ SamePartition(pm[n], original[f[n]])
  BY PreparedMap
<1>2. DOMAIN pm = DOMAIN original /\ DOMAIN newMap = DOMAIN original
  BY PreparedMap DEF Placing
<1>3. ASSUME NEW n \in DOMAIN original
      PROVE  g[n] \in DOMAIN pm /\ Basis[n].replicas = pm[g[n]].replicas
  <2>1. g[n] \in DOMAIN original
    BY <1>2 DEF Reshuffled, Bijection, Injection
  <2>2. SamePartition(newMap'[n], newMap[g[n]])
    BY <1>2 DEF Reshuffled
  <2>3. SamePartition(newMap'[n], original[n])
    BY DEF Built
  <2>4. SamePartition(newMap[g[n]], pm[g[n]]) /\ SamePartition(pm[g[n]], original[f[g[n]]])
    BY <1>1, <1>2, <2>1 DEF Placing
  <2>5. f[g[n]] \in DOMAIN original
    BY <2>1 DEF Bijection, Injection
  <2>6. SamePartition(original[n], original[f[g[n]]])
    BY <2>2, <2>3, <2>4 DEF SamePartition
  <2>7. f[g[n]] = n
    BY <2>5, <2>6, UniqueNames DEF Cluster
  <2> QED BY <1>1, <1>2, <2>1, <2>7
<1> QED BY <1>2, <1>3

(* EndPlacement establishes the invariant of the replica sets.             *)
LEMMA SetEnd ==
  ASSUME TypeInv, PlaceInv, SkipInv, EndPlacement
  PROVE  SetInv'
<1>1. /\ pc = "place" /\ Placed
      /\ UNCHANGED <<params, original, pm, bm, bmOrig>> /\ warns \subseteq warns'
  BY EndStep
<1>2. PICK g : Reshuffled(newMap', newMap, g)
  BY EndStep
<1>3. TypeInv' /\ pc' \in {"optimize", "conclude"}
  BY TypeEndPlacement, EndStep
<1>4. /\ Cluster /\ Placing /\ Arranged(pm, Basis) /\ params \in ParamSets /\ Built'
      /\ SetsSoFar /\ ("no brokers" \in warns \/ InPlace)
  BY <1>1, <1>3 DEF TypeInv, Prepared, PlaceInv
<1>5. Basis' = Basis
  BY <1>1, <1>4, ClusterFrame
<1>6. AllVisited' = AllVisited /\ ByPartition' = ByPartition
  BY <1>1, VisitedFrame
<1>8. /\ DOMAIN pm = DOMAIN original /\ DOMAIN newMap = DOMAIN original
      /\ \A n \in DOMAIN newMap : g[n] \in DOMAIN pm /\ Basis[n].replicas = pm[g[n]].replicas
  BY <1>1, <1>2, <1>3, <1>4, PlacesRestored
<1> DEFINE rs(n) == newMap[g[n]].replicas
           t(n) == newMap'[n].replicas
           old(n) == Basis[n].replicas
           b == bmOrig
           min == params.minRackIds
<1>9. ASSUME NEW n \in DOMAIN original
      PROVE  /\ g[n] \in DOMAIN pm /\ pm[g[n]].replicas = old(n)
             /\ Arranged(t(n), rs(n)) /\ (ByPartition \/ t(n) = rs(n))
  BY <1>2, <1>8 DEF Reshuffled
<1>10. ASSUME NEW n \in DOMAIN original
       PROVE  Partial(rs(n), old(n), Seen(g[n]), b, min)
  BY <1>4, <1>9 DEF SetsSoFar
<1>11. ASSUME NEW n \in DOMAIN original
       PROVE  Good(t(n), old(n), b, min) /\ Range(t(n)) = Range(rs(n)) /\ Len(t(n)) = Len(rs(n))
  <2>1. Good(rs(n), old(n), b, min)
    BY <1>10 DEF Partial, Good
  <2> QED BY <1>9, <2>1, ArrangedGood
<1>12. ASSUME NEW n \in DOMAIN original, AllVisited
       PROVE  Seen(g[n]) = DOMAIN old(n)
  <2>1. g[n] \in DOMAIN pm
    BY <1>9
  <2> HIDE DEF Seen, AllVisited, Placed, SkipInv
  <2>2. Seen(g[n]) = DOMAIN pm[g[n]].replicas
    BY <1>1, <1>12, <2>1, AllSeen
  <2> QED BY <1>9, <2>2
<1>13. ASSUME NEW n \in DOMAIN original, AllVisited
       PROVE  Range(old(n)) \cap NotReplaced(b) \subseteq Range(t(n))
  <2>1. \A i \in DOMAIN old(n) : old(n)[i] \in NotReplaced(b) => old(n)[i] \in Range(rs(n))
    BY <1>10, <1>12, <1>13 DEF Partial
  <2> QED BY <1>11, <2>1 DEF Range
<1>14. ASSUME NEW n \in DOMAIN original, InPlace
       PROVE  Aligned(rs(n), old(n)) /\ (AllVisited => Len(t(n)) = Len(old(n)))
  <2>1. DOMAIN rs(n) = Seen(g[n]) /\ Aligned(rs(n), old(n))
    BY <1>9, <1>14 DEF InPlace
  <2>2. rs(n) \in Seq(Int) /\ old(n) \in Seq(Int)
    <3>1. pm[g[n]] \in Partition
      <4>1. pm \in Seq(Partition)
        BY DEF TypeInv
      <4> QED BY <1>9, <4>1
    <3> QED BY <1>9, <1>10, <3>1 DEF Partial, Partition
  <2>3. AllVisited => Len(t(n)) = Len(old(n))
    <3> SUFFICES ASSUME AllVisited PROVE Len(t(n)) = Len(old(n))
      OBVIOUS
    <3>1. DOMAIN rs(n) = DOMAIN old(n)
      BY <1>12, <2>1
    <3>2. Len(rs(n)) = Len(old(n))
      <4> HIDE DEF rs, old
      <4> QED BY <2>2, <3>1
    <3> QED BY <1>11, <3>2
  <2> QED BY <2>1, <2>3
<1> HIDE DEF AllVisited
<1>15. SetsGood(newMap)'
  <2>1. \A n \in DOMAIN original :
          /\ Good(t(n), old(n), b, min)
          /\ AllVisited => Range(old(n)) \cap NotReplaced(b) \subseteq Range(t(n))
          /\ AllVisited /\ "no brokers" \notin warns => Len(t(n)) = Len(old(n))
    BY <1>4, <1>11, <1>13, <1>14
  <2> HIDE DEF Good
  <2> QED BY <1>1, <1>5, <1>6, <2>1 DEF SetsGood
<1>16. ByPartition \/ "no brokers" \in warns' \/ SetsAligned(newMap)'
  <2> SUFFICES ASSUME ~ByPartition, "no brokers" \notin warns' PROVE SetsAligned(newMap)'
    OBVIOUS
  <2>1. InPlace
    BY <1>1, <1>4
  <2>2. \A n \in DOMAIN original : Aligned(t(n), old(n))
    BY <1>9, <1>14, <2>1
  <2> QED BY <1>1, <1>5, <2>2 DEF SetsAligned
<1>17. pc' = "optimize" => params'.optimizeLeadership
  BY <1>1, Zenon DEF EndPlacement
<1> QED BY <1>6, <1>15, <1>16, <1>17 DEF SetInv

(* Optimize preserves the invariant of the replica sets.                   *)
LEMMA SetOptimize ==
  ASSUME TypeInv, SetInv, Optimize
  PROVE  SetInv'
<1>1. /\ pc = "optimize" /\ params.optimizeLeadership
      /\ UNCHANGED <<params, original, pm, bm, bmOrig, warns>>
  BY DEF Optimize, brokers, SetInv
<1>2. SetsGood(newMap) /\ Cluster /\ Built /\ newMap \in Seq(Partition)
  BY <1>1 DEF SetInv, TypeInv
<1>3. \A n \in DOMAIN original : Arranged(newMap'[n].replicas, newMap[n].replicas)
  <2>1. \A n \in DOMAIN newMap : newMap[n].replicas \in Seq(Int)
    <3>1. \A n \in DOMAIN newMap : newMap[n] \in Partition
      BY <1>2
    <3> QED BY <3>1 DEF Partition
  <2>2. DOMAIN newMap = DOMAIN original
    BY <1>2 DEF Built
  <2>3. CASE UNCHANGED newMap
    BY <2>1, <2>2, <2>3, ArrangedSame
  <2>4. CASE newMap # <<>> /\ newMap' \in OptimizeLeaderFollower(newMap, slot.n)
    <3>1. slot.n \in Nat \ {0} /\ slot.n <= Len(newMap)
      BY <1>1, <2>4 DEF TypeInv
    <3>2. slot.n \in DOMAIN newMap
      BY <1>2, <3>1
    <3> QED BY <1>2, <2>2, <2>4, <3>2, OptimizeStep
  <2> QED BY <2>3, <2>4, Zenon DEF Optimize
<1>4. Basis' = Basis
  BY <1>1, <1>2, ClusterFrame
<1>5. \A n \in DOMAIN original' :
        /\ Good(newMap'[n].replicas, Basis'[n].replicas, bmOrig', params'.minRackIds)
        /\ AllVisited' => Range(Basis'[n].replicas) \cap NotReplaced(bmOrig') \subseteq Range(newMap'[n].replicas)
        /\ AllVisited' /\ "no brokers" \notin warns' => Len(newMap'[n].replicas) = Len(Basis'[n].replicas)
  BY <1>1, <1>2, <1>3, <1>4, GoodFrame
<1>6. SetsGood(newMap)'
  <2> HIDE DEF Good, AllVisited
  <2> QED BY <1>5 DEF SetsGood
<1> QED BY <1>1, <1>6 DEF SetInv

-----------------------------------------------------------------------------
(* The phases and the chunks.                                              *)

(* The first phase keeps the leader of every set.                          *)
Phased(p, m) ==
    /\ p \in Seq(Partition) /\ DOMAIN p = DOMAIN original
    /\ \A n \in DOMAIN original :
         LET leader == original[n].replicas[1]
         IN  /\ SamePartition(p[n], m[n])
             /\ Range(p[n].replicas) = {leader} \cup Range(m[n].replicas)
             /\ IsInjective(m[n].replicas) => IsInjective(p[n].replicas)
             /\ leader \in Range(m[n].replicas) => p[n] = m[n]

(* phasedReassignment adds its leader to each set that lost it, and        *)
(* nothing else.                                                           *)
LEMMA PhasedMap ==
  ASSUME OfKafka(original), NEW m \in Seq(Partition), DOMAIN m = DOMAIN original
  PROVE  Phased(phasedReassignment(original, m), m)
<1> DEFINE p == phasedReassignment(original, m)
           leader(n) == original[n].replicas[1]
           f == [n \in DOMAIN m |-> IF leader(n) \in Range(m[n].replicas) THEN m[n].replicas
                                    ELSE <<leader(n)>> \o m[n].replicas]
<1>1. \A n \in DOMAIN m : m[n] \in Partition
  OBVIOUS
<1>2. \A n \in DOMAIN m : m[n].replicas \in Seq(Int)
  BY <1>1 DEF Partition
<1>3. ASSUME NEW n \in DOMAIN m
      PROVE  leader(n) \in Int
  <2>1. original[n] \in Partition /\ original[n].replicas # <<>>
    BY DEF OfKafka
  <2>2. original[n].replicas \in Seq(Int)
    BY <2>1 DEF Partition
  <2> QED BY <2>1, <2>2
<1>4. p = [n \in DOMAIN m |-> WithReplicas(m[n], f[n])]
  <2>1. \A n \in DOMAIN m : WithReplicas(m[n], m[n].replicas) = m[n]
    BY <1>1 DEF WithReplicas, Partition
  <2> QED BY <2>1 DEF phasedReassignment
<1>5. ASSUME NEW n \in DOMAIN m
      PROVE  /\ f[n] \in Seq(Int) /\ Range(f[n]) = {leader(n)} \cup Range(m[n].replicas)
             /\ IsInjective(m[n].replicas) => IsInjective(f[n])
  <2>1. CASE leader(n) \in Range(m[n].replicas)
    BY <1>2, <2>1
  <2>2. CASE leader(n) \notin Range(m[n].replicas)
    <3> DEFINE x == leader(n)
               rs == m[n].replicas
               t == <<x>> \o rs
    <3>1. x \in Int /\ rs \in Seq(Int) /\ x \notin Range(rs) /\ f[n] = t
      BY <1>2, <1>3, <2>2
    <3> HIDE DEF x, rs, f
    <3>2. /\ t \in Seq(Int) /\ DOMAIN t = 1 .. Len(rs) + 1 /\ t[1] = x /\ Len(rs) \in Nat
          /\ DOMAIN rs = 1 .. Len(rs) /\ \A j \in 1 .. Len(rs) : t[j + 1] = rs[j]
      BY <3>1
    <3> HIDE DEF t
    <3>3. \A j \in DOMAIN t : j = 1 \/ (j - 1 \in DOMAIN rs /\ t[j] = rs[j - 1])
      BY <3>2
    <3>4. Range(t) = {x} \cup Range(rs)
      <4>1. \A v \in Range(t) : v = x \/ v \in Range(rs)
        BY <3>2, <3>3 DEF Range
      <4>2. x \in Range(t)
        BY <3>2 DEF Range
      <4>3. \A v \in Range(rs) : v \in Range(t)
        <5>1. \A j \in DOMAIN rs : j + 1 \in DOMAIN t /\ t[j + 1] = rs[j]
          BY <3>2
        <5> QED BY <5>1 DEF Range
      <4> QED BY <4>1, <4>2, <4>3
    <3>5. IsInjective(rs) => IsInjective(t)
      <4> SUFFICES ASSUME IsInjective(rs), NEW i \in DOMAIN t, NEW j \in DOMAIN t, t[i] = t[j]
                   PROVE  i = j
        BY DEF IsInjective
      <4>1. CASE i = 1 /\ j = 1
        BY <4>1
      <4>2. CASE i # 1 /\ j # 1
        <5>1. i - 1 = j - 1
          BY <3>3, <4>2 DEF IsInjective
        <5> QED BY <3>2, <5>1
      <4>3. CASE i = 1 /\ j # 1
        BY <3>1, <3>2, <3>3, <4>3 DEF Range
      <4>4. CASE i # 1 /\ j = 1
        BY <3>1, <3>2, <3>3, <4>4 DEF Range
      <4> QED BY <4>1, <4>2, <4>3, <4>4
    <3> QED BY <3>1, <3>2, <3>4, <3>5 DEF x, rs
  <2> QED BY <2>1, <2>2
<1>6. \A n \in DOMAIN m : leader(n) \in Range(m[n].replicas) => p[n] = m[n]
  BY DEF phasedReassignment
<1> HIDE DEF f, p
<1>7. \A n \in DOMAIN m : f[n] \in Seq(Int)
  BY <1>5
<1>8. /\ p \in Seq(Partition) /\ DOMAIN p = DOMAIN m
      /\ \A n \in DOMAIN m : SamePartition(p[n], m[n]) /\ p[n].replicas = f[n]
  BY <1>4, <1>7, MapWithReplicas
<1>9. Phased(p, m)
  BY <1>5, <1>6, <1>8 DEF Phased
<1> QED BY <1>9 DEF p

(* The positions of a set that changing the replication leaves.            *)
LEMMA ResizedPrefix ==
  ASSUME NEW m \in Seq(Partition), NEW r \in Nat, NEW n \in DOMAIN m,
         NEW i \in DOMAIN SetReplication(m, r)[n].replicas \cap DOMAIN m[n].replicas
  PROVE  SetReplication(m, r)[n].replicas[i] = m[n].replicas[i]
<1> DEFINE rs == m[n].replicas
           t == IF Len(rs) >= r THEN SubSeq(rs, 1, r) ELSE rs \o Stubs(r - Len(rs))
<1>1. m[n] \in Partition
  OBVIOUS
<1>2. rs \in Seq(Int)
  BY <1>1 DEF Partition
<1>3. CASE r = 0
  BY <1>3 DEF SetReplication
<1>4. CASE r # 0
  <2>1. SetReplication(m, r)[n].replicas = t
    BY <1>1, <1>4 DEF SetReplication, WithReplicas, Partition
  <2> HIDE DEF rs
  <2>2. CASE Len(rs) >= r
    <3>1. t = SubSeq(rs, 1, r) /\ i \in DOMAIN t /\ i \in DOMAIN rs
      BY <2>1, <2>2 DEF rs
    <3> HIDE DEF t
    <3>2. t[i] = rs[i]
      BY <1>2, <2>2, <3>1
    <3> QED BY <2>1, <3>2 DEF rs
  <2>3. CASE Len(rs) < r
    <3> DEFINE st == Stubs(r - Len(rs))
    <3>1. r - Len(rs) \in Nat
      BY <1>2, <2>3
    <3>2. st \in Seq(Int)
      BY <3>1, StubsSequence
    <3>3. t = rs \o st /\ i \in DOMAIN rs
      <4>1. ~(Len(rs) >= r)
        BY <1>2, <2>3
      <4>2. t = rs \o st
        BY <4>1
      <4> QED BY <4>2 DEF rs
    <3> HIDE DEF t, st
    <3>4. t[i] = rs[i]
      BY <1>2, <3>2, <3>3
    <3> QED BY <2>1, <3>4 DEF rs
  <2> QED BY <1>2, <2>2, <2>3
<1> QED BY <1>3, <1>4

(* A set some positions of which have been moved to those of x.            *)
LEMMA MixedInjective ==
  ASSUME NEW s \in Seq(Int), NEW base \in Seq(Int), NEW x \in Seq(Int), NEW old,
         IsInjective(base), IsInjective(x), Aligned(x, old), Len(s) = Len(base),
         \A j \in DOMAIN base : s[j] = base[j] \/ (Len(x) = Len(base) /\ s[j] = x[j]),
         \A j \in DOMAIN old \cap DOMAIN base : old[j] = base[j]
  PROVE  IsInjective(s)
<1> SUFFICES ASSUME NEW i \in DOMAIN s, NEW j \in DOMAIN s, s[i] = s[j], i # j
             PROVE  FALSE
  BY DEF IsInjective
<1>1. i \in DOMAIN base /\ j \in DOMAIN base
  OBVIOUS
<1>2. CASE s[i] = base[i] /\ s[j] = base[j]
  BY <1>1, <1>2 DEF IsInjective
<1>3. CASE Len(x) = Len(base)
  <2>1. DOMAIN x = DOMAIN base
    BY <1>3
  <2>2. \A k \in DOMAIN base : x[k] = base[k] \/ x[k] \notin Range(base)
    <3>1. \A k \in DOMAIN base : k \in DOMAIN old /\ old[k] = base[k]
      BY <2>1 DEF Aligned
    <3>2. Range(base) \subseteq Range(old)
      BY <3>1 DEF Range
    <3> QED BY <2>1, <3>1, <3>2 DEF Aligned
  <2>3. base[i] # base[j] /\ x[i] # x[j] /\ base[i] \in Range(base) /\ base[j] \in Range(base)
    BY <1>1, <2>1 DEF IsInjective, Range
  <2> QED BY <1>1, <2>2, <2>3
<1> QED BY <1>1, <1>2, <1>3

Sound(x) == \A n \in DOMAIN x : IsInjective(x[n].replicas)

(* The map x on its way from base to target: replicas that are not yet     *)
(* moved are brokers of rest, or offline, and those are never moved.       *)
Mixed(x, base, target, rest) ==
    /\ x \in Seq(Partition) /\ DOMAIN x = DOMAIN base /\ DOMAIN target = DOMAIN base
    /\ \A n \in DOMAIN base :
         /\ SamePartition(x[n], base[n]) /\ Len(x[n].replicas) = Len(base[n].replicas)
         /\ \A j \in DOMAIN base[n].replicas :
              \/ x[n].replicas[j] = base[n].replicas[j] /\ x[n].replicas[j] \in rest \cup {Offline}
              \/ /\ base[n].replicas[j] # Offline /\ Len(target[n].replicas) = Len(base[n].replicas)
                 /\ x[n].replicas[j] = target[n].replicas[j]

(* What is known of the outputs: the phase, the last map, and that no set  *)
(* has a broker twice, unless brokers change positions or replicas are     *)
(* offline.                                                                *)
Stuck(places) == Offline \in BrokersIn(Pruned(original, places))
Emitted(m, places) ==
    /\ outputs \in Seq(Seq(Partition))
    /\ params.phased => Len(outputs) >= 1 /\ outputs[1] = phasedReassignment(original, m)
    /\ params.chunkStepSize > 0 =>
         /\ Mixed(mid, Pruned(original, places), newMap, left)
         /\ Offline \notin left /\ (pc # "chunk" => left = {})
         /\ \/ Len(outputs) >= 1 /\ outputs[Len(outputs)] = mid
            \/ /\ mid = Pruned(original, places)
               /\ outputs = <<>> \/ (params.phased /\ Len(outputs) = 1)
    /\ ~(params.chunkStepSize > 0) => Len(outputs) >= 1 /\ outputs[Len(outputs)] = newMap
    /\ \A k \in DOMAIN outputs :
         Sound(outputs[k]) \/ (params.chunkStepSize > 0 /\ (Reordered \/ Stuck(places)))

BuiltFrom(m, final, places) ==
    /\ ConcludedFrom(m, final, places, newMap) /\ SetsGood(m)
    /\ params.optimizeLeadership \/ ByPartition \/ "no brokers" \in warns \/ SetsAligned(m)

ConcludeInv ==
    /\ pc \notin {"validate", "exit"} /\ params.evacBrokers = {} => params.evacTopics = {}
    /\ pc = "chunk" => params.chunkStepSize > 0
    /\ pc \in {"chunk", "write", "done"} =>
         \E m, final, places : BuiltFrom(m, final, places) /\ Emitted(m, places)

(* Which partition of the original a partition of the pruned map is.       *)
Stems(p, q, m, n) ==
    /\ n \in DOMAIN original /\ SamePartition(p, original[n]) /\ q = original[n]
    /\ Arranged(p.replicas, m[n].replicas)
    /\ params.evacTopics = {} => p.replicas = m[n].replicas

(* Without the partitions that do not change, the old and the new map name *)
(* the same partitions in the same order.                                  *)
LEMMA PrunedSets ==
  ASSUME OfKafka(original), NEW m, NEW final, NEW places, NEW x, ConcludedFrom(m, final, places, x)
  PROVE  /\ x \in Seq(Partition) /\ Pruned(original, places) \in Seq(Partition)
         /\ DOMAIN Pruned(original, places) = DOMAIN x
         /\ \A i \in DOMAIN x : \E n \in places : Stems(x[i], Pruned(original, places)[i], m, n)
<1> DEFINE base == Pruned(original, places)
           f == InOrder(places)
<1>1. /\ final \in Seq(Partition) /\ places \in SUBSET DOMAIN final /\ DOMAIN final = DOMAIN original
      /\ original \in Seq(Partition) /\ places \in SUBSET DOMAIN original /\ x = Pruned(final, places)
  BY DEF ConcludedFrom, SetsOf, OfKafka
<1>2. /\ x \in Seq(Partition) /\ DOMAIN x = 1 .. Cardinality(places)
      /\ \A i \in 1 .. Cardinality(places) : f[i] \in places /\ x[i] = final[f[i]]
  BY <1>1, PrunedMap
<1>3. /\ base \in Seq(Partition) /\ DOMAIN base = 1 .. Cardinality(places)
      /\ \A i \in 1 .. Cardinality(places) : base[i] = original[f[i]]
  BY <1>1, PrunedMap
<1> HIDE DEF base, f
<1>4. ASSUME NEW i \in DOMAIN x
      PROVE  f[i] \in places /\ Stems(x[i], base[i], m, f[i])
  <2>1. f[i] \in places /\ f[i] \in DOMAIN original /\ x[i] = final[f[i]] /\ base[i] = original[f[i]]
    BY <1>1, <1>2, <1>3
  <2>2. /\ SamePartition(final[f[i]], m[f[i]]) /\ Arranged(final[f[i]].replicas, m[f[i]].replicas)
        /\ SamePartition(m[f[i]], original[f[i]])
    BY <2>1 DEF ConcludedFrom, SetsOf
  <2>3. params.evacTopics = {} => x[i].replicas = m[f[i]].replicas
    BY <2>1 DEF ConcludedFrom
  <2> QED BY <2>1, <2>2, <2>3 DEF Stems, SamePartition
<1>5. \A i \in DOMAIN x : \E n \in places : Stems(x[i], base[i], m, n)
  BY <1>4
<1> QED BY <1>2, <1>3, <1>5 DEF base

(* A replica set is a sequence of broker ids.                              *)
LEMMA SetsAreSequences ==
  ASSUME NEW m \in Seq(Partition), NEW n \in DOMAIN m
  PROVE  m[n].replicas \in Seq(Int)
<1>1. m[n] \in Partition
  OBVIOUS
<1> QED BY <1>1 DEF Partition

(* A chunk's map, partly new and partly old, is as sound as the final one. *)
LEMMA MixedSound ==
  ASSUME params \in ParamSets, Cluster, NEW m, NEW final, NEW places,
         ConcludedFrom(m, final, places, newMap), SetsGood(m), SetsAligned(m),
         ~params.forceRebuild, params.evacTopics = {}, ~Stuck(places),
         NEW y, NEW rest, Mixed(y, Pruned(original, places), newMap, rest)
  PROVE  Sound(y)
<1> DEFINE base == Pruned(original, places)
<1> SUFFICES ASSUME NEW i \in DOMAIN y PROVE IsInjective(y[i].replicas)
  BY DEF Sound
<1>1. OfKafka(original) /\ params.replication \in Nat /\ original \in Seq(Partition)
  BY InputAssumption DEF Cluster, OfKafka
<1>2. /\ newMap \in Seq(Partition) /\ base \in Seq(Partition) /\ DOMAIN base = DOMAIN newMap
      /\ \A k \in DOMAIN newMap : \E n \in places : Stems(newMap[k], base[k], m, n)
  BY <1>1, PrunedSets
<1> HIDE DEF base
<1>3. i \in DOMAIN base /\ i \in DOMAIN newMap /\ y \in Seq(Partition)
  BY <1>2 DEF Mixed, base
<1>4. PICK n \in places : Stems(newMap[i], base[i], m, n)
  BY <1>2, <1>3
<1> DEFINE s == y[i].replicas
           o == original[n].replicas
           x == newMap[i].replicas
           old == Basis[n].replicas
<1>5. n \in DOMAIN original /\ x = m[n].replicas /\ base[i] = original[n]
  BY <1>4 DEF Stems
<1>6. s \in Seq(Int) /\ o \in Seq(Int) /\ x \in Seq(Int)
  BY <1>1, <1>2, <1>3, <1>5, SetsAreSequences
<1>7. IsInjective(o) /\ IsInjective(x) /\ Aligned(x, old)
  <2>1. Distinct(o) /\ IsInjective(x) /\ Aligned(x, old)
    BY <1>1, <1>5 DEF OfKafka, SetsGood, Good, SetsAligned
  <2>2. \A j \in DOMAIN o : o[j] # Offline
    BY <1>3, <1>5 DEF Stuck, BrokersIn, Range, base
  <2> QED BY <2>1, <2>2 DEF Distinct, IsInjective
<1>8. Len(s) = Len(o) /\ \A j \in DOMAIN o : s[j] = o[j] \/ (Len(x) = Len(o) /\ s[j] = x[j])
  BY <1>3, <1>5 DEF Mixed, base
<1>9. \A j \in DOMAIN old \cap DOMAIN o : old[j] = o[j]
  <2>1. Basis = SetReplication(original, params.replication)
    BY DEF Basis, Resized
  <2> QED BY <1>1, <1>5, <2>1, ResizedPrefix
<1>10. IsInjective(s)
  <2> HIDE DEF s, o, x, old
  <2> QED BY <1>6, <1>7, <1>8, <1>9, MixedInjective
<1> QED BY <1>10

(* Steps that leave the inputs alone keep what is known of a map.          *)
LEMMA SetsFrame ==
  ASSUME NEW m, UNCHANGED <<params, pm, original, bmOrig>>, Basis' = Basis, warns \subseteq warns'
  PROVE  /\ SetsGood(m) => SetsGood(m)' /\ (SetsAligned(m) => SetsAligned(m)')
         /\ ByPartition' = ByPartition
<1>1. AllVisited' = AllVisited /\ ByPartition' = ByPartition
  BY VisitedFrame
<1>2. SetsGood(m) => SetsGood(m)'
  <2> HIDE DEF AllVisited
  <2> QED BY <1>1 DEF SetsGood
<1>3. SetsAligned(m) => SetsAligned(m)'
  BY DEF SetsAligned
<1> QED BY <1>1, <1>2, <1>3

(* Steps that leave the new map alone keep how it was built.               *)
LEMMA BuiltFrame ==
  ASSUME NEW m, NEW final, NEW places, BuiltFrom(m, final, places), Cluster,
         UNCHANGED <<params, pm, original, bmOrig, newMap, warns>>
  PROVE  BuiltFrom(m, final, places)'
<1>1. Basis' = Basis
  BY ClusterFrame
<1>2. warns \subseteq warns'
  OBVIOUS
<1>3. SetsGood(m)' /\ (SetsAligned(m) => SetsAligned(m)') /\ ByPartition' = ByPartition
  BY <1>1, <1>2, SetsFrame DEF BuiltFrom
<1>4. ConcludedFrom(m, final, places, newMap)'
  BY DEF BuiltFrom, ConcludedFrom
<1> QED BY <1>3, <1>4 DEF BuiltFrom

(* The outputs at the start, and one more of them.                         *)
LEMMA FirstOutputs ==
  ASSUME NEW X, NEW a \in X, NEW b \in X, NEW hasA \in BOOLEAN, NEW hasB \in BOOLEAN, NEW outs,
         outs = (IF hasA THEN <<a>> ELSE <<>>) \o (IF hasB THEN <<b>> ELSE <<>>)
  PROVE  /\ outs \in Seq(X) /\ \A k \in DOMAIN outs : outs[k] = a \/ outs[k] = b
         /\ hasA => Len(outs) >= 1 /\ outs[1] = a
         /\ hasB => Len(outs) >= 1 /\ outs[Len(outs)] = b
         /\ ~hasB => outs = <<>> \/ (hasA /\ Len(outs) = 1)
<1>1. CASE hasA /\ hasB
  <2>1. outs = <<a>> \o <<b>>
    BY <1>1, Zenon
  <2>2. outs = Append(<<a>>, b)
    BY <2>1
  <2>3. outs \in Seq(X) /\ Len(outs) = 2 /\ outs[1] = a /\ outs[2] = b
    BY <2>2
  <2> QED BY <1>1, <2>3
<1>2. CASE hasA /\ ~hasB
  <2>1. outs = <<a>>
    BY <1>2
  <2> QED BY <1>2, <2>1
<1>3. CASE ~hasA /\ hasB
  <2>1. outs = <<b>>
    BY <1>3
  <2> QED BY <1>3, <2>1
<1>4. CASE ~hasA /\ ~hasB
  <2>1. outs = <<>>
    BY <1>4
  <2> QED BY <1>4, <2>1
<1> QED BY <1>1, <1>2, <1>3, <1>4

(* Conclude preserves the invariant of the output.                         *)
LEMMA ConcludeStart ==
  ASSUME TypeInv, SetInv, ConcludeInv, Conclude
  PROVE  ConcludeInv'
<1>1. /\ pc = "conclude" /\ warns \subseteq warns'
      /\ UNCHANGED <<params, original, pm, bm, bmOrig>>
  BY ConcludeStep
<1>2. /\ pc' # "exit" /\ params'.evacBrokers = {} => params'.evacTopics = {}
      /\ pc' = "chunk" => params'.chunkStepSize > 0
  BY <1>1, ConcludeStep DEF ConcludeInv
<1> SUFFICES ASSUME pc' # "exit"
             PROVE  \E m, final, places : BuiltFrom(m, final, places)' /\ Emitted(m, places)'
  BY <1>2 DEF ConcludeInv
<1> PICK m : m = newMap
  OBVIOUS
<1>3. /\ pc' = IF params.chunkStepSize > 0 THEN "chunk" ELSE "write"
      /\ left' = Real(bmOrig)
      /\ outputs' = (IF params.phased THEN <<phasedReassignment(original, m)>> ELSE <<>>)
                      \o (IF params.chunkStepSize > 0 THEN <<>> ELSE <<newMap'>>)
      /\ \E final, places : ConcludedFrom(m, final, places, newMap') /\ mid' = Pruned(original, places)
  BY ConcludeStep
<1>4. PICK final, places : ConcludedFrom(m, final, places, newMap') /\ mid' = Pruned(original, places)
  BY <1>3
<1>5. Cluster /\ TypeInv' /\ OfKafka(original) /\ SetsGood(m) /\ m \in Seq(Partition)
  BY <1>1, TypeConclude DEF TypeInv, Cluster, SetInv
<1>6. Basis' = Basis
  BY <1>1, <1>5, ClusterFrame
<1>7. BuiltFrom(m, final, places)'
  <2>1. SetsGood(m)' /\ (SetsAligned(m) => SetsAligned(m)') /\ ByPartition' = ByPartition
    BY <1>1, <1>5, <1>6, SetsFrame
  <2>2. ConcludedFrom(m, final, places, newMap)'
    BY <1>1, <1>4 DEF ConcludedFrom
  <2>3. params.optimizeLeadership \/ ByPartition \/ "no brokers" \in warns \/ SetsAligned(m)
    BY <1>1 DEF SetInv
  <2> QED BY <1>1, <2>1, <2>2, <2>3 DEF BuiltFrom
<1> DEFINE ph == phasedReassignment(original, m)
           base == Pruned(original, places)
<1>8. Phased(ph, m)
  BY <1>4, <1>5, PhasedMap DEF ConcludedFrom
<1> HIDE DEF ph
<1>9. Sound(ph) /\ ph \in Seq(Partition)
  BY <1>5, <1>8 DEF Phased, Sound, SetsGood, Good
<1>10. /\ newMap' \in Seq(Partition) /\ base \in Seq(Partition) /\ DOMAIN base = DOMAIN newMap'
       /\ \A i \in DOMAIN newMap' : \E n \in places : Stems(newMap'[i], base[i], m, n)
  BY <1>4, <1>5, PrunedSets
<1> HIDE DEF base
<1>11. Sound(newMap')
  <2> SUFFICES ASSUME NEW i \in DOMAIN newMap' PROVE IsInjective(newMap'[i].replicas)
    BY DEF Sound
  <2>1. PICK n \in places : Stems(newMap'[i], base[i], m, n)
    BY <1>10
  <2>2. m[n].replicas \in Seq(Int) /\ IsInjective(m[n].replicas)
    BY <1>5, <2>1 DEF Stems, SetsGood, Good
  <2>3. Arranged(newMap'[i].replicas, m[n].replicas)
    BY <2>1 DEF Stems
  <2> QED BY <2>2, <2>3, ArrangedSequence
<1>12. Mixed(mid', base, newMap', left')
  <2>1. ASSUME NEW i \in DOMAIN base, NEW j \in DOMAIN base[i].replicas
        PROVE  base[i].replicas[j] \in left' \cup {Offline}
    <3>1. PICK n \in places : Stems(newMap'[i], base[i], m, n)
      BY <1>10, <2>1
    <3>2. n \in DOMAIN original /\ base[i] = original[n]
      BY <3>1 DEF Stems
    <3>3. base[i].replicas[j] \in BrokersIn(original)
      BY <2>1, <3>2 DEF BrokersIn, Range
    <3> QED BY <1>3, <1>5, <3>3 DEF Cluster, OnlineIn
  <2>2. mid' = base
    BY <1>4 DEF base
  <2> QED BY <1>10, <2>1, <2>2 DEF Mixed, SamePartition
<1>13. /\ outputs' \in Seq(Seq(Partition)) /\ \A k \in DOMAIN outputs' : outputs'[k] = ph \/ outputs'[k] = newMap'
       /\ params.phased => Len(outputs') >= 1 /\ outputs'[1] = ph
       /\ ~(params.chunkStepSize > 0) => Len(outputs') >= 1 /\ outputs'[Len(outputs')] = newMap'
       /\ params.chunkStepSize > 0 => outputs' = <<>> \/ (params.phased /\ Len(outputs') = 1)
  <2> DEFINE a == IF params.phased THEN TRUE ELSE FALSE
             c == IF params.chunkStepSize > 0 THEN FALSE ELSE TRUE
             x == newMap'
             outs == outputs'
  <2>1. /\ a \in BOOLEAN /\ c \in BOOLEAN /\ (a <=> params.phased) /\ (c <=> ~(params.chunkStepSize > 0))
    BY Zenon
  <2>2. outs = (IF a THEN <<ph>> ELSE <<>>) \o (IF c THEN <<x>> ELSE <<>>)
    BY <1>3 DEF ph
  <2>3. x \in Seq(Partition)
    BY <1>10
  <2> HIDE DEF a, c, x, outs
  <2>4. /\ outs \in Seq(Seq(Partition)) /\ \A k \in DOMAIN outs : outs[k] = ph \/ outs[k] = x
        /\ a => Len(outs) >= 1 /\ outs[1] = ph
        /\ c => Len(outs) >= 1 /\ outs[Len(outs)] = x
        /\ ~c => outs = <<>> \/ (a /\ Len(outs) = 1)
    BY <1>9, <2>1, <2>2, <2>3, FirstOutputs
  <2> QED BY <2>1, <2>4, Zenon DEF x, outs
<1>14. \A k \in DOMAIN outputs' : Sound(outputs'[k])
  BY <1>9, <1>11, <1>13
<1>15. Emitted(m, places)'
  <2>1. params' = params /\ original' = original /\ ph = phasedReassignment(original', m)
    BY <1>1 DEF ph
  <2>2. mid' = Pruned(original', places) /\ Mixed(mid', Pruned(original', places), newMap', left')
    BY <1>1, <1>4, <1>12 DEF base
  <2>3. /\ params.chunkStepSize > 0 => pc' = "chunk"
        /\ Offline \notin left'
    BY <1>3, <1>5 DEF Cluster, Real, Offline
  <2> HIDE DEF Mixed, Sound
  <2> QED BY <1>13, <1>14, <2>1, <2>2, <2>3 DEF Emitted
<1> QED BY <1>7, <1>15

(* Chunk preserves the invariant of the output.                            *)
LEMMA ConcludeChunk ==
  ASSUME TypeInv, ConcludeInv, Chunk
  PROVE  ConcludeInv'
<1>1. /\ pc = "chunk" /\ left' = left \ ChunkBrokers
      /\ UNCHANGED <<params, original, pm, bmOrig, newMap, warns>>
  BY ChunkStep
<1> SUFFICES ASSUME pc' # "exit" PROVE ConcludeInv'
  BY <1>1 DEF ConcludeInv
<1>2. /\ pc' = "chunk"
      /\ outputs' = IF mid' # mid THEN Append(outputs, mid') ELSE outputs
      /\ mid' \in Seq(Partition) /\ DOMAIN mid' = DOMAIN mid
      /\ \A n \in DOMAIN mid :
           /\ SamePartition(mid'[n], mid[n])
           /\ Len(mid'[n].replicas) = Len(mid[n].replicas)
           /\ \A j \in DOMAIN mid[n].replicas :
                IF mid[n].replicas[j] \in ChunkBrokers
                THEN /\ Len(newMap[n].replicas) = Len(mid[n].replicas)
                     /\ mid'[n].replicas[j] = newMap[n].replicas[j]
                ELSE mid'[n].replicas[j] = mid[n].replicas[j]
  BY ChunkStep
<1>3. PICK m, final, places : BuiltFrom(m, final, places) /\ Emitted(m, places)
  BY <1>1 DEF ConcludeInv
<1>4. Cluster /\ params \in ParamSets
  BY <1>1 DEF TypeInv
<1>5. BuiltFrom(m, final, places)'
  BY <1>1, <1>3, <1>4, BuiltFrame
<1>6. CASE params.chunkStepSize > 0
  <2> DEFINE base == Pruned(original, places)
  <2>1. Mixed(mid, base, newMap, left) /\ Offline \notin ChunkBrokers /\ Offline \notin left
    BY <1>3, <1>6 DEF Emitted, ChunkBrokers
  <2>2. Mixed(mid', base, newMap, left')
    <3> HIDE DEF base
    <3>1. ASSUME NEW n \in DOMAIN base
          PROVE  /\ SamePartition(mid'[n], base[n]) /\ Len(mid'[n].replicas) = Len(base[n].replicas)
                 /\ \A j \in DOMAIN base[n].replicas :
                      \/ mid'[n].replicas[j] = base[n].replicas[j] /\ mid'[n].replicas[j] \in left' \cup {Offline}
                      \/ /\ base[n].replicas[j] # Offline /\ Len(newMap[n].replicas) = Len(base[n].replicas)
                         /\ mid'[n].replicas[j] = newMap[n].replicas[j]
      <4>1. n \in DOMAIN mid /\ SamePartition(mid[n], base[n]) /\ Len(mid[n].replicas) = Len(base[n].replicas)
        BY <2>1, <3>1 DEF Mixed
      <4>2. base[n].replicas \in Seq(Int) /\ mid[n].replicas \in Seq(Int)
        <5>1. OfKafka(original) /\ base \in Seq(Partition)
          BY <1>3, <1>4, PrunedSets DEF Cluster, BuiltFrom, base
        <5>2. mid \in Seq(Partition)
          BY <2>1 DEF Mixed
        <5> QED BY <3>1, <4>1, <5>1, <5>2, SetsAreSequences
      <4>3. DOMAIN base[n].replicas = DOMAIN mid[n].replicas
        BY <4>1, <4>2
      <4>4. ASSUME NEW j \in DOMAIN base[n].replicas
            PROVE  \/ mid'[n].replicas[j] = base[n].replicas[j] /\ mid'[n].replicas[j] \in left' \cup {Offline}
                   \/ /\ base[n].replicas[j] # Offline /\ Len(newMap[n].replicas) = Len(base[n].replicas)
                      /\ mid'[n].replicas[j] = newMap[n].replicas[j]
        <5>1. CASE mid[n].replicas[j] \in ChunkBrokers
          <6>1. base[n].replicas[j] # Offline
            BY <2>1, <4>4, <5>1 DEF Mixed
          <6> QED BY <1>2, <4>1, <4>3, <4>4, <5>1, <6>1
        <5>2. CASE mid[n].replicas[j] \notin ChunkBrokers
          <6>1. mid'[n].replicas[j] = mid[n].replicas[j]
            BY <1>2, <4>1, <4>3, <4>4, <5>2
          <6>2. \/ mid[n].replicas[j] = base[n].replicas[j] /\ mid[n].replicas[j] \in left \cup {Offline}
                \/ /\ base[n].replicas[j] # Offline /\ Len(newMap[n].replicas) = Len(base[n].replicas)
                   /\ mid[n].replicas[j] = newMap[n].replicas[j]
            BY <2>1, <4>4 DEF Mixed
          <6> QED BY <1>1, <5>2, <6>1, <6>2
        <5> QED BY <5>1, <5>2
      <4>5. SamePartition(mid'[n], base[n]) /\ Len(mid'[n].replicas) = Len(base[n].replicas)
        BY <1>2, <4>1 DEF SamePartition
      <4> QED BY <4>4, <4>5
    <3>2. DOMAIN mid' = DOMAIN base /\ DOMAIN newMap = DOMAIN base
      BY <1>2, <2>1 DEF Mixed
    <3> QED BY <1>2, <3>1, <3>2 DEF Mixed
  <2>3. Sound(mid') \/ Reordered \/ Stuck(places)
    <3> SUFFICES ASSUME ~Reordered, ~Stuck(places) PROVE Sound(mid')
      OBVIOUS
    <3>1. params.evacTopics = {} /\ ~params.forceRebuild
      BY <1>1 DEF Reordered, ConcludeInv
    <3>2. SetsAligned(m) /\ SetsGood(m) /\ ConcludedFrom(m, final, places, newMap)
      BY <1>3 DEF Reordered, BuiltFrom
    <3> QED BY <1>4, <2>2, <3>1, <3>2, MixedSound
  <2>4. outputs \in Seq(Seq(Partition))
    BY <1>3 DEF Emitted
  <2>5. (Reordered' <=> Reordered) /\ (Stuck(places)' <=> Stuck(places))
    BY <1>1 DEF Reordered, ByPartition, Storage, Stuck
  <2>6. CASE mid' = mid
    <3>1. outputs' = outputs
      BY <1>2, <2>6
    <3>2. Mixed(mid', Pruned(original', places), newMap', left')
      BY <1>1, <2>2 DEF base
    <3> HIDE DEF Mixed, Sound, Reordered, Stuck
    <3>3. Emitted(m, places)'
      BY <1>1, <1>2, <1>3, <1>6, <2>1, <2>5, <2>6, <3>1, <3>2 DEF Emitted
    <3> QED BY <1>1, <1>2, <1>5, <3>3 DEF ConcludeInv
  <2>7. CASE mid' # mid
    <3> DEFINE outs == outputs'
               x == mid'
    <3>1. outs = Append(outputs, x) /\ x \in Seq(Partition)
      BY <1>2, <2>7
    <3> HIDE DEF outs, x
    <3>2. /\ outs \in Seq(Seq(Partition)) /\ Len(outs) >= 1 /\ outs[Len(outs)] = x
          /\ Len(outputs) >= 1 => outs[1] = outputs[1]
          /\ \A k \in DOMAIN outs : outs[k] = x \/ (k \in DOMAIN outputs /\ outs[k] = outputs[k])
      BY <2>4, <3>1
    <3>3. \A k \in DOMAIN outs :
            Sound(outs[k]) \/ (params.chunkStepSize > 0 /\ (Reordered \/ Stuck(places)))
      BY <1>3, <1>6, <2>3, <3>2 DEF Emitted, x
    <3>4. Mixed(mid', Pruned(original', places), newMap', left')
      BY <1>1, <2>2 DEF base
    <3>5. params.phased => outs[1] = phasedReassignment(original, m)
      BY <1>3, <3>2 DEF Emitted
    <3> HIDE DEF Mixed, Sound, Reordered, Stuck
    <3>6. Emitted(m, places)'
      BY <1>1, <1>2, <1>6, <2>1, <2>5, <3>2, <3>3, <3>4, <3>5 DEF Emitted, outs, x
    <3> QED BY <1>1, <1>2, <1>5, <3>6 DEF ConcludeInv
  <2> QED BY <2>6, <2>7
<1>7. CASE ~(params.chunkStepSize > 0)
  BY <1>1, <1>7 DEF ConcludeInv
<1> QED BY <1>6, <1>7

(* EndChunks and Write preserve the invariant of the output.               *)
LEMMA ConcludeEnd ==
  ASSUME TypeInv, ConcludeInv, EndChunks \/ Write
  PROVE  ConcludeInv'
<1>1. /\ UNCHANGED <<params, original, pm, bmOrig, newMap, warns, mid, left, outputs>>
      /\ \/ pc = "chunk" /\ left = {} /\ pc' = "write"
         \/ pc = "write" /\ pc' \in {"done", "exit"}
  BY DEF EndChunks, Write, brokers, placement, output
<1>2. PICK m, final, places : BuiltFrom(m, final, places) /\ Emitted(m, places)
  BY <1>1 DEF ConcludeInv
<1>3. Cluster
  BY <1>1 DEF TypeInv
<1>4. BuiltFrom(m, final, places)'
  BY <1>1, <1>2, <1>3, BuiltFrame
<1>5. (Reordered' <=> Reordered) /\ (Stuck(places)' <=> Stuck(places))
  BY <1>1 DEF Reordered, ByPartition, Storage, Stuck
<1>6. Emitted(m, places)'
  <2> HIDE DEF Mixed, Sound, Reordered, Stuck
  <2> QED BY <1>1, <1>2, <1>5 DEF Emitted
<1> QED BY <1>1, <1>4, <1>6 DEF ConcludeInv

(* Stuttering preserves the invariant of the output.                       *)
LEMMA ConcludeStutter ==
  ASSUME TypeInv, ConcludeInv, UNCHANGED vars
  PROVE  ConcludeInv'
<1>1. UNCHANGED <<pc, params, original, pm, bmOrig, newMap, warns, mid, left, outputs>>
  BY DEF vars, brokers, placement, output
<1> SUFFICES ASSUME pc \in {"chunk", "write", "done"} PROVE ConcludeInv'
  BY <1>1 DEF ConcludeInv
<1>2. PICK m, final, places : BuiltFrom(m, final, places) /\ Emitted(m, places)
  BY DEF ConcludeInv
<1>3. Cluster
  BY DEF TypeInv
<1>4. BuiltFrom(m, final, places)'
  BY <1>1, <1>2, <1>3, BuiltFrame
<1>5. (Reordered' <=> Reordered) /\ (Stuck(places)' <=> Stuck(places))
  BY <1>1 DEF Reordered, ByPartition, Storage, Stuck
<1>6. Emitted(m, places)'
  <2> HIDE DEF Mixed, Sound, Reordered, Stuck
  <2> QED BY <1>1, <1>2, <1>5 DEF Emitted
<1> QED BY <1>1, <1>4, <1>6 DEF ConcludeInv

-----------------------------------------------------------------------------
(* The invariant.                                                          *)

WrittenInv == IF pc = "done" THEN written = <<>> \/ written = outputs ELSE written = <<>>

RebuildInv == TypeInv /\ PlaceInv /\ SkipInv /\ SetInv /\ ConcludeInv /\ WrittenInv

(* The initial states satisfy the invariant.                               *)
LEMMA InvInitial ==
  ASSUME Init
  PROVE  RebuildInv
<1>1. pc = "validate" /\ written = <<>> /\ TypeInv
  BY TypeInitial DEF Init
<1> QED BY <1>1 DEF RebuildInv, PlaceInv, SkipInv, SetInv, ConcludeInv, WrittenInv

(* The steps before the placement preserve the invariant.                  *)
LEMMA InvEarly ==
  ASSUME RebuildInv, Validate \/ ReadFails \/ Read \/ Substitute \/ Substituted
  PROVE  PlaceInv' /\ SkipInv' /\ SetInv' /\ ConcludeInv' /\ WrittenInv'
<1>1. /\ pc \in {"validate", "read", "affinities"} /\ UNCHANGED <<params, written>>
      /\ pc' \in {"read", "affinities", "prepare", "exit"}
  BY Zenon DEF Validate, ReadFails, Read, Substitute, Substituted, output
<1>2. pc = "validate" => pc' = IF invalid THEN "exit" ELSE "read"
  BY DEF Validate, ReadFails, Read, Substitute, Substituted
<1>3. pc' # "exit" /\ params'.evacBrokers = {} => params'.evacTopics = {}
  BY <1>1, <1>2 DEF RebuildInv, ConcludeInv, invalid
<1>4. written' = <<>>
  BY <1>1 DEF RebuildInv, WrittenInv
<1>5. pc' \notin {"place", "optimize", "conclude", "chunk", "write", "done"}
  BY <1>1
<1> QED BY <1>3, <1>4, <1>5 DEF PlaceInv, SkipInv, SetInv, ConcludeInv, WrittenInv

(* The steps of the placement preserve the invariant.                      *)
LEMMA InvPlacement ==
  ASSUME RebuildInv,
         Prepare \/ Panic \/ Skip \/ Keep \/ Replace \/ LeaveOut \/ EndPlacement \/ Optimize
  PROVE  PlaceInv' /\ SkipInv' /\ SetInv' /\ ConcludeInv' /\ WrittenInv'
<1>1. /\ pc \in {"prepare", "place", "optimize"} /\ UNCHANGED <<params, written>>
      /\ pc' \in {"place", "optimize", "conclude", "exit"}
  <2>1. CASE Prepare
    BY <2>1, Zenon DEF Prepare, output
  <2>2. CASE Skip \/ Keep \/ Replace \/ LeaveOut
    BY <2>2, VisitStep DEF RebuildInv, Visiting
  <2>3. CASE EndPlacement
    BY <2>3, EndStep DEF RebuildInv
  <2>4. CASE Optimize
    BY <2>4, Zenon DEF Optimize, output
  <2>5. CASE Panic
    BY <2>5 DEF Panic, output
  <2> QED BY <2>1, <2>2, <2>3, <2>4, <2>5
<1>2. ConcludeInv'
  BY <1>1 DEF RebuildInv, ConcludeInv
<1>3. WrittenInv'
  BY <1>1 DEF RebuildInv, WrittenInv
<1>4. CASE Prepare
  <2>1. pc' \notin {"optimize", "conclude"}
    BY <1>4, Zenon DEF Prepare
  <2>2. SetInv'
    BY <2>1 DEF SetInv
  <2> QED BY <1>2, <1>3, <1>4, <2>2, PlacePrepare, SkipPrepare DEF RebuildInv
<1>5. CASE Skip \/ Keep \/ Replace \/ LeaveOut
  <2>1. pc' \notin {"optimize", "conclude"}
    BY <1>5, VisitStep DEF RebuildInv, Visiting
  <2>2. SetInv'
    BY <2>1 DEF SetInv
  <2>3. PlaceInv' /\ SkipInv'
    BY <1>5, PlaceVisit, SkipVisit DEF RebuildInv
  <2> QED BY <1>2, <1>3, <2>2, <2>3
<1>6. CASE EndPlacement \/ Optimize
  <2>1. pc' # "place"
    BY <1>6, EndStep, Zenon DEF RebuildInv, Optimize
  <2>2. PlaceInv' /\ SkipInv'
    BY <2>1 DEF PlaceInv, SkipInv
  <2>3. SetInv'
    BY <1>6, SetEnd, SetOptimize DEF RebuildInv
  <2> QED BY <1>2, <1>3, <2>2, <2>3
<1>7. CASE Panic
  <2>1. pc' = "exit"
    BY <1>7 DEF Panic
  <2> QED BY <1>2, <1>3, <2>1 DEF PlaceInv, SkipInv, SetInv
<1> QED BY <1>4, <1>5, <1>6, <1>7

(* The steps that make and write the output preserve the invariant.        *)
LEMMA InvOutput ==
  ASSUME RebuildInv, Conclude \/ Chunk \/ EndChunks \/ Write
  PROVE  PlaceInv' /\ SkipInv' /\ SetInv' /\ ConcludeInv' /\ WrittenInv'
<1>1. pc \in {"conclude", "chunk", "write"} /\ pc' \in {"chunk", "write", "done", "exit"}
  <2>1. CASE Conclude
    BY <2>1, ConcludeStep DEF RebuildInv
  <2>2. CASE Chunk
    BY <2>2, ChunkStep DEF RebuildInv
  <2>3. CASE EndChunks \/ Write
    BY <2>3 DEF EndChunks, Write
  <2> QED BY <2>1, <2>2, <2>3
<1>2. PlaceInv' /\ SkipInv' /\ SetInv'
  BY <1>1 DEF PlaceInv, SkipInv, SetInv
<1>3. ConcludeInv'
  BY ConcludeStart, ConcludeChunk, ConcludeEnd DEF RebuildInv
<1>4. written = <<>>
  BY <1>1 DEF RebuildInv, WrittenInv
<1>5. WrittenInv'
  <2>1. CASE Conclude \/ Chunk \/ EndChunks
    <3>1. written' = written
      BY <2>1, ConcludeStep, ChunkStep DEF RebuildInv, EndChunks, output
    <3>2. pc' # "done"
      BY <2>1, ConcludeStep, ChunkStep DEF RebuildInv, EndChunks
    <3> QED BY <1>4, <3>1, <3>2 DEF WrittenInv
  <2>2. CASE Write
    BY <1>4, <2>2 DEF Write, WrittenInv
  <2> QED BY <2>1, <2>2
<1> QED BY <1>2, <1>3, <1>5

(* Stuttering preserves the invariant.                                     *)
LEMMA InvStutter ==
  ASSUME RebuildInv, UNCHANGED vars
  PROVE  PlaceInv' /\ SkipInv' /\ SetInv' /\ ConcludeInv' /\ WrittenInv'
<1>1. UNCHANGED <<pc, params, original, pm, bmOrig, newMap, slot, skipped, warns, outputs, written>>
  BY DEF vars, brokers, placement, output
<1>2. ByPartition' = ByPartition /\ Basis' = Basis /\ AllVisited' = AllVisited
  BY <1>1, VisitedFrame DEF Basis, Resized
<1>3. PlaceInv'
  <2>1. \A n : Seen(n)' = Seen(n)
    BY <1>1, <1>2 DEF Seen
  <2>2. SetsSoFar' = SetsSoFar /\ InPlace' = InPlace
    <3> HIDE DEF Seen
    <3> QED BY <1>1, <2>1 DEF SetsSoFar, InPlace
  <2> QED BY <1>1, <2>2 DEF RebuildInv, PlaceInv
<1>4. SkipInv'
  <2>1. Extras' = Extras
    BY <1>1 DEF Extras, Extra
  <2> QED BY <1>1, <1>2, <2>1 DEF RebuildInv, SkipInv
<1>5. SetInv'
  <2>1. SetsGood(newMap)' = SetsGood(newMap) /\ SetsAligned(newMap)' = SetsAligned(newMap)
    <3> HIDE DEF AllVisited
    <3> QED BY <1>1, <1>2 DEF SetsGood, SetsAligned
  <2> QED BY <1>1, <1>2, <2>1 DEF RebuildInv, SetInv
<1>6. ConcludeInv'
  BY ConcludeStutter DEF RebuildInv
<1>7. WrittenInv'
  BY <1>1 DEF RebuildInv, WrittenInv
<1> QED BY <1>3, <1>4, <1>5, <1>6, <1>7

(* Every step preserves the invariant.                                     *)
LEMMA InvNext ==
  ASSUME RebuildInv, [Next]_vars
  PROVE  RebuildInv'
<1>1. TypeInv'
  BY TypeNext DEF RebuildInv
<1>2. PlaceInv' /\ SkipInv' /\ SetInv' /\ ConcludeInv' /\ WrittenInv'
  BY InvEarly, InvPlacement, InvOutput, InvStutter DEF Next
<1> QED BY <1>1, <1>2 DEF RebuildInv

(* The invariant holds in every reachable state.                           *)
LEMMA RebuildInvariant == Spec => []RebuildInv
<1>1. Init => RebuildInv
  BY InvInitial
<1>2. RebuildInv /\ [Next]_vars => RebuildInv'
  BY InvNext
<1> QED BY <1>1, <1>2, PTL DEF Spec

-----------------------------------------------------------------------------
(* What is written.                                                        *)

(* With no broker left to be moved, and none offline, the chunks have come *)
(* to the target.                                                          *)
LEMMA MixedEnds ==
  ASSUME OfKafka(original), NEW m, NEW final, NEW places, ConcludedFrom(m, final, places, newMap),
         NEW x, Mixed(x, Pruned(original, places), newMap, {}), Offline \notin BrokersIn(x)
  PROVE  /\ x \in Seq(Partition) /\ DOMAIN x = DOMAIN newMap
         /\ \A i \in DOMAIN newMap : x[i].replicas = newMap[i].replicas /\ x[i] = newMap[i]
<1> DEFINE base == Pruned(original, places)
<1>1. /\ newMap \in Seq(Partition) /\ base \in Seq(Partition) /\ DOMAIN base = DOMAIN newMap
      /\ \A i \in DOMAIN newMap : \E n \in places : Stems(newMap[i], base[i], m, n)
  BY PrunedSets
<1> HIDE DEF base
<1>2. x \in Seq(Partition) /\ DOMAIN x = DOMAIN newMap
  BY <1>1 DEF Mixed, base
<1>3. ASSUME NEW i \in DOMAIN newMap
      PROVE  x[i].replicas = newMap[i].replicas /\ x[i] = newMap[i]
  <2>1. PICK n \in places : Stems(newMap[i], base[i], m, n)
    BY <1>1
  <2> DEFINE s == x[i].replicas
             t == newMap[i].replicas
             o == base[i].replicas
  <2>2. s \in Seq(Int) /\ t \in Seq(Int) /\ o \in Seq(Int)
    BY <1>1, <1>2, SetsAreSequences
  <2>3. o # <<>> /\ SamePartition(newMap[i], base[i])
    BY <2>1 DEF Stems, OfKafka
  <2>4. /\ SamePartition(x[i], base[i]) /\ Len(s) = Len(o)
        /\ \A j \in DOMAIN o : Len(t) = Len(o) /\ s[j] = t[j]
    <3>1. /\ SamePartition(x[i], base[i]) /\ Len(s) = Len(o) /\ i \in DOMAIN base
          /\ \A j \in DOMAIN o : s[j] = Offline \/ (Len(t) = Len(o) /\ s[j] = t[j])
      BY <1>1 DEF Mixed, base
    <3>2. DOMAIN s = DOMAIN o
      BY <2>2, <3>1
    <3>3. \A j \in DOMAIN s : s[j] # Offline
      BY <1>2 DEF BrokersIn, Range
    <3> QED BY <3>1, <3>2, <3>3
  <2>5. s = t
    <3> HIDE DEF s, t, o
    <3>1. 1 \in DOMAIN o
      BY <2>2, <2>3
    <3>2. Len(t) = Len(o)
      BY <2>4, <3>1
    <3>3. DOMAIN s = DOMAIN o /\ DOMAIN t = DOMAIN o
      BY <2>2, <2>4, <3>2
    <3>4. s = [j \in DOMAIN o |-> s[j]] /\ t = [j \in DOMAIN o |-> t[j]]
      BY <2>2, <3>3
    <3> QED BY <2>4, <3>4
  <2>6. x[i] \in Partition /\ newMap[i] \in Partition
    BY <1>1, <1>2
  <2>7. x[i].topic = newMap[i].topic /\ x[i].partition = newMap[i].partition
    BY <2>3, <2>4 DEF SamePartition
  <2>8. x[i] = newMap[i]
    BY <2>5, <2>6, <2>7 DEF Partition
  <2> QED BY <2>5, <2>8
<1> QED BY <1>2, <1>3

(* The sets of the final map are those of the map m that was built.        *)
Outcome(m) ==
    /\ m \in Seq(Partition) /\ DOMAIN m = DOMAIN original /\ SetsGood(m)
    /\ params.phased => written[1] = phasedReassignment(original, m)
    /\ \A k \in DOMAIN FinalMap : \E n \in DOMAIN original :
         SamePartition(FinalMap[k], original[n]) /\ Arranged(FinalMap[k].replicas, m[n].replicas)

(* A finished run has a map of final replica sets that its outputs lead    *)
(* to.                                                                     *)
LEMMA FinalSets ==
  ASSUME RebuildInv, Done
  PROVE  \E m : Outcome(m)
<1>1. /\ OfKafka(original) /\ written = outputs /\ written # <<>> /\ pc = "done"
      /\ \E m, final, places : BuiltFrom(m, final, places) /\ Emitted(m, places)
  BY DEF RebuildInv, TypeInv, Cluster, ConcludeInv, WrittenInv, Done
<1>2. PICK m, final, places : BuiltFrom(m, final, places) /\ Emitted(m, places)
  BY <1>1
<1> DEFINE base == Pruned(original, places)
           Sets(x) == \A k \in DOMAIN x : \E n \in DOMAIN original :
                        SamePartition(x[k], original[n]) /\ Arranged(x[k].replicas, m[n].replicas)
<1>3. ConcludedFrom(m, final, places, newMap) /\ SetsGood(m)
  BY <1>2 DEF BuiltFrom
<1>4. m \in Seq(Partition) /\ DOMAIN m = DOMAIN original
  BY <1>3 DEF ConcludedFrom
<1>5. /\ outputs \in Seq(Seq(Partition))
      /\ params.phased => outputs[1] = phasedReassignment(original, m)
  BY <1>2 DEF Emitted
<1>6. /\ newMap \in Seq(Partition)
      /\ \A i \in DOMAIN newMap : \E n \in places : Stems(newMap[i], base[i], m, n)
  BY <1>1, <1>3, PrunedSets
<1> HIDE DEF base
<1>7. Sets(newMap)
  BY <1>6 DEF Stems
<1>8. Sets(outputs[Len(outputs)])
  <2>1. CASE ~(params.chunkStepSize > 0)
    <3>1. outputs[Len(outputs)] = newMap
      BY <1>2, <2>1 DEF Emitted
    <3> QED BY <1>7, <3>1
  <2>2. CASE params.chunkStepSize > 0
    <3>1. Mixed(mid, base, newMap, {})
      <4>1. Mixed(mid, base, newMap, left) /\ left = {}
        BY <1>1, <1>2, <2>2 DEF Emitted, base
      <4> QED BY <4>1
    <3>2. /\ mid \in Seq(Partition) /\ DOMAIN mid = DOMAIN newMap
          /\ \A i \in DOMAIN newMap : mid[i].replicas = newMap[i].replicas /\ mid[i] = newMap[i]
      BY <1>1, <1>3, <2>2, <3>1, MixedEnds DEF base, Done, Converges
    <3>3. CASE outputs[Len(outputs)] = mid
      BY <1>7, <3>2, <3>3
    <3>4. CASE mid = base /\ params.phased /\ Len(outputs) = 1
      <4> DEFINE p == phasedReassignment(original, m)
      <4>1. outputs[Len(outputs)] = p
        BY <1>5, <3>4
      <4>2. Phased(p, m)
        BY <1>1, <1>4, PhasedMap
      <4> HIDE DEF p
      <4>3. ASSUME NEW n \in DOMAIN original
            PROVE  final[n].replicas = original[n].replicas
        <5>1. CASE n \notin places
          BY <1>3, <5>1 DEF ConcludedFrom
        <5>2. CASE n \in places
          <6> DEFINE f == InOrder(places)
          <6>1. /\ original \in Seq(Partition) /\ final \in Seq(Partition)
                /\ places \in SUBSET DOMAIN original /\ places \in SUBSET DOMAIN final
                /\ newMap = Pruned(final, places)
            BY <1>1, <1>3 DEF OfKafka, ConcludedFrom, SetsOf
          <6>2. /\ IsFiniteSet(places) /\ places \in SUBSET Int
                /\ \A i \in 1 .. Cardinality(places) : base[i] = original[f[i]]
            BY <6>1, PrunedMap DEF base
          <6>3. /\ DOMAIN newMap = 1 .. Cardinality(places)
                /\ \A i \in 1 .. Cardinality(places) : newMap[i] = final[f[i]]
            BY <6>1, PrunedMap
          <6>4. f \in Bijection(1 .. Cardinality(places), places)
            BY <6>2, InOrderEnumerates
          <6> HIDE DEF f
          <6>5. PICK i \in 1 .. Cardinality(places) : f[i] = n
            BY <5>2, <6>4 DEF Bijection, Surjection
          <6> QED BY <3>2, <3>4, <6>2, <6>3, <6>5
        <5> QED BY <5>1, <5>2
      <4>4. ASSUME NEW n \in DOMAIN original
            PROVE  SamePartition(p[n], original[n]) /\ Arranged(p[n].replicas, m[n].replicas)
        <5>1. Arranged(final[n].replicas, m[n].replicas) /\ SamePartition(m[n], original[n])
          BY <1>3, <1>4 DEF ConcludedFrom, SetsOf
        <5>2. m[n].replicas \in Seq(Int)
          BY <1>4, SetsAreSequences
        <5>3. Range(final[n].replicas) = Range(m[n].replicas)
          BY <5>1, <5>2, ArrangedSequence
        <5>4. original[n].replicas \in Seq(Int) /\ original[n].replicas # <<>>
          BY <1>1, SetsAreSequences DEF OfKafka
        <5>5. 1 \in DOMAIN original[n].replicas
          BY <5>4
        <5>6. original[n].replicas[1] \in Range(m[n].replicas)
          BY <4>3, <5>3, <5>5 DEF Range
        <5>7. p[n] = m[n]
          BY <4>2, <5>6 DEF Phased
        <5>8. Arranged(m[n].replicas, m[n].replicas)
          BY <5>2, ArrangedSame
        <5> QED BY <5>1, <5>7, <5>8
      <4>5. DOMAIN p = DOMAIN original
        BY <4>2 DEF Phased
      <4> QED BY <4>1, <4>4, <4>5
    <3> QED BY <1>1, <1>2, <2>2, <3>3, <3>4 DEF Emitted, base
  <2> QED BY <2>1, <2>2
<1>9. Sets(FinalMap)
  BY <1>1, <1>8 DEF FinalMap
<1>10. Outcome(m)
  BY <1>1, <1>3, <1>4, <1>5, <1>9 DEF Outcome
<1> QED BY <1>10

(* The set of a partition before, and whether a broker of it is wanted.    *)
LEMMA BeforeOf ==
  ASSUME params \in ParamSets, Cluster, NEW n \in DOMAIN original, NEW p, SamePartition(p, original[n])
  PROVE  /\ Before(p) = Resized[n].replicas
         /\ \A id \in Range(Before(p)) : id = StubBrokerID \/ id \in Range(original[n].replicas)
         /\ Range(Before(p)) \cap Wanted \subseteq Range(Before(p)) \cap NotReplaced(bmOrig)
         /\ Len(Basis[n].replicas) = Len(Before(p))
         /\ Range(Basis[n].replicas) \cap NotReplaced(bmOrig)
              \subseteq Range(Before(p)) \cap NotReplaced(bmOrig)
         /\ ~params.forceRebuild => Basis[n].replicas = Before(p)
<1>1. Derived(Resized, original) /\ OfKafka(original)
  BY BasisMap DEF Cluster
<1>2. DOMAIN Resized = DOMAIN original /\ Resized[n] \in Range(Resized) /\ SamePartition(p, Resized[n])
  BY <1>1 DEF Derived, Range, SamePartition
<1>3. ASSUME NEW q \in Range(Resized), SamePartition(p, q)
      PROVE  q = Resized[n]
  <2>1. PICK k \in DOMAIN original : q = Resized[k]
    BY <1>2 DEF Range
  <2>2. SamePartition(original[k], original[n])
    BY <1>1, <1>3, <2>1 DEF Derived, SamePartition
  <2> QED BY <1>1, <2>1, <2>2, UniqueNames
<1>4. Before(p) = Resized[n].replicas
  <2>1. (CHOOSE q \in Range(Resized) : SamePartition(p, q)) = Resized[n]
    <3> HIDE DEF Resized, SamePartition
    <3> QED BY <1>2, <1>3
  <2> QED BY <2>1 DEF Before
<1>5. \A id \in Range(Before(p)) : id = StubBrokerID \/ id \in Range(original[n].replicas)
  BY <1>1, <1>4 DEF Derived, StandsFor, Range
<1>6. Range(Before(p)) \cap Wanted \subseteq Range(Before(p)) \cap NotReplaced(bmOrig)
  <2> SUFFICES ASSUME NEW id \in Range(Before(p)), id \in Wanted
               PROVE  id \in NotReplaced(bmOrig)
    OBVIOUS
  <2>1. StubBrokerID \notin Wanted /\ Offline \notin Wanted
    <3>1. StubBrokerID \notin params.brokers
      BY InputAssumption DEF AllExisting, AllDiscovered, StubBrokerID
    <3>2. /\ StubBrokerID \notin DOMAIN meta /\ StubBrokerID \notin OnlineIn(original)
          /\ DOMAIN meta \subseteq Nat
      BY <1>1, MetaTypes DEF OfKafka
    <3>3. StubBrokerID \notin Wanted
      BY <3>1, <3>2 DEF Wanted, Provided
    <3>4. Wanted \subseteq Nat
      BY <3>2 DEF Wanted
    <3> QED BY <3>3, <3>4 DEF Offline
  <2>2. id \in OnlineIn(original)
    BY <1>5, <2>1 DEF OnlineIn, BrokersIn
  <2> QED BY <2>2 DEF Cluster
<1>7. CASE ~params.forceRebuild
  <2>1. Basis[n].replicas = Before(p)
    BY <1>4, <1>7 DEF Basis
  <2> QED BY <1>4, <1>5, <1>6, <2>1
<1>8. CASE params.forceRebuild
  <2>1. Basis = Strip(Resized)
    BY <1>8 DEF Basis
  <2>2. /\ Len(Basis[n].replicas) = Len(Before(p))
        /\ \A i \in DOMAIN Basis[n].replicas : Basis[n].replicas[i] = StubBrokerID
    <3>1. Derived(Resized, original)
      BY <1>1
    <3>2. /\ Len(Strip(Resized)[n].replicas) = Len(Resized[n].replicas)
          /\ \A i \in DOMAIN Strip(Resized)[n].replicas : Strip(Resized)[n].replicas[i] = StubBrokerID
      BY <3>1, StrippedMap
    <3> QED BY <1>4, <2>1, <3>2
  <2>3. Range(Basis[n].replicas) \cap NotReplaced(bmOrig) = {}
    BY <2>2 DEF Range, NotReplaced, Real
  <2> QED BY <1>4, <1>5, <1>6, <1>8, <2>2, <2>3
<1> QED BY <1>7, <1>8

-----------------------------------------------------------------------------
(* The theorems.                                                           *)

(* getPartitionMapChunks ends with the map that was built, however many    *)
(* chunks there are, if no replica that it starts from is offline, and no  *)
(* chunk names a broker that is neither in the map before it nor in that   *)
(* one.                                                                    *)
THEOREM ChunksEndWithTheMap == Spec => []ChunksConverge
<1>1. RebuildInv => ChunksConverge
  <2> SUFFICES ASSUME RebuildInv PROVE ChunksConverge
    OBVIOUS
  <2> SUFFICES ASSUME pc \in {"chunk", "write"}, params.chunkStepSize > 0
               PROVE  /\ pc = "write" /\ Converges => mid = newMap
                      /\ \A n \in DOMAIN mid : \A j \in DOMAIN mid[n].replicas :
                           mid[n].replicas[j] \in left \cup Range(newMap[n].replicas) \cup {Offline}
    BY DEF RebuildInv, ConcludeInv, ChunksConverge
  <2>1. OfKafka(original)
    BY DEF RebuildInv, TypeInv, Cluster
  <2>2. PICK m, final, places : BuiltFrom(m, final, places) /\ Emitted(m, places)
    BY DEF RebuildInv, ConcludeInv
  <2> DEFINE base == Pruned(original, places)
  <2>3. Mixed(mid, base, newMap, left) /\ (pc = "write" => left = {})
    BY <2>2 DEF Emitted
  <2>4. ConcludedFrom(m, final, places, newMap)
    BY <2>2 DEF BuiltFrom
  <2>5. newMap \in Seq(Partition) /\ base \in Seq(Partition)
    BY <2>1, <2>4, PrunedSets
  <2>6. ASSUME pc = "write", Converges
        PROVE  mid = newMap
    <3>1. Mixed(mid, base, newMap, {})
      BY <2>3, <2>6
    <3>2. /\ mid \in Seq(Partition) /\ DOMAIN mid = DOMAIN newMap
          /\ \A i \in DOMAIN newMap : mid[i].replicas = newMap[i].replicas /\ mid[i] = newMap[i]
      BY <2>1, <2>4, <2>6, <3>1, MixedEnds DEF Converges
    <3>3. mid = [i \in DOMAIN newMap |-> mid[i]] /\ newMap = [i \in DOMAIN newMap |-> newMap[i]]
      BY <2>5, <3>2
    <3> QED BY <3>2, <3>3
  <2> HIDE DEF base
  <2>7. ASSUME NEW n \in DOMAIN mid, NEW j \in DOMAIN mid[n].replicas
        PROVE  mid[n].replicas[j] \in left \cup Range(newMap[n].replicas) \cup {Offline}
    <3>1. mid \in Seq(Partition) /\ n \in DOMAIN base /\ n \in DOMAIN newMap
      BY <2>3 DEF Mixed
    <3>2. /\ mid[n].replicas \in Seq(Int) /\ base[n].replicas \in Seq(Int)
          /\ newMap[n].replicas \in Seq(Int) /\ Len(mid[n].replicas) = Len(base[n].replicas)
      BY <2>3, <2>5, <3>1, SetsAreSequences DEF Mixed
    <3>3. j \in DOMAIN base[n].replicas
      BY <3>2
    <3>4. CASE mid[n].replicas[j] \in left \cup {Offline}
      BY <3>4
    <3>5. CASE /\ Len(newMap[n].replicas) = Len(base[n].replicas)
               /\ mid[n].replicas[j] = newMap[n].replicas[j]
      <4>1. j \in DOMAIN newMap[n].replicas
        BY <3>2, <3>3, <3>5
      <4> QED BY <3>5, <4>1 DEF Range
    <3> QED BY <2>3, <3>1, <3>3, <3>4, <3>5 DEF Mixed
  <2> QED BY <2>6, <2>7
<1> QED BY <1>1, RebuildInvariant, PTL

(* phasedReassignment: the first map keeps the broker that leads each      *)
(* partition, and otherwise has the sets of the last map, also when no-ops *)
(* are skipped, leadership is evacuated or the rest is split into chunks.  *)
THEOREM FirstPhaseKeepsLeaders == Spec => []PhaseKeepsLeader
<1>1. RebuildInv => PhaseKeepsLeader
  <2> SUFFICES ASSUME RebuildInv, Done, params.phased, NEW n \in DOMAIN original
               PROVE  LET leader == original[n].replicas[1]
                      IN  /\ leader \in Range(written[1][n].replicas)
                          /\ \A k \in DOMAIN FinalMap : SamePartition(FinalMap[k], original[n]) =>
                               Range(written[1][n].replicas) = {leader} \cup Range(FinalMap[k].replicas)
    BY DEF PhaseKeepsLeader
  <2>1. PICK m : Outcome(m)
    BY FinalSets
  <2>2. OfKafka(original)
    BY DEF RebuildInv, TypeInv, Cluster, Done
  <2>3. Phased(written[1], m) /\ m \in Seq(Partition) /\ DOMAIN m = DOMAIN original
    BY <2>1, <2>2, PhasedMap DEF Outcome
  <2>4. Range(written[1][n].replicas) = {original[n].replicas[1]} \cup Range(m[n].replicas)
    BY <2>3 DEF Phased
  <2>5. ASSUME NEW k \in DOMAIN FinalMap, SamePartition(FinalMap[k], original[n])
        PROVE  Range(FinalMap[k].replicas) = Range(m[n].replicas)
    <3>1. PICK i \in DOMAIN original : /\ SamePartition(FinalMap[k], original[i])
                                       /\ Arranged(FinalMap[k].replicas, m[i].replicas)
      BY <2>1 DEF Outcome
    <3>2. SamePartition(original[i], original[n])
      BY <2>5, <3>1 DEF SamePartition
    <3>3. i = n
      BY <2>2, <3>2, UniqueNames
    <3>4. m[n].replicas \in Seq(Int)
      BY <2>3, SetsAreSequences
    <3> QED BY <3>1, <3>3, <3>4, ArrangedSequence
  <2> QED BY <2>4, <2>5
<1> QED BY <1>1, RebuildInvariant, PTL

(* No map that is written assigns a partition twice to a broker, whatever  *)
(* replicas placeByPosition or placeByPartition kept and placed, phases    *)
(* and the last chunk included, unless chunks start from a map that has    *)
(* offline replicas.                                                       *)
THEOREM NoReplicaPlacedTwice == Spec => []NoBrokerTwice
<1>1. RebuildInv => NoBrokerTwice
  <2> SUFFICES ASSUME RebuildInv, NEW k \in DOMAIN written, NEW n \in DOMAIN written[k],
                      ~(k < Len(written) /\ params.chunkStepSize > 0 /\ Reordered), Converges
               PROVE  IsInjective(written[k][n].replicas)
    BY DEF NoBrokerTwice
  <2>1. pc = "done" /\ written = outputs /\ written # <<>>
    BY DEF RebuildInv, WrittenInv
  <2>2. PICK m, final, places : BuiltFrom(m, final, places) /\ Emitted(m, places)
    BY <2>1 DEF RebuildInv, ConcludeInv
  <2>3. CASE Sound(written[k])
    BY <2>3 DEF Sound
  <2>4. CASE k = Len(written)
    <3>1. PICK x : Outcome(x)
      BY <2>1, FinalSets DEF Done
    <3>2. n \in DOMAIN FinalMap /\ written[k] = FinalMap
      BY <2>4 DEF FinalMap
    <3>3. PICK i \in DOMAIN original : Arranged(FinalMap[n].replicas, x[i].replicas)
      BY <3>1, <3>2 DEF Outcome
    <3>4. Good(x[i].replicas, Basis[i].replicas, bmOrig, params.minRackIds)
      BY <3>1 DEF Outcome, SetsGood
    <3>5. IsInjective(FinalMap[n].replicas)
      BY <3>3, <3>4, ArrangedGood DEF Good
    <3> QED BY <3>2, <3>5
  <2>5. k \in Nat /\ Len(written) \in Nat /\ k <= Len(written)
    <3>1. written \in Seq(Seq(Partition))
      BY <2>1, <2>2 DEF Emitted
    <3> QED BY <3>1
  <2>6. Sound(written[k]) \/ (params.chunkStepSize > 0 /\ Reordered)
    <3> DEFINE base == Pruned(original, places)
    <3> SUFFICES ASSUME params.chunkStepSize > 0 PROVE ~Stuck(places)
      BY <2>1, <2>2 DEF Emitted
    <3>1. Mixed(mid, base, newMap, left) /\ Offline \notin BrokersIn(mid)
      BY <2>2 DEF Emitted, Converges
    <3>2. base \in Seq(Partition) /\ mid \in Seq(Partition)
      <4>1. OfKafka(original)
        BY <2>1 DEF RebuildInv, TypeInv, Cluster
      <4>2. ConcludedFrom(m, final, places, newMap)
        BY <2>2 DEF BuiltFrom
      <4> QED BY <3>1, <4>1, <4>2, PrunedSets DEF Mixed
    <3> HIDE DEF base
    <3>3. ASSUME NEW i \in DOMAIN base, NEW j \in DOMAIN base[i].replicas, base[i].replicas[j] = Offline
          PROVE  FALSE
      <4>1. /\ i \in DOMAIN mid /\ mid[i].replicas[j] = Offline
            /\ Len(mid[i].replicas) = Len(base[i].replicas)
        BY <3>1, <3>3 DEF Mixed
      <4>2. mid[i].replicas \in Seq(Int) /\ base[i].replicas \in Seq(Int)
        BY <3>2, <3>3, <4>1, SetsAreSequences
      <4>3. j \in DOMAIN mid[i].replicas
        BY <3>3, <4>1, <4>2
      <4> QED BY <3>1, <4>1, <4>3 DEF BrokersIn, Range
    <3> QED BY <3>3 DEF Stuck, BrokersIn, Range, base
  <2> QED BY <2>3, <2>4, <2>5, <2>6
<1> QED BY <1>1, RebuildInvariant, PTL

(* The map that is built uses only brokers of the list that are there, and *)
(* with every position visited it keeps each of them that a set had,       *)
(* unless the rebuild is forced.                                           *)
THEOREM ProvidedBrokersUsed == Spec => []OnlyProvidedBrokers
<1>1. RebuildInv => OnlyProvidedBrokers
  <2> SUFFICES ASSUME RebuildInv, Done, NEW k \in DOMAIN FinalMap
               PROVE  /\ Range(FinalMap[k].replicas) \subseteq Wanted
                      /\ ~params.forceRebuild /\ AllVisited =>
                           Range(Before(FinalMap[k])) \cap Wanted \subseteq Range(FinalMap[k].replicas)
    BY DEF OnlyProvidedBrokers
  <2> HIDE DEF AllVisited
  <2>1. PICK m : Outcome(m)
    BY FinalSets
  <2>2. Cluster /\ params \in ParamSets
    BY DEF RebuildInv, TypeInv, Done
  <2>3. PICK n \in DOMAIN original : /\ SamePartition(FinalMap[k], original[n])
                                     /\ Arranged(FinalMap[k].replicas, m[n].replicas)
    BY <2>1 DEF Outcome
  <2>4. /\ Good(m[n].replicas, Basis[n].replicas, bmOrig, params.minRackIds)
        /\ AllVisited => Range(Basis[n].replicas) \cap NotReplaced(bmOrig) \subseteq Range(m[n].replicas)
    BY <2>1 DEF Outcome, SetsGood
  <2>5. Range(FinalMap[k].replicas) = Range(m[n].replicas)
    BY <2>3, <2>4, ArrangedGood
  <2>6. Range(m[n].replicas) \subseteq Wanted
    BY <2>2, <2>4 DEF Good, Cluster
  <2>7. /\ Range(Before(FinalMap[k])) \cap Wanted \subseteq Range(Before(FinalMap[k])) \cap NotReplaced(bmOrig)
        /\ ~params.forceRebuild => Basis[n].replicas = Before(FinalMap[k])
    BY <2>2, <2>3, BeforeOf
  <2> QED BY <2>4, <2>5, <2>6, <2>7
<1> QED BY <1>1, RebuildInvariant, PTL

(* A rebuild that gives no warning and comes to every position gives every *)
(* partition the replication asked for, or else the one it had.            *)
THEOREM ReplicationAsAsked == Spec => []ReplicationKept
<1>1. RebuildInv => ReplicationKept
  <2> SUFFICES ASSUME RebuildInv, AllVisited, Done, warns = {}, NEW k \in DOMAIN FinalMap
               PROVE  Len(FinalMap[k].replicas) = Len(Before(FinalMap[k]))
    BY DEF ReplicationKept
  <2> HIDE DEF AllVisited
  <2>1. PICK m : Outcome(m)
    BY FinalSets
  <2>2. Cluster /\ params \in ParamSets
    BY DEF RebuildInv, TypeInv, Done
  <2>3. PICK n \in DOMAIN original : /\ SamePartition(FinalMap[k], original[n])
                                     /\ Arranged(FinalMap[k].replicas, m[n].replicas)
    BY <2>1 DEF Outcome
  <2>4. /\ Good(m[n].replicas, Basis[n].replicas, bmOrig, params.minRackIds)
        /\ Len(m[n].replicas) = Len(Basis[n].replicas)
    BY <2>1 DEF Outcome, SetsGood
  <2>5. Len(FinalMap[k].replicas) = Len(m[n].replicas)
    BY <2>3, <2>4, ArrangedGood
  <2>6. Len(Basis[n].replicas) = Len(Before(FinalMap[k]))
    BY <2>2, <2>3, BeforeOf
  <2> QED BY <2>4, <2>5, <2>6
<1> QED BY <1>1, RebuildInvariant, PTL

(* A replica that is placed shares the rack of another of its set only if  *)
(* a minimum of racks is asked for, and then, with every position visited, *)
(* only in a set of so many racks.                                         *)
THEOREM RacksSpreadOut == Spec => []RacksSpread
<1>1. RebuildInv => RacksSpread
  <2> SUFFICES ASSUME RebuildInv, Done, NEW k \in DOMAIN FinalMap,
                      NEW a \in Range(FinalMap[k].replicas) \ Range(Before(FinalMap[k])),
                      NEW b \in Range(FinalMap[k].replicas) \ {a},
                      RackOf(a) # NoRack, RackOf(a) = RackOf(b)
               PROVE  /\ params.minRackIds > 0
                      /\ AllVisited =>
                           Cardinality({RackOf(id) : id \in Range(FinalMap[k].replicas)} \ {NoRack})
                             >= params.minRackIds
    BY DEF RacksSpread
  <2> HIDE DEF AllVisited
  <2>1. PICK m : Outcome(m)
    BY FinalSets
  <2>2. Cluster /\ params \in ParamSets
    BY DEF RebuildInv, TypeInv, Done
  <2>3. PICK n \in DOMAIN original : /\ SamePartition(FinalMap[k], original[n])
                                     /\ Arranged(FinalMap[k].replicas, m[n].replicas)
    BY <2>1 DEF Outcome
  <2> DEFINE rs == FinalMap[k].replicas
             old == Basis[n].replicas
  <2>4. Good(m[n].replicas, old, bmOrig, params.minRackIds)
    BY <2>1 DEF Outcome, SetsGood
  <2>5. Good(rs, old, bmOrig, params.minRackIds) /\ Range(rs) = Range(m[n].replicas)
    BY <2>3, <2>4, ArrangedGood
  <2>6. Range(rs) \subseteq NotReplaced(bmOrig) /\ Spread(rs, old, bmOrig, params.minRackIds)
    BY <2>5 DEF Good
  <2>7. a \notin Range(old)
    <3>1. Range(old) \cap NotReplaced(bmOrig) \subseteq Range(Before(FinalMap[k]))
      BY <2>2, <2>3, BeforeOf
    <3> QED BY <2>6, <3>1
  <2>8. b \in Around(rs, old, bmOrig) \ {a}
    BY DEF Around
  <2>9. /\ params.minRackIds > 0
        /\ Cardinality(RacksOf(Around(rs, old, bmOrig), bmOrig)) >= params.minRackIds
    BY <2>6, <2>7, <2>8 DEF Spread, RackOf
  <2>10. ASSUME AllVisited
         PROVE  Cardinality({RackOf(id) : id \in Range(rs)} \ {NoRack}) >= params.minRackIds
    <3>1. Range(old) \cap NotReplaced(bmOrig) \subseteq Range(rs)
      BY <2>1, <2>5, <2>10 DEF Outcome, SetsGood
    <3>2. Around(rs, old, bmOrig) = Range(rs)
      BY <3>1 DEF Around
    <3>3. RacksOf(Range(rs), bmOrig) = {RackOf(id) : id \in Range(rs)} \ {NoRack}
      BY DEF RacksOf, RackOf
    <3> QED BY <2>9, <3>2, <3>3
  <2> QED BY <2>9, <2>10
<1> QED BY <1>1, RebuildInvariant, PTL

-----------------------------------------------------------------------------
(* The storage of the brokers.  m is the map that is built from old, which *)
(* has stubs where replicas are placed.                                    *)

(* The partitions that a broker is given, and their size.                  *)
Gaining(m, id, old) ==
    {n \in DOMAIN m : id \in Range(m[n].replicas) /\ id \notin Range(old[n].replicas)}
Loads(m, factor) == [n \in DOMAIN m |-> Size(m[n]) * factor]
Load(m, id, old, factor) == SumFunctionOnSet(Loads(m, factor), Gaining(m, id, old))

(* A broker started with so much free storage.                             *)
Balance(id, m, old, free, start, p) ==
    /\ free = start - Load(m, id, old, p.sizeFactor)
    /\ p.minRackIds = 0 /\ Gaining(m, id, old) # {} => free >= 0

(* What a broker gains is a natural number.                                *)
LEMMA LoadsNat ==
  ASSUME NEW m \in Seq(Partition), NEW factor \in Nat, NEW id, NEW old
  PROVE  /\ IsFiniteSet(Gaining(m, id, old)) /\ Gaining(m, id, old) \subseteq DOMAIN m
         /\ \A n \in DOMAIN m : Loads(m, factor)[n] \in Nat
         /\ Load(m, id, old, factor) \in Nat
<1>1. IsFiniteSet(DOMAIN m)
  BY SequenceRange
<1>2. Gaining(m, id, old) \in SUBSET DOMAIN m
  BY DEF Gaining
<1>3. IsFiniteSet(Gaining(m, id, old))
  BY <1>1, <1>2, FS_Subset
<1>4. \A x, y \in Nat : x * y \in Nat
  OBVIOUS
<1>5. \A n \in DOMAIN m : Loads(m, factor)[n] \in Nat
  <2>1. \A n \in DOMAIN m : Size(m[n]) \in Nat
    BY SizeNat
  <2> QED BY <1>4, <2>1 DEF Loads
<1>6. Load(m, id, old, factor) \in Nat
  <2> DEFINE S == Gaining(m, id, old)
             w == Loads(m, factor)
  <2>1. IsFiniteSet(S) /\ \A n \in S : w[n] \in Nat
    BY <1>2, <1>3, <1>5
  <2> HIDE DEF S, w
  <2>2. SumFunctionOnSet(w, S) \in Nat
    BY <2>1, SumNat
  <2> QED BY <2>2 DEF Load, S, w
<1> QED BY <1>2, <1>3, <1>5, <1>6

(* The size of a partition does not depend on its replicas.                *)
LEMMA SameSize ==
  ASSUME NEW p, NEW q, SamePartition(p, q)
  PROVE  Size(p) = Size(q)
BY DEF SamePartition, Size, HasSize

(* Nothing has been placed yet.                                            *)
LEMMA BalanceStart ==
  ASSUME NEW id, NEW m, NEW old, NEW start \in Int, NEW p, \A n \in DOMAIN m : m[n].replicas = <<>>
  PROVE  Balance(id, m, old, start, start, p)
<1>1. Gaining(m, id, old) = {}
  BY DEF Gaining, Range
<1>2. Load(m, id, old, p.sizeFactor) = 0
  BY <1>1, SumEmpty DEF Load
<1> QED BY <1>1, <1>2 DEF Balance

(* The same sets, or sets with brokers that they had before.               *)
LEMMA BalanceSame ==
  ASSUME NEW id, NEW m, NEW x, NEW old, NEW free, NEW start, NEW p,
         Balance(id, m, old, free, start, p), DOMAIN x = DOMAIN m,
         \A n \in DOMAIN m : SamePartition(x[n], m[n]),
         \A n \in DOMAIN m : id \in Range(x[n].replicas) \ Range(old[n].replicas)
                               <=> id \in Range(m[n].replicas) \ Range(old[n].replicas)
  PROVE  Balance(id, x, old, free, start, p)
<1>1. Gaining(x, id, old) = Gaining(m, id, old)
  BY DEF Gaining
<1>2. Loads(x, p.sizeFactor) = Loads(m, p.sizeFactor)
  <2>1. \A n \in DOMAIN m : Size(x[n]) = Size(m[n])
    BY SameSize
  <2> QED BY <2>1 DEF Loads
<1> QED BY <1>1, <1>2 DEF Balance, Load

(* A broker is given one more partition.                                   *)
LEMMA BalanceTake ==
  ASSUME NEW id, NEW m \in Seq(Partition), NEW x \in Seq(Partition), NEW old, NEW free \in Int,
         NEW start \in Int, NEW p, p.sizeFactor \in Nat,
         Balance(id, m, old, free, start, p), DOMAIN x = DOMAIN m, NEW k \in DOMAIN m,
         \A n \in DOMAIN m : SamePartition(x[n], m[n]),
         \A n \in DOMAIN m : n # k => x[n] = m[n],
         id \in Range(x[k].replicas), id \notin Range(old[k].replicas), id \notin Range(m[k].replicas),
         NEW rest, rest = free - Size(m[k]) * p.sizeFactor, p.minRackIds = 0 => rest >= 0
  PROVE  Balance(id, x, old, rest, start, p)
<1> DEFINE G == Gaining(m, id, old)
           H == Gaining(x, id, old)
           w == Loads(m, p.sizeFactor)
           v == Loads(x, p.sizeFactor)
<1>1. H \ {k} = G /\ k \in H
  BY DEF Gaining
<1>2. v = w /\ w[k] = Size(m[k]) * p.sizeFactor
  <2>1. \A n \in DOMAIN m : Size(x[n]) = Size(m[n])
    BY SameSize
  <2> QED BY <2>1 DEF Loads
<1>3. IsFiniteSet(H) /\ H \subseteq DOMAIN x /\ \A n \in DOMAIN x : v[n] \in Nat
  BY LoadsNat
<1>4. SumFunctionOnSet(w, G) \in Nat /\ \A n \in DOMAIN m : w[n] \in Nat
  BY LoadsNat DEF Load
<1>5. free = start - SumFunctionOnSet(w, G)
  BY DEF Balance, Load
<1> HIDE DEF G, H, w, v
<1>6. SumFunctionOnSet(v, H) = v[k] + SumFunctionOnSet(v, G)
  <2>1. \A n \in H : v[n] \in Int
    BY <1>3
  <2> QED BY <1>1, <1>3, <2>1, SumRemove
<1>7. rest = start - SumFunctionOnSet(v, H)
  BY <1>2, <1>4, <1>5, <1>6
<1> QED BY <1>7 DEF Balance, Load, v, H

(* The partitions are put in another order.                                *)
LEMMA BalanceMove ==
  ASSUME NEW id, NEW m \in Seq(Partition), NEW x \in Seq(Partition), NEW old, NEW was, NEW free,
         NEW start, NEW p, p.sizeFactor \in Nat, Balance(id, m, old, free, start, p),
         DOMAIN x = DOMAIN m, NEW g \in Bijection(DOMAIN m, DOMAIN m),
         \A n \in DOMAIN m : SamePartition(x[n], m[g[n]]),
         \A n \in DOMAIN m : Range(x[n].replicas) = Range(m[g[n]].replicas),
         \A n \in DOMAIN m : was[n].replicas = old[g[n]].replicas
  PROVE  Balance(id, x, was, free, start, p)
<1> DEFINE G == Gaining(m, id, old)
           H == Gaining(x, id, was)
           w == Loads(m, p.sizeFactor)
           v == Loads(x, p.sizeFactor)
<1>1. /\ g \in [DOMAIN m -> DOMAIN m] /\ \A i, j \in DOMAIN m : g[i] = g[j] => i = j
      /\ \A j \in DOMAIN m : \E i \in DOMAIN m : g[i] = j
  BY DEF Bijection, Injection, Surjection, IsInjective
<1>2. G = {g[n] : n \in H}
  <2>1. \A n \in DOMAIN m : n \in H <=> g[n] \in G
    BY <1>1 DEF Gaining
  <2>2. G \subseteq DOMAIN m /\ H \subseteq DOMAIN m
    BY DEF Gaining
  <2> HIDE DEF G, H
  <2> QED BY <1>1, <2>1, <2>2
<1>3. IsFiniteSet(H) /\ H \subseteq DOMAIN x /\ \A n \in DOMAIN x : v[n] \in Nat
  BY LoadsNat
<1>4. \A n \in DOMAIN m : w[g[n]] = v[n]
  <2>1. \A n \in DOMAIN m : Size(x[n]) = Size(m[g[n]]) /\ g[n] \in DOMAIN m
    BY <1>1, SameSize
  <2> QED BY <2>1 DEF Loads
<1> HIDE DEF G, H, w, v
<1>5. SumFunctionOnSet(v, H) = SumFunctionOnSet(w, {g[n] : n \in H})
  <2>1. \A i, j \in H : g[i] = g[j] => i = j
    BY <1>1, <1>3
  <2>2. \A n \in H : v[n] \in Int /\ w[g[n]] = v[n]
    BY <1>3, <1>4
  <2> QED BY <1>3, <2>1, <2>2, SumImage
<1>6. SumFunctionOnSet(v, H) = SumFunctionOnSet(w, G)
  BY <1>2, <1>5
<1>7. Load(x, id, was, p.sizeFactor) = Load(m, id, old, p.sizeFactor)
  BY <1>6 DEF Load, G, H, w, v
<1>8. H # {} => G # {}
  BY <1>2
<1>9. Gaining(x, id, was) # {} => Gaining(m, id, old) # {}
  BY <1>8 DEF G, H
<1> QED BY <1>7, <1>9 DEF Balance

(* What a broker that stays starts with, and what it has left.             *)
Start(id) == bmOrig[id].free + Lifted(id)
StorageInv ==
    Storage => \A id \in NotReplaced(bmOrig) :
      /\ pc = "place" => Balance(id, newMap, pm, bm[id].free, Start(id), params)
      /\ pc \in {"optimize", "conclude"} => Balance(id, newMap, Basis, bm[id].free, Start(id), params)

(* The storage that a placement starts from is a number.                   *)
LEMMA StartInt ==
  ASSUME params \in ParamSets, Cluster, NEW id \in NotReplaced(bmOrig)
  PROVE  Start(id) \in Int /\ bmOrig[id].free \in Int /\ Lifted(id) \in Int
<1>1. bmOrig[id] \in BrokerRecord
  BY DEF Cluster, NotReplaced, Real
<1>2. bmOrig[id].free \in Int
  BY <1>1 DEF BrokerRecord
<1>3. Resized \in Seq(Partition)
  BY BasisMap DEF Derived
<1>4. SizeOn(Resized, id) \in Nat
  BY <1>3, SizeOnNat
<1>5. Lifted(id) \in Int
  BY <1>4 DEF Lifted
<1> QED BY <1>2, <1>5 DEF Start

(* Steps that leave the inputs alone keep the storage that the placement   *)
(* starts from.                                                            *)
LEMMA StartFrame ==
  ASSUME UNCHANGED <<params, original, bmOrig>>
  PROVE  /\ Storage' = Storage /\ NotReplaced(bmOrig)' = NotReplaced(bmOrig)
         /\ \A id : Start(id)' = Start(id)
BY DEF Storage, Start, Lifted, Resized

(* Prepare establishes the storage invariant.                              *)
LEMMA StoragePrepare ==
  ASSUME TypeInv, Prepare
  PROVE  StorageInv'
<1> DEFINE lifted == IF params.forceRebuild THEN Real(bm) ELSE Real(bm) \ NotReplaced(bm)
<1>1. pc = "prepare" /\ UNCHANGED <<params, original, bmOrig>> /\ pc' \in {"place", "exit"}
  BY Zenon DEF Prepare
<1>2. Cluster /\ pm = original /\ bm = bmOrig /\ params \in ParamSets
  BY <1>1 DEF TypeInv
<1>3. Storage' = Storage /\ \A id : Start(id)' = Start(id)
  BY <1>1, StartFrame
<1> SUFFICES ASSUME pc' = "place", Storage, NEW id \in NotReplaced(bmOrig)
             PROVE  Balance(id, newMap, pm, bm[id].free, Start(id), params)'
  BY <1>1, <1>3 DEF StorageInv
<1>4. /\ bm' = SubStorage(bm, updateReplicationFactor, lifted)
      /\ newMap' = [n \in DOMAIN pm' |-> WithReplicas(pm'[n], <<>>)]
  BY Zenon DEF Prepare
<1>5. pm' \in Seq(Partition)
  BY TypePrepare DEF TypeInv
<1>6. \A n \in DOMAIN newMap' : newMap'[n].replicas = <<>>
  <2>1. \A n \in DOMAIN pm' : pm'[n] \in Partition
    BY <1>5
  <2> QED BY <1>4, <2>1 DEF WithReplicas, Partition
<1>7. bm'[id].free = Start(id)
  <2>1. updateReplicationFactor = Resized /\ Resized \in Seq(Partition)
    BY <1>2, BasisMap DEF updateReplicationFactor, Resized, Derived
  <2>2. bm \in [DOMAIN bm -> BrokerRecord] /\ id \in DOMAIN bm /\ id \in NotReplaced(bm) /\ id \in Real(bm)
    BY <1>2 DEF Cluster, NotReplaced, Real
  <2> HIDE DEF lifted
  <2>3. bm'[id].free = IF id \in lifted THEN bm[id].free + SizeOn(Resized, id) ELSE bm[id].free
    BY <1>4, <2>1, <2>2, LiftedStorage
  <2>4. bm[id].free \in Int
    BY <1>2, StartInt
  <2>5. CASE params.forceRebuild
    BY <1>2, <2>2, <2>3, <2>5 DEF lifted, Start, Lifted
  <2>6. CASE ~params.forceRebuild
    BY <1>2, <2>2, <2>3, <2>4, <2>6 DEF lifted, Start, Lifted
  <2> QED BY <2>5, <2>6
<1>8. Start(id) \in Int
  BY <1>2, StartInt
<1>9. Balance(id, newMap', pm', bm'[id].free, Start(id), params)
  <2> DEFINE m == newMap'
             p == pm'
  <2>1. \A n \in DOMAIN m : m[n].replicas = <<>>
    BY <1>6
  <2> HIDE DEF m, p
  <2>2. Balance(id, m, p, Start(id), Start(id), params)
    BY <1>8, <2>1, BalanceStart
  <2> QED BY <1>7, <2>2 DEF m, p
<1>10. Balance(id, newMap', pm', bm'[id].free, Start(id)', params')
  BY <1>1, <1>3, <1>9
<1> QED BY <1>10 DEF Balance, Load, Gaining, Loads

(* Skip, Keep, Replace and LeaveOut preserve the storage invariant.        *)
LEMMA StorageVisit ==
  ASSUME TypeInv, PlaceInv, StorageInv, Skip \/ Keep \/ Replace \/ LeaveOut
  PROVE  StorageInv'
<1>1. Visiting /\ Cluster /\ SameBrokers /\ Substitutes /\ Placing
  BY VisitStep
<1>2. Skipped \/ Kept \/ LeftOut \/ \E x : Replaced(x)
  BY VisitStep
<1>3. /\ UNCHANGED <<pc, params, original, pm, bmOrig>> /\ pc = "place" /\ slot.n \in DOMAIN pm
      /\ params \in ParamSets /\ newMap \in Seq(Partition) /\ DOMAIN newMap = DOMAIN pm /\ SetsSoFar
  BY <1>1 DEF Visiting, TypeInv, Placing, PlaceInv
<1>4. Storage' = Storage /\ \A id : Start(id)' = Start(id)
  BY <1>3, StartFrame
<1> PICK k, i : k = slot.n /\ i = slot.i
  OBVIOUS
<1> SUFFICES ASSUME Storage, NEW id \in NotReplaced(bmOrig)
             PROVE  Balance(id, newMap', pm, bm'[id].free, Start(id), params)
  <2>1. ASSUME Storage, NEW id \in NotReplaced(bmOrig),
               Balance(id, newMap', pm, bm'[id].free, Start(id), params)
        PROVE  Balance(id, newMap, pm, bm[id].free, Start(id), params)'
    <3>1. Balance(id, newMap', pm', bm'[id].free, Start(id)', params')
      BY <1>3, <1>4, <2>1
    <3> QED BY <3>1 DEF Balance, Load, Gaining, Loads
  <2> QED BY <1>3, <1>4, <2>1 DEF StorageInv
<1>5. Balance(id, newMap, pm, bm[id].free, Start(id), params)
  BY <1>3 DEF StorageInv
<1>6. /\ newMap[k].replicas \in Seq(Int) /\ pm[k].replicas \in Seq(Int)
      /\ Range(newMap[k].replicas) \subseteq NotReplaced(bmOrig) /\ id \in DOMAIN bm
  <2>1. Partial(newMap[k].replicas, pm[k].replicas, Seen(k), bmOrig, params.minRackIds)
    BY <1>3 DEF SetsSoFar
  <2>2. pm \in Seq(Partition)
    BY DEF TypeInv
  <2> QED BY <1>1, <1>3, <2>1, <2>2, SetsAreSequences DEF Partial, SameBrokers, NotReplaced, Real
<1>7. ASSUME NEW x \in Nat, Appended(x)
      PROVE  /\ newMap' \in Seq(Partition) /\ DOMAIN newMap' = DOMAIN newMap
             /\ \A n \in DOMAIN newMap : n # k => newMap'[n] = newMap[n]
             /\ \A n \in DOMAIN newMap : SamePartition(newMap'[n], newMap[n])
             /\ Range(newMap'[k].replicas) = Range(newMap[k].replicas) \cup {x}
  <2>1. /\ newMap' \in Seq(Partition) /\ DOMAIN newMap' = DOMAIN newMap
        /\ \A n \in DOMAIN newMap : n # k => newMap'[n] = newMap[n]
        /\ \A n \in DOMAIN newMap : SamePartition(newMap'[n], newMap[n])
        /\ newMap'[k].replicas = Append(newMap[k].replicas, x)
    BY <1>7 DEF Appended, SamePartition
  <2>2. Range(newMap'[k].replicas) = Range(newMap[k].replicas) \cup {x}
    BY <1>6, <2>1, AppendedSet
  <2> QED BY <2>1, <2>2
<1>8. ASSUME NEW x \in Nat, Appended(x), id # x \/ id \in Range(pm[k].replicas), bm'[id].free = bm[id].free
      PROVE  Balance(id, newMap', pm, bm'[id].free, Start(id), params)
  <2>1. /\ DOMAIN newMap' = DOMAIN newMap /\ \A n \in DOMAIN newMap : SamePartition(newMap'[n], newMap[n])
        /\ \A n \in DOMAIN newMap : n # k => newMap'[n] = newMap[n]
        /\ Range(newMap'[k].replicas) = Range(newMap[k].replicas) \cup {x}
    BY <1>7, <1>8
  <2>2. \A n \in DOMAIN newMap : id \in Range(newMap'[n].replicas) \ Range(pm[n].replicas)
                                   <=> id \in Range(newMap[n].replicas) \ Range(pm[n].replicas)
    BY <1>8, <2>1
  <2>3. Balance(id, newMap', pm, bm[id].free, Start(id), params)
    BY <1>5, <2>1, <2>2, BalanceSame
  <2> QED BY <1>8, <2>3
<1>9. CASE Skipped
  BY <1>5, <1>9 DEF Skipped
<1>10. CASE LeftOut
  BY <1>5, <1>6, <1>10 DEF LeftOut
<1>11. CASE Kept
  <2>1. bid \in Range(pm[k].replicas)
    <3>1. i \in DOMAIN pm[k].replicas
      BY <1>1, <1>11, SeenNext DEF Kept
    <3> QED BY <3>1 DEF bid, Range
  <2>2. Appended(bid) /\ bm'[id].free = bm[id].free /\ bid \in Nat
    BY <1>1, <1>11 DEF Kept, Cluster, NotReplaced, Real
  <2>3. id # bid \/ id \in Range(pm[k].replicas)
    BY <2>1
  <2> QED BY <1>8, <2>2, <2>3
<1>12. ASSUME NEW x, Replaced(x)
       PROVE  Balance(id, newMap', pm, bm'[id].free, Start(id), params)
  <2>1. /\ Passes(x) /\ Appended(x) /\ bm'[x].free = bm[x].free - Request
        /\ \A y \in DOMAIN bm \ {x} : bm'[y].free = bm[y].free
        /\ x \in Nat
    BY <1>1, <1>12 DEF Replaced, Passes, Cluster, NotReplaced, Real
  <2>2. CASE id # x
    BY <1>6, <1>8, <2>1, <2>2
  <2>3. CASE id = x
    <3>1. x \notin Range(newMap[k].replicas) /\ x \notin Range(pm[k].replicas)
      <4>1. x \notin Around(newMap[k].replicas, pm[k].replicas, bmOrig)
        BY <1>1, <1>3, <1>6, <2>1, PassesSpread
      <4> QED BY <2>3, <4>1 DEF Around
    <3>2. Request = Size(newMap[k]) * params.sizeFactor
      <4>1. SamePartition(newMap[k], pm[k])
        BY <1>1, <1>3 DEF Placing
      <4>2. Size(newMap[k]) = Size(pm[k])
        BY <4>1, SameSize
      <4> QED BY <4>2 DEF Request
    <3>3. params.sizeFactor \in Nat /\ params.minRackIds \in Nat /\ Start(id) \in Int
      BY <1>1, <1>3, InputAssumption, StartInt
    <3>4. bm[x].free \in Int
      <4>1. bm[x] \in BrokerRecord
        BY <1>1, <1>6, <2>3 DEF SameBrokers
      <4> QED BY <4>1 DEF BrokerRecord
    <3>5. params.minRackIds = 0 => bm'[x].free >= 0
      <4> SUFFICES ASSUME params.minRackIds = 0 PROVE bm'[x].free >= 0
        OBVIOUS
      <4>1. ~(params.minRackIds > 0)
        BY <3>3
      <4>2. bm[x].free - Request >= 0
        BY <2>1, <4>1 DEF Passes, passesWithParams
      <4> QED BY <2>1, <4>2
    <3> DEFINE m == newMap
               y == newMap'
               p == params
               rest == bm'[x].free
    <3>6. /\ y \in Seq(Partition) /\ DOMAIN y = DOMAIN m /\ k \in DOMAIN m /\ m \in Seq(Partition)
          /\ \A n \in DOMAIN m : SamePartition(y[n], m[n])
          /\ \A n \in DOMAIN m : n # k => y[n] = m[n]
          /\ x \in Range(y[k].replicas)
      BY <1>3, <1>7, <2>1
    <3>7. rest = bm[x].free - Size(m[k]) * p.sizeFactor /\ (p.minRackIds = 0 => rest >= 0)
      BY <2>1, <3>2, <3>5
    <3>8. Balance(x, m, pm, bm[x].free, Start(x), p)
      BY <1>5, <2>3
    <3>9. Start(x) \in Int /\ p.sizeFactor \in Nat
      BY <2>3, <3>3
    <3> HIDE DEF m, y, p, rest
    <3>10. Balance(x, y, pm, rest, Start(x), p)
      BY <3>1, <3>4, <3>6, <3>7, <3>8, <3>9, BalanceTake DEF m
    <3> QED BY <2>3, <3>10 DEF y, p, rest
  <2> QED BY <2>2, <2>3
<1> QED BY <1>2, <1>9, <1>10, <1>11, <1>12

(* EndPlacement preserves the storage invariant.                           *)
LEMMA StorageEnd ==
  ASSUME TypeInv, StorageInv, EndPlacement
  PROVE  StorageInv'
<1>1. /\ pc = "place" /\ pc' \in {"optimize", "conclude"}
      /\ UNCHANGED <<params, original, pm, bm, bmOrig>>
  BY EndStep
<1>2. PICK g : Reshuffled(newMap', newMap, g)
  BY EndStep
<1>3. TypeInv' /\ TypeInv
  BY TypeEndPlacement
<1>4. /\ Cluster /\ Placing /\ Arranged(pm, Basis) /\ params \in ParamSets /\ Built'
      /\ newMap \in Seq(Partition)
  BY <1>1, <1>3 DEF TypeInv, Prepared
<1>5. Basis' = Basis
  BY <1>1, <1>4, ClusterFrame
<1>6. Storage' = Storage /\ \A id : Start(id)' = Start(id)
  BY <1>1, StartFrame
<1>7. \A n \in DOMAIN newMap : Basis[n].replicas = pm[g[n]].replicas
  BY <1>1, <1>2, <1>4, PlacesRestored
<1> SUFFICES ASSUME Storage, NEW id \in NotReplaced(bmOrig)
             PROVE  Balance(id, newMap', Basis, bm[id].free, Start(id), params)
  <2>1. ASSUME Storage, NEW id \in NotReplaced(bmOrig),
               Balance(id, newMap', Basis, bm[id].free, Start(id), params)
        PROVE  Balance(id, newMap, Basis, bm[id].free, Start(id), params)'
    <3>1. Balance(id, newMap', Basis', bm'[id].free, Start(id)', params')
      BY <1>1, <1>5, <1>6, <2>1
    <3> QED BY <3>1 DEF Balance, Load, Gaining, Loads
  <2> QED BY <1>1, <1>6, <2>1 DEF StorageInv
<1>8. Balance(id, newMap, pm, bm[id].free, Start(id), params)
  BY <1>1 DEF StorageInv
<1>9. /\ newMap' \in Seq(Partition) /\ DOMAIN newMap' = DOMAIN newMap
      /\ g \in Bijection(DOMAIN newMap, DOMAIN newMap)
      /\ \A n \in DOMAIN newMap : SamePartition(newMap'[n], newMap[g[n]])
  BY <1>2 DEF Reshuffled
<1>10. \A n \in DOMAIN newMap : Range(newMap'[n].replicas) = Range(newMap[g[n]].replicas)
  <2> SUFFICES ASSUME NEW n \in DOMAIN newMap
               PROVE  Range(newMap'[n].replicas) = Range(newMap[g[n]].replicas)
    OBVIOUS
  <2>1. g[n] \in DOMAIN newMap
    BY <1>9 DEF Bijection, Injection
  <2>2. newMap[g[n]].replicas \in Seq(Int)
    BY <1>4, <2>1, SetsAreSequences
  <2>3. Arranged(newMap'[n].replicas, newMap[g[n]].replicas)
    BY <1>2 DEF Reshuffled
  <2> QED BY <2>2, <2>3, ArrangedSequence
<1>11. params.sizeFactor \in Nat
  BY <1>4, InputAssumption
<1> DEFINE x == newMap'
           p == params
           free == bm[id].free
           start == Start(id)
           was == Basis
<1>12. /\ x \in Seq(Partition) /\ DOMAIN x = DOMAIN newMap /\ newMap \in Seq(Partition)
       /\ \A n \in DOMAIN newMap : SamePartition(x[n], newMap[g[n]])
       /\ \A n \in DOMAIN newMap : Range(x[n].replicas) = Range(newMap[g[n]].replicas)
       /\ \A n \in DOMAIN newMap : was[n].replicas = pm[g[n]].replicas
       /\ Balance(id, newMap, pm, free, start, p) /\ p.sizeFactor \in Nat
  BY <1>4, <1>7, <1>8, <1>9, <1>10, <1>11
<1> HIDE DEF x, p, free, start, was
<1>13. Balance(id, x, was, free, start, p)
  BY <1>9, <1>12, BalanceMove
<1> QED BY <1>13 DEF x, p, free, start, was

(* Optimize preserves the storage invariant.                               *)
LEMMA StorageOptimize ==
  ASSUME TypeInv, StorageInv, Optimize
  PROVE  StorageInv'
<1>1. /\ pc = "optimize" /\ UNCHANGED <<params, original, pm, bm, bmOrig>>
      /\ pc' \in {"optimize", "conclude", "exit"}
  BY Zenon DEF Optimize, brokers
<1>2. Cluster /\ Built /\ newMap \in Seq(Partition)
  BY <1>1 DEF TypeInv
<1>3. /\ DOMAIN newMap' = DOMAIN newMap
      /\ \A n \in DOMAIN newMap : /\ SamePartition(newMap'[n], newMap[n])
                                  /\ Range(newMap'[n].replicas) = Range(newMap[n].replicas)
  <2>1. CASE UNCHANGED newMap
    BY <2>1 DEF SamePartition
  <2>2. CASE newMap # <<>> /\ newMap' \in OptimizeLeaderFollower(newMap, slot.n)
    <3>1. slot.n \in Nat \ {0} /\ slot.n <= Len(newMap)
      BY <1>1, <2>2 DEF TypeInv
    <3>2. slot.n \in DOMAIN newMap
      BY <1>2, <3>1
    <3>3. /\ DOMAIN newMap' = DOMAIN newMap
          /\ \A n \in DOMAIN newMap : /\ SamePartition(newMap'[n], newMap[n])
                                      /\ Arranged(newMap'[n].replicas, newMap[n].replicas)
      BY <1>2, <2>2, <3>2, OptimizeStep
    <3>4. \A n \in DOMAIN newMap : newMap[n].replicas \in Seq(Int)
      BY <1>2, SetsAreSequences
    <3> QED BY <3>3, <3>4, ArrangedSequence
  <2> QED BY <2>1, <2>2, Zenon DEF Optimize
<1>4. Basis' = Basis
  BY <1>1, <1>2, ClusterFrame
<1>5. Storage' = Storage /\ \A id : Start(id)' = Start(id)
  BY <1>1, StartFrame
<1> SUFFICES ASSUME Storage, NEW id \in NotReplaced(bmOrig)
             PROVE  Balance(id, newMap', Basis, bm[id].free, Start(id), params)
  <2>1. ASSUME Storage, NEW id \in NotReplaced(bmOrig),
               Balance(id, newMap', Basis, bm[id].free, Start(id), params)
        PROVE  Balance(id, newMap, Basis, bm[id].free, Start(id), params)'
    <3>1. Balance(id, newMap', Basis', bm'[id].free, Start(id)', params')
      BY <1>1, <1>4, <1>5, <2>1
    <3> QED BY <3>1 DEF Balance, Load, Gaining, Loads
  <2> QED BY <1>1, <1>5, <2>1 DEF StorageInv
<1>6. Balance(id, newMap, Basis, bm[id].free, Start(id), params)
  BY <1>1 DEF StorageInv
<1>7. \A n \in DOMAIN newMap : id \in Range(newMap'[n].replicas) \ Range(Basis[n].replicas)
                                 <=> id \in Range(newMap[n].replicas) \ Range(Basis[n].replicas)
  BY <1>3
<1> QED BY <1>3, <1>6, <1>7, BalanceSame

(* Every step preserves the storage invariant.                             *)
LEMMA StorageNext ==
  ASSUME RebuildInv, StorageInv, [Next]_vars
  PROVE  StorageInv'
<1>1. TypeInv /\ PlaceInv
  BY DEF RebuildInv
<1>2. CASE Validate \/ ReadFails \/ Read \/ Substitute \/ Substituted
  <2>1. pc' \in {"read", "affinities", "prepare", "exit"}
    <3>1. pc \in {"validate", "read", "affinities"}
      BY <1>2 DEF Validate, ReadFails, Read, Substitute, Substituted
    <3> QED BY <1>2, <3>1, Zenon DEF Validate, ReadFails, Read, Substitute, Substituted
  <2> QED BY <2>1 DEF StorageInv
<1>3. CASE Conclude \/ Chunk \/ EndChunks \/ Write
  <2>1. pc' \in {"chunk", "write", "done", "exit"}
    BY <1>1, <1>3, ConcludeStep, ChunkStep DEF EndChunks, Write
  <2> QED BY <2>1 DEF StorageInv
<1>4. CASE Prepare
  BY <1>1, <1>4, StoragePrepare
<1>5. CASE Panic \/ Skip \/ Keep \/ Replace \/ LeaveOut
  <2>1. Panic => pc' = "exit"
    BY DEF Panic
  <2> QED BY <1>1, <1>5, <2>1, StorageVisit DEF StorageInv
<1>6. CASE EndPlacement
  BY <1>1, <1>6, StorageEnd
<1>7. CASE Optimize
  BY <1>1, <1>7, StorageOptimize
<1>8. CASE UNCHANGED vars
  <2>1. UNCHANGED <<pc, params, original, pm, bm, bmOrig, newMap>>
    BY <1>8 DEF vars, brokers, placement
  <2>2. Storage' = Storage /\ \A id : Start(id)' = Start(id)
    BY <2>1, StartFrame
  <2>3. Basis' = Basis
    BY <2>1 DEF Basis, Resized
  <2> SUFFICES ASSUME Storage, NEW id \in NotReplaced(bmOrig)
               PROVE  /\ pc = "place" => Balance(id, newMap, pm, bm[id].free, Start(id), params)'
                      /\ pc \in {"optimize", "conclude"} =>
                           Balance(id, newMap, Basis, bm[id].free, Start(id), params)'
    BY <2>1, <2>2 DEF StorageInv
  <2>4. /\ pc = "place" => Balance(id, newMap', pm', bm'[id].free, Start(id)', params')
        /\ pc \in {"optimize", "conclude"} =>
             Balance(id, newMap', Basis', bm'[id].free, Start(id)', params')
    BY <2>1, <2>2, <2>3 DEF StorageInv
  <2> QED BY <2>4 DEF Balance, Load, Gaining, Loads
<1> QED BY <1>2, <1>3, <1>4, <1>5, <1>6, <1>7, <1>8 DEF Next

(* The storage invariant holds in every reachable state.                   *)
LEMMA StorageInvariant == Spec => [](RebuildInv /\ StorageInv)
<1>1. Init => RebuildInv /\ StorageInv
  BY InvInitial DEF Init, StorageInv
<1>2. (RebuildInv /\ StorageInv) /\ [Next]_vars => (RebuildInv /\ StorageInv)'
  BY InvNext, StorageNext
<1> QED BY <1>1, <1>2, PTL DEF Spec

(* The replicas that the properties count are the partitions that a broker *)
(* gains, as no set has it twice.                                          *)
LEMMA PlacedLoad ==
  ASSUME RebuildInv, pc = "conclude", NEW id \in NotReplaced(bmOrig)
  PROVE  PlacedOn(id) = Load(newMap, id, Basis, params.sizeFactor)
<1>1. /\ params \in ParamSets /\ Cluster /\ Built /\ SetsGood(newMap) /\ newMap \in Seq(Partition)
      /\ DOMAIN newMap = DOMAIN original
  BY DEF RebuildInv, TypeInv, SetInv, Built
<1>2. params.sizeFactor \in Nat
  BY <1>1, InputAssumption
<1>3. \A n \in DOMAIN newMap : /\ newMap[n].replicas \in Seq(Int) /\ IsInjective(newMap[n].replicas)
                               /\ SamePartition(newMap[n], original[n])
  BY <1>1 DEF SetsGood, Good, Built
<1>4. ASSUME NEW n \in DOMAIN newMap
      PROVE  (params.forceRebuild \/ id \notin Range(Before(newMap[n])))
               <=> id \notin Range(Basis[n].replicas)
  <2>1. CASE ~params.forceRebuild
    <3>1. Basis[n].replicas = Before(newMap[n])
      BY <1>1, <1>3, <2>1, BeforeOf
    <3> QED BY <2>1, <3>1
  <2>2. CASE params.forceRebuild
    <3>1. Basis = Strip(Resized) /\ Derived(Resized, original)
      BY <1>1, <2>2, BasisMap DEF Basis
    <3>2. Derived(Resized, original)
      BY <3>1
    <3>3. \A i \in DOMAIN Strip(Resized)[n].replicas : Strip(Resized)[n].replicas[i] = StubBrokerID
      <4>1. n \in DOMAIN original
        BY <1>1
      <4> QED BY <3>2, <4>1, StrippedMap
    <3>4. id # StubBrokerID
      BY DEF NotReplaced, Real
    <3> QED BY <2>2, <3>1, <3>3, <3>4 DEF Range
  <2> QED BY <2>1, <2>2
<1> DEFINE gained == {s \in Held(newMap, id) :
                        params.forceRebuild \/ id \notin Range(Before(newMap[s[1]]))}
           v == [s \in gained |-> Size(newMap[s[1]]) * params.sizeFactor]
           w == Loads(newMap, params.sizeFactor)
           g == [s \in gained |-> s[1]]
           G == Gaining(newMap, id, Basis)
<1>5. PlacedOn(id) = SumFunctionOnSet(v, gained)
  BY DEF PlacedOn, SumFunction
<1>6. \A s \in Held(newMap, id) : /\ s[1] \in DOMAIN newMap /\ s[2] \in DOMAIN newMap[s[1]].replicas
                                  /\ newMap[s[1]].replicas[s[2]] = id /\ s = <<s[1], s[2]>>
  BY DEF Held, Slots
<1>7. IsFiniteSet(gained)
  <2>1. IsFiniteSet(Held(newMap, id)) /\ gained \in SUBSET Held(newMap, id)
    BY <1>1, FiniteMap
  <2> QED BY <2>1, FS_Subset
<1>8. \A s, t \in gained : g[s] = g[t] => s = t
  <2> SUFFICES ASSUME NEW s \in gained, NEW t \in gained, s[1] = t[1] PROVE s = t
    OBVIOUS
  <2>1. s[2] = t[2]
    BY <1>3, <1>6 DEF IsInjective
  <2> QED BY <1>6, <2>1
<1>9. {g[s] : s \in gained} = G
  <2>1. ASSUME NEW s \in gained PROVE g[s] \in G
    BY <1>4, <1>6 DEF Gaining, Range
  <2>2. ASSUME NEW n \in G PROVE \E s \in gained : g[s] = n
    <3>1. /\ n \in DOMAIN newMap /\ id \in Range(newMap[n].replicas)
          /\ id \notin Range(Basis[n].replicas)
      BY DEF Gaining
    <3>2. PICK i \in DOMAIN newMap[n].replicas : newMap[n].replicas[i] = id
      BY <3>1 DEF Range
    <3>3. <<n, i>> \in Held(newMap, id)
      BY <3>1, <3>2 DEF Held, Slots
    <3>4. <<n, i>> \in gained /\ g[<<n, i>>] = n
      BY <1>4, <3>1, <3>3
    <3> QED BY <3>4
  <2> HIDE DEF g, gained, G
  <2> QED BY <2>1, <2>2
<1>10. \A s \in gained : v[s] \in Int /\ w[g[s]] = v[s]
  <2>1. \A n \in DOMAIN newMap : w[n] \in Nat /\ w[n] = Size(newMap[n]) * params.sizeFactor
    BY <1>1, <1>2, LoadsNat DEF Loads
  <2> HIDE DEF w
  <2> QED BY <1>6, <2>1
<1>11. SumFunctionOnSet(v, gained) = SumFunctionOnSet(w, G)
  <2> HIDE DEF v, w, g, gained, G
  <2> QED BY <1>7, <1>8, <1>9, <1>10, SumImage
<1> QED BY <1>5, <1>11 DEF Load

(* SubStorage and Taken account for all that is moved: when the placement  *)
(* ends, a broker that stays has the storage it had, and what was lifted   *)
(* from it, less what was placed on it.                                    *)
THEOREM StorageIsAccounted == Spec => []StorageAccounted
<1>1. RebuildInv /\ StorageInv => StorageAccounted
  <2> SUFFICES ASSUME RebuildInv, StorageInv, Storage, pc = "conclude", NEW id \in NotReplaced(bm)
               PROVE  bm[id].free = bmOrig[id].free + Lifted(id) - PlacedOn(id)
    BY DEF StorageAccounted
  <2>1. id \in NotReplaced(bmOrig)
    BY DEF RebuildInv, TypeInv, SameBrokers, NotReplaced, Real
  <2>2. Balance(id, newMap, Basis, bm[id].free, Start(id), params)
    BY <2>1 DEF StorageInv
  <2>3. PlacedOn(id) = Load(newMap, id, Basis, params.sizeFactor)
    BY <2>1, PlacedLoad
  <2>4. params \in ParamSets /\ Cluster /\ newMap \in Seq(Partition) /\ params.sizeFactor \in Nat
    BY InputAssumption DEF RebuildInv, TypeInv
  <2>5. bmOrig[id].free \in Int /\ Lifted(id) \in Int
    BY <2>1, <2>4, StartInt
  <2>6. PlacedOn(id) \in Nat
    BY <2>3, <2>4, LoadsNat
  <2>7. bm[id].free = (bmOrig[id].free + Lifted(id)) - PlacedOn(id)
    BY <2>2, <2>3 DEF Balance, Start
  <2> QED BY <2>5, <2>6, <2>7
<1> QED BY <1>1, StorageInvariant, PTL

(* Where racks are to be unique, passesWithParams lets no broker be given  *)
(* more than its free storage, however many partitions it is given.        *)
THEOREM NoBrokerIsOverrun == Spec => []NoBrokerOverrun
<1>1. RebuildInv /\ StorageInv => NoBrokerOverrun
  <2> SUFFICES ASSUME RebuildInv, StorageInv, Storage, params.minRackIds = 0, pc = "conclude",
                      NEW id \in NotReplaced(bm), PlacedOn(id) > 0
               PROVE  bm[id].free >= 0
    BY DEF NoBrokerOverrun
  <2>1. id \in NotReplaced(bmOrig)
    BY DEF RebuildInv, TypeInv, SameBrokers, NotReplaced, Real
  <2>2. Balance(id, newMap, Basis, bm[id].free, Start(id), params)
    BY <2>1 DEF StorageInv
  <2>3. PlacedOn(id) = Load(newMap, id, Basis, params.sizeFactor)
    BY <2>1, PlacedLoad
  <2>4. Gaining(newMap, id, Basis) = {} => PlacedOn(id) = 0
    BY <2>3, SumEmpty DEF Load
  <2> QED BY <2>2, <2>4 DEF Balance
<1> QED BY <1>1, StorageInvariant, PTL
=============================================================================
