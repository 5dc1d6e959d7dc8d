------------------------- MODULE AutothrottleProofs -------------------------
(* What the loop of autothrottle applies to Kafka's configs, for every     *)
(* cluster, all overrides, all limits and any number of API requests.      *)
EXTENDS Autothrottle, FiniteSetTheorems, TLAPS

-----------------------------------------------------------------------------
(* The inductive invariants.                                               *)

Config == [rate : Nat, autoRemove : BOOLEAN]

(* Only a znode that is missing has a negative rate.                       *)
StoredConfigs ==
    /\ \A b \in Brokers : override[b] \in Config \cup {Missing}
    /\ \A b \in Brokers : tm.bo[b].cfg \in Config \cup {Missing}

TypeInv == TypeOK /\ StoredConfigs

(* In legacy mode, as long as nothing has failed.                          *)
Smooth == ~Native /\ faults = 0

(* A remembered rate is the one that Kafka has.                            *)
Remembered == \A b \in Brokers, r \in Roles : tm.prev[b][r] # 0 => rate[b][r] = tm.prev[b][r]

(* The override of broker b is in effect.                                  *)
InEffect(b) == HasActiveOverride(tm.bo[b].cfg) =>
                 \A r \in Roles : Close(rate[b][r], tm.bo[b].cfg.rate)

(* Participants are marked only while something is reassigned, and the     *)
(* overrides take effect in two steps: first those of the participants,    *)
(* then the others.                                                        *)
OverridesInEffect ==
    /\ At("update") => \A b \in Brokers : ~tm.bo[b].participant
    /\ \A b \in Brokers : At("overrides") \/ At("purge") \/ At("clear") =>
          (tm.bo[b].participant => tm.now # {})
    /\ \A b \in Brokers : At("overrides") /\ tm.bo[b].participant => InEffect(b)
    /\ \A b \in Brokers : At("purge") \/ At("clear") \/ At("autoremove") \/ At("wait") => InEffect(b)

(* The rates have been determined for the brokers that take part.          *)
Determined == /\ tm.failures \notin 1 .. FailureThreshold
              /\ ~tm.err

(* A participant without an active override has a permitted rate; while    *)
(* overrides are still to be removed, it is marked if it has one.          *)
ParticipantRates ==
    LET rb == GetReassigningBrokers(tm.now)
    IN  /\ (At("overrides") \/ At("purge") \/ At("clear") \/ At("autoremove") \/ At("wait"))
             /\ Determined =>
             \A b \in rb.all : \A r \in {x \in Roles : b \in rb.role[x]} :
                ~HasActiveOverride(tm.bo[b].cfg) =>
                   \E want \in Permitted(b, r) : Close(rate[b][r], want)
        /\ At("overrides") /\ Determined =>
             \A b \in rb.all : Exists(tm.bo[b].cfg) => tm.bo[b].participant
        /\ At("update") => tm.now # {}

LoopInv == Smooth => Remembered /\ OverridesInEffect /\ ParticipantRates

-----------------------------------------------------------------------------
(* Operators.                                                              *)

(* The cost of a plan for finitely many requests is a number, and a plan   *)
(* that costs nothing lets no request fail.                                *)
LEMMA PlanCost ==
  ASSUME NEW es, IsFiniteSet(es), NEW sequence, NEW f \in Plans(es, sequence)
  PROVE  /\ Cost(f) \in Nat
         /\ Cost(f) = 0 => DOMAIN f = {} /\ \A e : Written(f, e)
         /\ DOMAIN f \subseteq es
<1>1. DOMAIN f \subseteq es
  BY DEF Plans
<1>2. Failed(f) \subseteq es
  BY <1>1 DEF Failed
<1>3. IsFiniteSet(Failed(f)) /\ Cost(f) \in Nat
  BY <1>2, FS_Subset, FS_CardinalityType DEF Cost
<1>4. Cost(f) = 0 => Failed(f) = {}
  BY <1>3, FS_EmptySet DEF Cost
<1>5. Failed(f) = {} => DOMAIN f = {}
  BY DEF Plans
<1> QED
  BY <1>1, <1>3, <1>4, <1>5 DEF Written

(* The brokers that take part in reassignments are brokers of the cluster, *)
(* also when the state of a topic could not be read.                       *)
LEMMA ReassigningBrokers ==
  ASSUME NEW ts \in SUBSET Topics
  PROVE  LET rb == GetReassigningBrokers(ts)
         IN  /\ rb.all \in SUBSET Brokers /\ rb.role \in [Roles -> SUBSET Brokers]
             /\ rb.lists \in [ts -> [Roles -> SUBSET Brokers]]
             /\ \A r \in Roles : rb.role[r] \subseteq rb.all
             /\ ts = {} => rb.all = {}
<1>1. \A t \in ts : ThrottledReplicas(t) \in [Roles -> SUBSET Brokers]
  BY ClusterAssumption DEF ThrottledReplicas, Roles, Offline
<1>2. \A r \in Roles : UNION {ThrottledReplicas(t)[r] : t \in ts} \in SUBSET Brokers
  BY <1>1
<1> QED
  BY <1>1, <1>2 DEF GetReassigningBrokers, Roles

(* When the state of a topic could not be read there are lists, but no     *)
(* brokers.                                                                *)
LEMMA PartialBrokers ==
  ASSUME NEW ts \in SUBSET Topics, NEW t \in Topics
  PROVE  LET rb == PartialReassigningBrokers(ts, t)
         IN  /\ rb.all = {}
             /\ rb.lists \in [ts \cup {t} -> [Roles -> SUBSET Brokers]]
<1>1. \A u \in ts : ThrottledReplicas(u) \in [Roles -> SUBSET Brokers]
  BY ClusterAssumption DEF ThrottledReplicas, Roles, Offline
<1>2. NoLists \in [Roles -> SUBSET Brokers]
  BY DEF NoLists
<1> QED
  BY <1>1, <1>2 DEF PartialReassigningBrokers, GetReassigningBrokers

(* Multiplication by a ratio keeps the order of capacities.                *)
LEMMA RatioMonotonic ==
  ASSUME NEW x \in Int, NEW y \in Int, NEW m \in Nat, x <= y
  PROVE  x * m \in Int /\ (x * m) \div 100 \in Int /\ (x * m) \div 100 <= (y * m) \div 100
<1>1. x * m \in Int /\ y * m \in Int /\ x * m <= y * m
  OBVIOUS
<1> DEFINE p == x * m
           q == y * m
<1>2. p \in Int /\ q \in Int /\ p <= q
  BY <1>1
<1> HIDE DEF p, q
<1>3. p \div 100 \in Int /\ p \div 100 <= q \div 100
  BY <1>2
<1> QED
  BY <1>1, <1>3 DEF p, q

(* replicationHeadroom is at least the minimum, and at most the broker's   *)
(* share of the capacity: whatever the metrics and the last throttle say.  *)
LEMMA HeadroomBounds ==
  ASSUME NEW b \in Brokers, NEW r \in Roles, NEW util \in Nat, NEW prev \in Nat
  PROVE  LET maxRatio == IF r = "leader" THEN SrcMax ELSE DstMax
         IN  replicationHeadroom(b, r, util, prev) \in
               Minimum .. AtLeast((Capacity[b] * maxRatio) \div 100, Minimum)
<1> DEFINE maxRatio == IF r = "leader" THEN SrcMax ELSE DstMax
           taken == AtLeast(util - prev, 0)
           over  == AtLeast(util - Capacity[b], 0)
           left  == Capacity[b] - taken - over
<1>1. maxRatio \in Nat /\ Minimum \in Nat /\ Capacity[b] \in Nat
  BY LimitsAssumption, ClusterAssumption
<1>2. left \in Int /\ left <= Capacity[b]
  BY <1>1 DEF AtLeast
<1> HIDE DEF maxRatio, left
<1>3. /\ (left * maxRatio) \div 100 \in Int
      /\ (Capacity[b] * maxRatio) \div 100 \in Int
      /\ (left * maxRatio) \div 100 <= (Capacity[b] * maxRatio) \div 100
  BY <1>1, <1>2, RatioMonotonic
<1>4. replicationHeadroom(b, r, util, prev) = AtLeast((left * maxRatio) \div 100, Minimum)
  BY DEF replicationHeadroom, left, maxRatio
<1>5. AtLeast((left * maxRatio) \div 100, Minimum) \in
        Minimum .. AtLeast((Capacity[b] * maxRatio) \div 100, Minimum)
  BY <1>1, <1>3 DEF AtLeast
<1> QED
  BY <1>4, <1>5 DEF maxRatio

(* A config, and the absence of one, have the type of a stored override.   *)
LEMMA ConfigTypes ==
  \A c \in Config \cup {Missing} : /\ c \in [rate : Nat \cup {-1}, autoRemove : BOOLEAN]
                                  /\ c \in [rate : Int, autoRemove : BOOLEAN]
<1>1. Config \subseteq [rate : Nat \cup {-1}, autoRemove : BOOLEAN]
      /\ Config \subseteq [rate : Int, autoRemove : BOOLEAN]
  BY DEF Config
<1>2. -1 \in Int /\ -1 \in Nat \cup {-1}
  OBVIOUS
<1>3. \A x, S : x \in S => [rate |-> x, autoRemove |-> FALSE] \in [rate : S, autoRemove : BOOLEAN]
  BY Zenon
<1>4. Missing \in [rate : Nat \cup {-1}, autoRemove : BOOLEAN]
      /\ Missing \in [rate : Int, autoRemove : BOOLEAN]
  BY <1>2, <1>3, Zenon DEF Missing
<1> QED
  BY <1>1, <1>4

Rates == [Roles -> Nat]
Lists == [Roles -> SUBSET Brokers]

(* What the loop writes to the configs, and what it remembers, are rates.  *)
LEMMA WrittenTypes ==
  ASSUME TypeOK, NEW bs \in SUBSET Brokers, NEW caps \in [bs -> Rates], NEW f
  PROVE  /\ RatesApplied(caps, f) \in [Brokers -> Rates]
         /\ PreviousApplied(caps, f) \in [Brokers -> Rates]
<1>1. rate \in [Brokers -> Rates] /\ tm.prev \in [Brokers -> Rates] /\ DOMAIN caps = bs
  BY DEF TypeOK, TMType, Rates
<1>2. ASSUME NEW b \in Brokers, NEW r \in Roles
      PROVE  rate[b][r] \in Nat /\ tm.prev[b][r] \in Nat /\ (b \in bs => caps[b][r] \in Nat)
  BY <1>1, <1>2 DEF Rates
<1>3. RatesApplied(caps, f) \in [Brokers -> Rates]
  BY <1>1, <1>2 DEF RatesApplied, Rates
<1>4. PreviousApplied(caps, f) \in [Brokers -> Rates]
  BY <1>1, <1>2 DEF PreviousApplied, Rates
<1> QED
  BY <1>3, <1>4

(* So are the rates that a removal leaves.                                 *)
LEMMA RemovedTypes ==
  ASSUME NEW rates \in [Brokers -> Rates], NEW prev \in [Brokers -> Rates], NEW ids, NEW f
  PROVE  /\ RatesRemoved(rates, ids, f) \in [Brokers -> Rates]
         /\ PreviousRemoved(prev, rates, ids, f) \in [Brokers -> Rates]
<1>1. NoRates \in Rates
  BY DEF NoRates, Rates
<1> QED
  BY <1>1 DEF RatesRemoved, PreviousRemoved

(* The lists of throttled replicas name brokers only.                      *)
LEMMA ListTypes ==
  ASSUME TypeOK, NEW ts, NEW lists, DOMAIN lists = ts,
         \A t \in ts : lists[t] \in Lists, NEW f
  PROVE  ListsApplied(lists, f) \in [Topics -> Lists]
<1>1. list \in [Topics -> Lists] /\ NoLists \in Lists /\ Wildcard \in Lists
  BY DEF TypeOK, Lists, NoLists, Wildcard
<1>2. \A old, new \in Lists : LegacyLists(old, new) \in Lists
  BY DEF LegacyLists, Lists
<1> QED
  BY <1>1, <1>2 DEF ListsApplied

(* Removed lists are empty, the others stay.                               *)
LEMMA ListsRemovedType ==
  ASSUME TypeOK, NEW f
  PROVE  ListsRemoved(f) \in [Topics -> Lists]
  BY DEF TypeOK, Lists, NoLists, ListsRemoved

(* The rates with the overrides in front are rates: the override of a      *)
(* broker is active only if its znode is there.                            *)
LEMMA OverrideTypes ==
  ASSUME TypeInv, NEW bs \in SUBSET Brokers, NEW caps \in [bs -> Rates]
  PROVE  WithOverrides(caps, bs) \in [bs -> Rates]
<1>1. ASSUME NEW b \in bs, HasActiveOverride(tm.bo[b].cfg)
      PROVE  tm.bo[b].cfg.rate \in Nat
  BY <1>1 DEF TypeInv, StoredConfigs, HasActiveOverride, Exists, Config
<1> QED
  BY <1>1 DEF WithOverrides, Rates

-----------------------------------------------------------------------------
(* Type correctness.                                                       *)

(* What the update of the replication throttles keeps, however the rates   *)
(* were determined.                                                        *)
LEMMA ApplyTypes ==
  ASSUME TypeInv, NEW rb, rb.all \in SUBSET Brokers,
         NEW ts \in SUBSET Topics, DOMAIN rb.lists = ts, \A t \in ts : rb.lists[t] \in Lists,
         NEW caps \in [rb.all -> Rates], NEW failures \in 0 .. FailureThreshold + 1,
         NEW spent \in Nat, ApplyReplication(rb, caps, failures, spent)
  PROVE  /\ rate' \in [Brokers -> Rates] /\ list' \in [Topics -> Lists]
         /\ faults' \in 0 .. MaxFaults /\ tm' \in TMType
         /\ \A b \in Brokers : tm'.bo[b].cfg = tm.bo[b].cfg
<1> DEFINE all   == WithOverrides(caps, rb.all)
           lists == IF tm.skipTopicUpdates THEN <<>> ELSE rb.lists
<1>1. IsFiniteSet(rb.all) /\ DOMAIN lists \subseteq ts /\ IsFiniteSet(DOMAIN lists)
      /\ \A t \in DOMAIN lists : lists[t] \in Lists
  <2>1. DOMAIN lists \subseteq ts /\ \A t \in DOMAIN lists : lists[t] \in Lists
    OBVIOUS
  <2> HIDE DEF lists
  <2> QED
    BY <2>1, ClusterAssumption, FS_Subset
<1>2. all \in [rb.all -> Rates]
  BY OverrideTypes
<1> HIDE DEF all, lists
<1>3. PICK f \in Plans(rb.all, FALSE), g \in Plans(DOMAIN lists, Native) :
        /\ spent + Cost(f) + Cost(g) <= MaxFaults - faults
        /\ faults' = faults + spent + Cost(f) + Cost(g)
        /\ rate' = RatesApplied(all, f)
        /\ list' = ListsApplied(lists, g)
        /\ tm' = [tm EXCEPT !.pc = "overrides", !.known = TRUE,
                            !.failures = failures,
                            !.bo = MarkParticipants(rb.all),
                            !.prev = PreviousApplied(all, f)]
  BY Zenon DEF ApplyReplication, all, lists
<1>4. Cost(f) \in Nat /\ Cost(g) \in Nat
  BY <1>1, PlanCost
<1>5. TypeOK
  BY DEF TypeInv
<1>6. rate' \in [Brokers -> Rates] /\ PreviousApplied(all, f) \in [Brokers -> Rates]
  BY <1>2, <1>3, <1>5, WrittenTypes
<1>7. list' \in [Topics -> Lists]
  BY <1>1, <1>3, <1>5, ListTypes
<1>8. faults' \in 0 .. MaxFaults
  BY <1>3, <1>4, <1>5, LoopAssumption DEF TypeOK
<1>9. /\ MarkParticipants(rb.all) \in
           [Brokers -> [cfg : [rate : Int, autoRemove : BOOLEAN], participant : BOOLEAN]]
      /\ \A b \in Brokers : MarkParticipants(rb.all)[b].cfg = tm.bo[b].cfg
  <2> DEFINE BO == [cfg : [rate : Int, autoRemove : BOOLEAN], participant : BOOLEAN]
  <2>1. tm.bo \in [Brokers -> BO]
    BY <1>5 DEF TypeOK, TMType
  <2>2. ASSUME NEW b \in Brokers, NEW p \in BOOLEAN
        PROVE  [tm.bo[b] EXCEPT !.participant = p] \in BO
               /\ [tm.bo[b] EXCEPT !.participant = p].cfg = tm.bo[b].cfg
    BY <2>1
  <2>3. ASSUME NEW b \in Brokers
        PROVE  (b \in rb.all /\ Exists(tm.bo[b].cfg)) \in BOOLEAN
    OBVIOUS
  <2> HIDE DEF BO
  <2>4. \A b \in Brokers : MarkParticipants(rb.all)[b] \in BO
                          /\ MarkParticipants(rb.all)[b].cfg = tm.bo[b].cfg
    BY <2>2, <2>3 DEF MarkParticipants
  <2>5. MarkParticipants(rb.all) \in [Brokers -> BO]
    BY <2>4 DEF MarkParticipants
  <2> QED
    BY <2>4, <2>5 DEF BO
<1>10. tm' \in TMType /\ tm'.bo = MarkParticipants(rb.all)
  BY <1>3, <1>5, <1>6, <1>9 DEF TypeOK, TMType, Rates
<1> QED
  BY <1>6, <1>7, <1>8, <1>9, <1>10

(* Rates are computed from metrics only when they cover all participants.  *)
LEMMA MetricsCover ==
  ASSUME NEW rb, NEW bm \in BrokerMetrics(rb.all), ~CapacitiesError(rb, bm)
  PROVE  \A b \in rb.all : bm[b] \in Nat
<1>1. PICK seen \in SUBSET rb.all : bm \in [seen -> Utils]
  BY DEF BrokerMetrics
<1>2. rb.all \subseteq seen
  BY <1>1 DEF CapacitiesError
<1> QED
  BY <1>1, <1>2, LoopAssumption

(* The rates are determined in one of three ways, for brokers and lists    *)
(* that are those of the cluster.                                          *)
LEMMA UpdateTypes ==
  ASSUME TypeInv, UpdateReplicationThrottle
  PROVE  /\ rate' \in [Brokers -> Rates] /\ list' \in [Topics -> Lists]
         /\ faults' \in 0 .. MaxFaults /\ tm' \in TMType
         /\ \A b \in Brokers : tm'.bo[b].cfg = tm.bo[b].cfg
<1> DEFINE Goal == /\ rate' \in [Brokers -> Rates] /\ list' \in [Topics -> Lists]
                   /\ faults' \in 0 .. MaxFaults /\ tm' \in TMType
                   /\ \A b \in Brokers : tm'.bo[b].cfg = tm.bo[b].cfg
           Determine(rb, spent) ==
             GlobalRate(rb, spent) \/ MetricsRate(rb, spent) \/ MetricsMissing(rb, spent)
<1> USE DEF TypeInv
<1>1. ASSUME NEW rb, rb.all \in SUBSET Brokers, NEW ts \in SUBSET Topics, DOMAIN rb.lists = ts,
             \A t \in ts : rb.lists[t] \in Lists,
             NEW spent \in 0 .. 1, spent = 1 => faults < MaxFaults, Determine(rb, spent)
      PROVE  Goal
  <2>0. spent \in Nat /\ faults + spent \in 0 .. MaxFaults
    BY <1>1, LoopAssumption DEF TypeOK
  <2>1. ASSUME NEW caps \in [rb.all -> Rates], NEW failures \in 0 .. FailureThreshold + 1,
               ApplyReplication(rb, caps, failures, spent)
        PROVE  Goal
    BY <1>1, <2>0, <2>1, ApplyTypes
  <2>2. ASSUME NEW failures \in 0 .. FailureThreshold + 1, NEW err \in BOOLEAN,
               Retain(failures, err, spent)
        PROVE  Goal
    <3>1. tm' \in TMType /\ tm'.bo = tm.bo
      BY <2>2 DEF Retain, TypeOK, TMType
    <3> QED
      BY <2>0, <2>2, <3>1 DEF Retain, TypeOK, configs, Rates, Lists
  <2>3. 0 \in 0 .. FailureThreshold + 1 /\ FailureThreshold + 1 \in 0 .. FailureThreshold + 1
    BY LoopAssumption
  <2>4. \A m \in Nat : setAllRatesWithDefault(rb.all, m) \in [rb.all -> Rates]
    BY DEF setAllRatesWithDefault, Rates
  <2>5. CASE GlobalRate(rb, spent)
    <3>1. tm.overrideCfg.rate \in Nat
      BY DEF TypeOK, TMType
    <3>2. ApplyReplication(rb, setAllRatesWithDefault(rb.all, tm.overrideCfg.rate), 0, spent)
      BY <2>5 DEF GlobalRate
    <3> QED
      BY <2>1, <2>3, <2>4, <3>1, <3>2
  <2>6. CASE MetricsRate(rb, spent)
    <3>0. PICK bm \in BrokerMetrics(rb.all) :
            IF CapacitiesError(rb, bm)
            THEN Retain(0, TRUE, spent)
            ELSE ApplyReplication(rb, brokerReplicationCapacities(rb, bm, tm.prev), 0, spent)
      BY <2>6, Zenon DEF MetricsRate
    <3>1. CASE CapacitiesError(rb, bm)
      BY <2>2, <2>3, <3>0, <3>1
    <3>2. CASE ~CapacitiesError(rb, bm)
      <4>1. /\ ApplyReplication(rb, brokerReplicationCapacities(rb, bm, tm.prev), 0, spent)
            /\ \A b \in rb.all : bm[b] \in Nat
        BY <3>0, <3>2, MetricsCover
      <4>2. ASSUME NEW b \in rb.all, NEW r \in Roles
            PROVE  replicationHeadroom(b, r, bm[b], tm.prev[b][r]) \in Nat
        <5>1. b \in Brokers /\ bm[b] \in Nat /\ tm.prev[b][r] \in Nat
          <6>1. tm.prev \in [Brokers -> [Roles -> Nat]]
            BY DEF TypeOK, TMType
          <6> QED
            BY <1>1, <4>1, <6>1
        <5>2. \A x : x \in Minimum .. AtLeast((Capacity[b] * SrcMax) \div 100, Minimum) => x \in Nat
          BY LimitsAssumption
        <5>3. \A x : x \in Minimum .. AtLeast((Capacity[b] * DstMax) \div 100, Minimum) => x \in Nat
          BY LimitsAssumption
        <5> QED
          BY <5>1, <5>2, <5>3, HeadroomBounds
      <4>3. brokerReplicationCapacities(rb, bm, tm.prev) \in [rb.all -> Rates]
        BY <4>2 DEF brokerReplicationCapacities, Rates
      <4> QED
        BY <2>1, <2>3, <4>1, <4>3
    <3> QED
      BY <3>1, <3>2
  <2>7. CASE MetricsMissing(rb, spent)
    <3>1. tm.failures \in Nat /\ FailureThreshold \in Nat /\ Minimum \in Nat
      BY LoopAssumption, LimitsAssumption DEF TypeOK, TMType
    <3>2. CASE Failure
      BY <2>1, <2>3, <2>4, <2>7, <3>1, <3>2 DEF MetricsMissing
    <3>3. CASE ~Failure
      <4>1. Retain(tm.failures + 1, FALSE, spent)
        BY <2>7, <3>3 DEF MetricsMissing
      <4>2. tm.failures + 1 \in 0 .. FailureThreshold + 1
        BY <3>1, <3>3 DEF Failure
      <4> QED
        BY <2>2, <4>1, <4>2
    <3> QED
      BY <3>2, <3>3
  <2> QED
    BY <1>1, <2>5, <2>6, <2>7
<1>2. tm.now \in SUBSET Topics
  BY DEF TypeOK, TMType
<1>3. CASE Determine(GetReassigningBrokers(tm.now), 0)
  <2>1. /\ GetReassigningBrokers(tm.now).all \in SUBSET Brokers
        /\ DOMAIN GetReassigningBrokers(tm.now).lists = tm.now
        /\ \A t \in tm.now : GetReassigningBrokers(tm.now).lists[t] \in Lists
    BY <1>2, ReassigningBrokers DEF Lists
  <2>2. 0 \in 0 .. 1 /\ (0 = 1 => faults < MaxFaults)
    OBVIOUS
  <2> HIDE DEF Determine, Goal
  <2>3. Goal
    BY <1>1, <1>2, <1>3, <2>1, <2>2
  <2> QED
    BY <2>3 DEF Goal
<1>4. CASE /\ faults < MaxFaults
           /\ \E t \in tm.now : \E ts \in SUBSET (tm.now \ {t}) :
                Determine(PartialReassigningBrokers(ts, t), 1)
  <2>1. PICK t \in tm.now : \E ts \in SUBSET (tm.now \ {t}) :
                Determine(PartialReassigningBrokers(ts, t), 1)
    BY <1>4
  <2>2. PICK ts \in SUBSET (tm.now \ {t}) : Determine(PartialReassigningBrokers(ts, t), 1)
    BY <2>1
  <2>3. ts \in SUBSET Topics /\ t \in Topics /\ ts \cup {t} \in SUBSET Topics
    BY <1>2
  <2>4. /\ PartialReassigningBrokers(ts, t).all \in SUBSET Brokers
        /\ DOMAIN PartialReassigningBrokers(ts, t).lists = ts \cup {t}
        /\ \A u \in ts \cup {t} : PartialReassigningBrokers(ts, t).lists[u] \in Lists
    BY <2>3, PartialBrokers DEF Lists
  <2>5. 1 \in 0 .. 1 /\ (1 = 1 => faults < MaxFaults)
    BY <1>4
  <2> HIDE DEF Determine, Goal
  <2>6. Goal
    BY <1>1, <2>2, <2>3, <2>4, <2>5
  <2> QED
    BY <2>6 DEF Goal
<1> QED
  BY <1>3, <1>4, Zenon DEF UpdateReplicationThrottle

(* The overrides of the other brokers.                                     *)
LEMMA UpdateOverrideTypes ==
  ASSUME TypeInv, UpdateOverrideThrottles
  PROVE  /\ rate' \in [Brokers -> Rates] /\ list' \in [Topics -> Lists]
         /\ faults' \in 0 .. MaxFaults /\ tm' \in TMType
         /\ \A b \in Brokers : tm'.bo[b].cfg = tm.bo[b].cfg
<1> DEFINE assign  == NotReassignmentParticipant(tm.bo)
           remove  == {b \in Removed(tm.bo) : ~tm.bo[b].participant}
           caps    == [b \in assign |-> [r \in Roles |-> tm.bo[b].cfg.rate]]
           any     == \E b \in Brokers : Exists(tm.bo[b].cfg)
           skip    == assign = tm.throttledPreviously
           found(ok) == IF skip \/ assign \cup remove = {} \/ ~ok THEN <<>>
                        ELSE GetTopicsWithThrottledBrokers(assign)
<1>1. TypeOK /\ tm \in TMType
  BY DEF TypeInv, TypeOK
<1>2. assign \in SUBSET Brokers /\ remove \in SUBSET Brokers
  BY DEF NotReassignmentParticipant, Removed
<1>3. caps \in [assign -> Rates]
  <2>1. ASSUME NEW b \in assign
        PROVE  tm.bo[b].cfg.rate \in Nat
    BY DEF TypeInv, StoredConfigs, HasActiveOverride, Exists, Config, NotReassignmentParticipant
  <2> QED
    BY <2>1 DEF Rates
<1>4. ASSUME NEW ok \in BOOLEAN
      PROVE  DOMAIN found(ok) \subseteq Topics /\ \A t \in DOMAIN found(ok) : found(ok)[t] \in Lists
  <2>1. ThrottledTopics(assign) \subseteq Topics
    BY DEF ThrottledTopics
  <2>2. \A t \in ThrottledTopics(assign) :
          [NoLists EXCEPT !["follower"] = Replicas[t] \cap assign] \in Lists
    BY <1>2, <2>1 DEF NoLists, Lists
  <2> HIDE DEF assign, remove, skip
  <2> QED
    BY <2>1, <2>2 DEF GetTopicsWithThrottledBrokers
<1> HIDE DEF assign, remove, caps, found, any, skip
<1>5. PICK ok \in BOOLEAN, f \in Plans(assign, FALSE), h \in Plans(remove, Native) :
      \E g \in Plans(DOMAIN found(ok), Native) :
        LET spent == Cost(f) + Cost(g) + Cost(h) + IF ok THEN 0 ELSE 1
            rates == RatesApplied(caps, f)
        IN  /\ spent <= MaxFaults - faults /\ (~ok => any)
            /\ faults' = faults + spent
            /\ list' = ListsApplied(found(ok), g)
            /\ rate' = RatesRemoved(rates, remove, h)
            /\ tm' = [tm EXCEPT
                 !.pc = "purge",
                 !.known = @ \/ assign # {},
                 !.skipOverrideTopicUpdates = IF any THEN skip ELSE @,
                 !.throttledPreviously = IF any THEN assign ELSE @,
                 !.prev = PreviousRemoved(PreviousApplied(caps, f), rates, remove, h)]
  BY Zenon DEF UpdateOverrideThrottles, assign, remove, caps, found, any, skip
<1>6. PICK g \in Plans(DOMAIN found(ok), Native) :
        LET spent == Cost(f) + Cost(g) + Cost(h) + IF ok THEN 0 ELSE 1
            rates == RatesApplied(caps, f)
        IN  /\ spent <= MaxFaults - faults /\ (~ok => any)
            /\ faults' = faults + spent
            /\ list' = ListsApplied(found(ok), g)
            /\ rate' = RatesRemoved(rates, remove, h)
            /\ tm' = [tm EXCEPT
                 !.pc = "purge",
                 !.known = @ \/ assign # {},
                 !.skipOverrideTopicUpdates = IF any THEN skip ELSE @,
                 !.throttledPreviously = IF any THEN assign ELSE @,
                 !.prev = PreviousRemoved(PreviousApplied(caps, f), rates, remove, h)]
  BY <1>5, Zenon
<1>7. IsFiniteSet(assign) /\ IsFiniteSet(remove) /\ IsFiniteSet(DOMAIN found(ok))
  BY <1>2, <1>4, ClusterAssumption, FS_Subset
<1>8. Cost(f) \in Nat /\ Cost(g) \in Nat /\ Cost(h) \in Nat
  BY <1>7, PlanCost
<1>9. faults' \in 0 .. MaxFaults
  BY <1>1, <1>6, <1>8, LoopAssumption DEF TypeOK
<1>10. /\ RatesApplied(caps, f) \in [Brokers -> Rates]
       /\ PreviousApplied(caps, f) \in [Brokers -> Rates]
  BY <1>1, <1>2, <1>3, WrittenTypes
<1>11. /\ rate' \in [Brokers -> Rates]
       /\ PreviousRemoved(PreviousApplied(caps, f), RatesApplied(caps, f), remove, h)
            \in [Brokers -> Rates]
  BY <1>6, <1>10, RemovedTypes
<1>12. list' \in [Topics -> Lists]
  BY <1>1, <1>4, <1>6, ListTypes
<1>13. /\ (tm.known \/ assign # {}) \in BOOLEAN
       /\ (IF any THEN skip ELSE tm.skipOverrideTopicUpdates) \in BOOLEAN
       /\ (IF any THEN assign ELSE tm.throttledPreviously) \in SUBSET Brokers
  <2>1. tm.skipOverrideTopicUpdates \in BOOLEAN /\ tm.throttledPreviously \in SUBSET Brokers
    BY <1>1 DEF TMType
  <2> QED
    BY <1>2, <2>1, Zenon DEF any, skip
<1>14. tm' \in TMType /\ tm'.bo = tm.bo
  BY <1>1, <1>6, <1>11, <1>13, Zenon DEF TMType, Rates
<1> QED
  BY <1>9, <1>11, <1>12, <1>14

(* The removal of all throttles.                                           *)
LEMMA RemoveTypes ==
  ASSUME TypeInv, RemoveAllThrottles
  PROVE  /\ rate' \in [Brokers -> Rates] /\ list' \in [Topics -> Lists]
         /\ faults' \in 0 .. MaxFaults /\ tm' \in TMType
         /\ tm'.bo = tm.bo
<1>1. TypeOK /\ tm \in TMType
  BY DEF TypeInv, TypeOK
<1>2. PICK f \in Plans(Topics, Native), h \in Plans(Brokers \cap Unthrottle, Native), ok \in BOOLEAN :
        LET ids   == IF Cost(f) > 0 \/ ~ok THEN {} ELSE Unthrottle
            spent == Cost(f) + Cost(h) + IF ok THEN 0 ELSE 1
        IN  /\ spent <= MaxFaults - faults
            /\ faults' = faults + spent
            /\ list' = ListsRemoved(f)
            /\ rate' = RatesRemoved(rate, ids, h)
            /\ tm' = [tm EXCEPT
                 !.pc = IF tm.overrideCfg.autoRemove THEN "autoremove" ELSE "wait",
                 !.interval = 0, !.known = IF spent = 0 THEN FALSE ELSE @,
                 !.skipTopicUpdates = FALSE, !.skipOverrideTopicUpdates = FALSE,
                 !.prev = PreviousRemoved(@, rate, ids, h)]
  BY Zenon DEF RemoveAllThrottles
<1> DEFINE ids   == IF Cost(f) > 0 \/ ~ok THEN {} ELSE Unthrottle
           spent == Cost(f) + Cost(h) + IF ok THEN 0 ELSE 1
<1>3. IsFiniteSet(Topics) /\ IsFiniteSet(Brokers \cap Unthrottle)
  BY ClusterAssumption, FS_Subset
<1>4. Cost(f) \in Nat /\ Cost(h) \in Nat
  BY <1>3, PlanCost
<1>5. faults' \in 0 .. MaxFaults
  BY <1>1, <1>2, <1>4, LoopAssumption DEF TypeOK
<1>6. rate \in [Brokers -> Rates] /\ tm.prev \in [Brokers -> Rates]
  BY <1>1 DEF TypeOK, TMType, Rates
<1>7. /\ rate' \in [Brokers -> Rates]
      /\ PreviousRemoved(tm.prev, rate, ids, h) \in [Brokers -> Rates]
  <2> HIDE DEF ids
  <2> QED
    BY <1>2, <1>6, RemovedTypes DEF ids
<1>8. list' \in [Topics -> Lists]
  BY <1>1, <1>2, ListsRemovedType
<1>9. tm' = [tm EXCEPT
                 !.pc = IF tm.overrideCfg.autoRemove THEN "autoremove" ELSE "wait",
                 !.interval = 0, !.known = IF spent = 0 THEN FALSE ELSE @,
                 !.skipTopicUpdates = FALSE, !.skipOverrideTopicUpdates = FALSE,
                 !.prev = PreviousRemoved(@, rate, ids, h)]
  BY <1>2, Zenon
<1>10. 0 \in 0 .. CleanupAfter + 1
  BY LoopAssumption
<1> HIDE DEF ids, spent
<1>11. tm' \in TMType /\ tm'.bo = tm.bo
  BY <1>1, <1>7, <1>9, <1>10 DEF TMType, Rates
<1> QED
  BY <1>5, <1>7, <1>8, <1>11

(* Every step of the loop keeps the types.                                 *)
LEMMA LoopTypes == TypeInv /\ LoopStep => TypeInv'
<1> SUFFICES ASSUME TypeInv, LoopStep PROVE TypeInv'
  OBVIOUS
<1>0. /\ TypeOK /\ tm \in TMType /\ reassigning \in SUBSET Topics /\ global \in Config
      /\ override \in [Brokers -> Config \cup {Missing}]
      /\ \A b \in Brokers : tm.bo[b].cfg \in Config \cup {Missing}
      /\ tm.bo \in [Brokers -> [cfg : [rate : Int, autoRemove : BOOLEAN], participant : BOOLEAN]]
  BY DEF TypeInv, TypeOK, StoredConfigs, TMType, Config
<1>1. ASSUME tm' \in TMType, UNCHANGED <<configs, mode, kafka, req, requests>>,
             \A b \in Brokers : tm'.bo[b].cfg \in Config \cup {Missing},
             global' \in Config, override' \in [Brokers -> Config \cup {Missing}],
             trigger' \in 0 .. 1, faults' \in 0 .. MaxFaults
      PROVE  TypeInv'
  <2>1. override' \in [Brokers -> [rate : Nat \cup {-1}, autoRemove : BOOLEAN]]
    BY <1>1, ConfigTypes
  <2> QED
    BY <1>0, <1>1, <2>1 DEF TypeInv, TypeOK, StoredConfigs, Config, configs, kafka
<1>2. ASSUME tm' \in TMType, UNCHANGED <<mode, kafka, store, trigger, req, requests>>,
             rate' \in [Brokers -> Rates], list' \in [Topics -> Lists],
             \A b \in Brokers : tm'.bo[b].cfg = tm.bo[b].cfg, faults' \in 0 .. MaxFaults
      PROVE  TypeInv'
  BY <1>0, <1>2 DEF TypeInv, TypeOK, StoredConfigs, Rates, Lists, store, kafka
<1>3. Start.prev \in [Brokers -> [Roles -> Nat]]
  BY DEF Start, NoRates
<1>4. ASSUME NEW ts \in SUBSET Topics, Listed(ts)
      PROVE  tm' \in TMType /\ tm'.bo = tm.bo
  <2>1. tm.prev \in [Brokers -> [Roles -> Nat]]
    BY <1>0 DEF TMType
  <2>2. (ts \subseteq tm.previously) \in BOOLEAN
        /\ (IF ts \subseteq tm.previously THEN tm.prev ELSE Start.prev) \in [Brokers -> [Roles -> Nat]]
    BY <1>3, <2>1, Zenon
  <2> QED
    BY <1>0, <1>4, <2>2, Zenon DEF Listed, TMType
<1>5. ASSUME NEW cfg \in Config, NEW bs, Fetched(cfg, bs)
      PROVE  tm' \in TMType /\ \A b \in Brokers : tm'.bo[b].cfg \in Config \cup {Missing}
  <2>1. /\ FetchBrokerOverrides(override, bs) \in
             [Brokers -> [cfg : [rate : Int, autoRemove : BOOLEAN], participant : BOOLEAN]]
        /\ \A b \in Brokers : FetchBrokerOverrides(override, bs)[b].cfg \in Config \cup {Missing}
    <3>1. \A b \in Brokers : (IF b \in bs THEN override[b] ELSE Missing) \in Config \cup {Missing}
      BY <1>0
    <3> QED
      BY <3>1, ConfigTypes DEF FetchBrokerOverrides
  <2> QED
    BY <1>0, <1>5, <2>1, Zenon DEF Fetched, TMType, Config
<1>6. NoOverride \in Config /\ faults \in Int /\ MaxFaults \in Int
  BY <1>0, LoopAssumption DEF NoOverride, Config, TypeOK
<1>7. ASSUME NEW interval \in 0 .. CleanupAfter + 1, NextIteration(interval)
      PROVE  tm' \in TMType /\ \A b \in Brokers : tm'.bo[b].cfg \in Config \cup {Missing}
  <2>1. /\ NoBrokerOverrides \in
             [Brokers -> [cfg : [rate : Int, autoRemove : BOOLEAN], participant : BOOLEAN]]
        /\ \A b \in Brokers : NoBrokerOverrides[b].cfg \in Config \cup {Missing}
    <3>1. Missing \in [rate : Int, autoRemove : BOOLEAN]
      BY ConfigTypes
    <3> QED
      BY <3>1 DEF NoBrokerOverrides
  <2> QED
    BY <1>0, <1>6, <1>7, <2>1 DEF NextIteration, TMType, Config
<1>8. faults \in 0 .. MaxFaults /\ (faults < MaxFaults => faults + 1 \in 0 .. MaxFaults)
      /\ trigger \in 0 .. 1
  BY <1>0, <1>6 DEF TypeOK
<1>10. CASE GetReassignments
  BY <1>0, <1>1, <1>4, <1>8, <1>10 DEF GetReassignments, store
<1>11. CASE GetReassignmentsFails
  <2>1. tm' \in TMType /\ tm'.bo = tm.bo
    BY <1>0, <1>4, <1>11 DEF GetReassignmentsFails
  <2> QED
    BY <1>0, <1>1, <1>8, <1>11, <2>1 DEF GetReassignmentsFails, store
<1>12. CASE FetchOverrides
  BY <1>0, <1>1, <1>5, <1>8, <1>12 DEF FetchOverrides, store
<1>13. CASE FetchOverridesFails
  <2>1. tm' \in TMType /\ \A b \in Brokers : tm'.bo[b].cfg \in Config \cup {Missing}
    BY <1>0, <1>5, <1>6, <1>13 DEF FetchOverridesFails
  <2> QED
    BY <1>0, <1>1, <1>8, <1>13, <2>1 DEF FetchOverridesFails, store
<1>14. CASE UpdateReplicationThrottle
  BY <1>2, <1>14, UpdateTypes DEF UpdateReplicationThrottle
<1>15. CASE UpdateOverrideThrottles
  BY <1>2, <1>15, UpdateOverrideTypes, Zenon DEF UpdateOverrideThrottles
<1>16. CASE PurgeOverrideThrottles
  <2>1. tm' \in TMType /\ tm'.bo = tm.bo
    BY <1>0, <1>16 DEF PurgeOverrideThrottles, TMType
  <2>2. PICK failed \in SUBSET Removed(tm.bo) :
          /\ Cardinality(failed) <= MaxFaults - faults
          /\ faults' = faults + Cardinality(failed)
          /\ override' = Purged(Removed(tm.bo) \ failed)
    BY <1>16 DEF PurgeOverrideThrottles
  <2>3. failed \in SUBSET Brokers
    BY DEF Removed
  <2>4. Cardinality(failed) \in Nat
    BY <2>3, ClusterAssumption, FS_Subset, FS_CardinalityType
  <2>5. faults' \in 0 .. MaxFaults
    BY <1>8, <1>6, <2>2, <2>4
  <2>6. override' \in [Brokers -> Config \cup {Missing}]
    BY <1>0, <2>2 DEF Purged
  <2> QED
    BY <1>0, <1>1, <1>8, <1>16, <2>1, <2>5, <2>6 DEF PurgeOverrideThrottles
<1>17. CASE ClearThrottles
  <2>1. CASE RemoveAllThrottles
    BY <1>2, <1>17, <2>1, RemoveTypes DEF ClearThrottles
  <2>2. CASE ~RemoveAllThrottles
    <3>1. /\ tm' = [tm EXCEPT !.pc = "wait"] \/ tm' = [tm EXCEPT !.pc = "wait", !.interval = 0]
          /\ UNCHANGED <<configs, faults>>
      BY <1>17, <2>2, Zenon DEF ClearThrottles
    <3>2. tm' \in TMType /\ tm'.bo = tm.bo
      <4>1. 0 \in 0 .. CleanupAfter + 1
        BY LoopAssumption
      <4>2. CASE tm' = [tm EXCEPT !.pc = "wait"]
        BY <1>0, <4>2 DEF TMType
      <4>3. CASE tm' = [tm EXCEPT !.pc = "wait", !.interval = 0]
        BY <1>0, <4>1, <4>3 DEF TMType
      <4> QED
        BY <3>1, <4>2, <4>3
    <3> QED
      BY <1>0, <1>1, <1>8, <1>17, <3>1, <3>2 DEF ClearThrottles, store
  <2> QED
    BY <2>1, <2>2
<1>18. CASE AutoRemove
  <2>1. tm' \in TMType /\ tm'.bo = tm.bo
    BY <1>0, <1>18 DEF AutoRemove, TMType
  <2> QED
    BY <1>0, <1>1, <1>6, <1>8, <1>18, <2>1 DEF AutoRemove
<1>19. CASE Tick
  <2>1. (IF tm.interval > CleanupAfter THEN tm.interval ELSE tm.interval + 1) \in 0 .. CleanupAfter + 1
    BY <1>0, LoopAssumption DEF TMType
  <2> QED
    BY <1>0, <1>1, <1>7, <1>8, <1>19, <2>1 DEF Tick, store
<1>20. CASE Triggered
  <2>1. tm.interval \in 0 .. CleanupAfter + 1
    BY <1>0 DEF TMType
  <2>2. trigger' \in 0 .. 1
    BY <1>8, <1>20 DEF Triggered
  <2> QED
    BY <1>0, <1>1, <1>7, <1>8, <1>20, <2>1, <2>2 DEF Triggered, store
<1> QED
  BY <1>10, <1>11, <1>12, <1>13, <1>14, <1>15, <1>16, <1>17, <1>18, <1>19, <1>20 DEF LoopStep

RequestType == [pc : {"idle", "exists", "store", "trigger"},
                target : SUBSET (Brokers \cup {Global}),
                cfg : Config, exists : BOOLEAN]

(* The requests to the API keep the types.                                 *)
LEMMA RequestTypes ==
  ASSUME TypeInv, NEW h \in Handlers, setThrottle(h) \/ removeThrottle(h) \/ HandlerStep(h)
  PROVE  TypeInv'
<1>0. /\ TypeOK /\ req \in [Handlers -> RequestType] /\ global \in Config
      /\ override \in [Brokers -> Config \cup {Missing}]
      /\ requests \in 0 .. MaxRequests /\ MaxRequests \in Nat /\ MaxFaults \in Nat
      /\ faults \in 0 .. MaxFaults /\ trigger \in 0 .. 1
  BY LoopAssumption DEF TypeInv, TypeOK, StoredConfigs, RequestType, Config
<1>1. ASSUME req' \in [Handlers -> RequestType], UNCHANGED <<mode, kafka, configs, tm>>,
             global' \in Config, override' \in [Brokers -> Config \cup {Missing}],
             requests' \in 0 .. MaxRequests, faults' \in 0 .. MaxFaults, trigger' \in 0 .. 1
      PROVE  TypeInv'
  <2>1. override' \in [Brokers -> [rate : Nat \cup {-1}, autoRemove : BOOLEAN]]
    BY <1>1, ConfigTypes
  <2> QED
    BY <1>1, <2>1 DEF TypeInv, TypeOK, StoredConfigs, RequestType, Config, configs, kafka
<1>2. NoOverride \in Config /\ IdleRequest \in RequestType /\ Targets \subseteq SUBSET (Brokers \cup {Global})
      /\ OverrideConfigs \subseteq Config
  BY LoopAssumption DEF NoOverride, Config, IdleRequest, RequestType, Targets
<1>3. ASSUME NEW target \in SUBSET (Brokers \cup {Global}), NEW cfg \in Config, Received(h, target, cfg)
      PROVE  req' \in [Handlers -> RequestType] /\ requests' \in 0 .. MaxRequests
  <2>1. requests' \in 0 .. MaxRequests
    BY <1>0, <1>3 DEF Received
  <2>2. [IdleRequest EXCEPT !.pc = IF target = {} THEN "trigger" ELSE "exists",
                            !.target = target, !.cfg = cfg] \in RequestType
    BY <1>2, Zenon DEF RequestType
  <2> QED
    BY <1>0, <1>3, <2>1, <2>2 DEF Received
<1>4. CASE setThrottle(h)
  <2>1. req' \in [Handlers -> RequestType] /\ requests' \in 0 .. MaxRequests
    BY <1>2, <1>3, <1>4 DEF setThrottle
  <2> QED
    BY <1>0, <1>1, <1>4, <2>1 DEF setThrottle, store
<1>5. CASE removeThrottle(h)
  <2>1. req' \in [Handlers -> RequestType] /\ requests' \in 0 .. MaxRequests
    BY <1>2, <1>3, <1>5 DEF removeThrottle
  <2> QED
    BY <1>0, <1>1, <1>5, <2>1 DEF removeThrottle, store
<1>6. CASE CheckOverride(h)
  <2>1. (NextTarget(h) = Global \/ Exists(override[NextTarget(h)])) \in BOOLEAN
    OBVIOUS
  <2>2. req' = [req EXCEPT ![h] = [@ EXCEPT !.pc = "store", !.exists =
                  NextTarget(h) = Global \/ Exists(override[NextTarget(h)])]]
    BY <1>6, Zenon DEF CheckOverride
  <2>3. \A x \in BOOLEAN : [req[h] EXCEPT !.pc = "store", !.exists = x] \in RequestType
    BY <1>0 DEF RequestType
  <2>4. req' \in [Handlers -> RequestType]
    BY <1>0, <2>1, <2>2, <2>3
  <2> QED
    BY <1>0, <1>1, <1>6, <2>4 DEF CheckOverride, store
<1>7. ASSUME Responded(h)
      PROVE  req' \in [Handlers -> RequestType]
  <2> DEFINE rest == req[h].target \ {NextTarget(h)}
  <2>1. req' = [req EXCEPT ![h] = [@ EXCEPT !.target = rest, !.exists = FALSE,
                                           !.pc = IF rest = {} THEN "trigger" ELSE "exists"]]
    BY <1>7, Zenon DEF Responded
  <2>2. rest \in SUBSET (Brokers \cup {Global})
    BY <1>0 DEF RequestType
  <2> HIDE DEF rest
  <2>3. [req[h] EXCEPT !.target = rest, !.exists = FALSE,
                       !.pc = IF rest = {} THEN "trigger" ELSE "exists"] \in RequestType
    BY <1>0, <2>2 DEF RequestType
  <2> QED
    BY <1>0, <2>1, <2>3
<1>8. CASE StoreOverride(h)
  <2>1. req[h].cfg \in Config
    BY <1>0 DEF RequestType
  <2>2. \/ global' = req[h].cfg /\ override' = override
        \/ global' = global /\ override' = override
        \/ global' = global /\ override' = [override EXCEPT ![NextTarget(h)] = req[h].cfg]
    BY <1>8, Zenon DEF StoreOverride
  <2>3. global' \in Config /\ override' \in [Brokers -> Config \cup {Missing}]
    BY <1>0, <2>1, <2>2
  <2> QED
    BY <1>0, <1>1, <1>7, <1>8, <2>3 DEF StoreOverride
<1>9. CASE StoreOverrideFails(h)
  BY <1>0, <1>1, <1>7, <1>9 DEF StoreOverrideFails, store
<1>10. CASE SendTrigger(h)
  BY <1>0, <1>1, <1>2, <1>10 DEF SendTrigger, store
<1> QED
  BY <1>4, <1>5, <1>6, <1>8, <1>9, <1>10 DEF HandlerStep

(* What a process starts with has its type.                                *)
LEMMA StartType == Start \in TMType /\ \A b \in Brokers : Start.bo[b].cfg = Missing
<1>1. /\ NoBrokerOverrides \in
           [Brokers -> [cfg : [rate : Int, autoRemove : BOOLEAN], participant : BOOLEAN]]
      /\ \A b \in Brokers : NoBrokerOverrides[b].cfg = Missing
  <2>1. Missing \in [rate : Int, autoRemove : BOOLEAN]
    BY ConfigTypes
  <2> QED
    BY <2>1 DEF NoBrokerOverrides
<1>2. /\ [b \in Brokers |-> NoRates] \in [Brokers -> [Roles -> Nat]]
      /\ 0 \in 0 .. CleanupAfter + 1 /\ 0 \in 0 .. FailureThreshold + 1
      /\ NoOverride \in Config
  BY LoopAssumption DEF NoRates, NoOverride, Config
<1> QED
  BY <1>1, <1>2 DEF Start, TMType, Config

(* The types, and that only a missing znode has a negative rate, are kept  *)
(* by all interleavings of the loop, the handlers of the API, the cluster  *)
(* and crashes.                                                            *)
LEMMA TypeInvariance == Spec => []TypeInv
<1>1. Init => TypeInv
  <2> SUFFICES ASSUME Init PROVE TypeInv
    OBVIOUS
  <2>1. /\ NoOverride \in Config /\ IdleRequest \in RequestType
        /\ InitialOverrides \subseteq Config
    BY LoopAssumption DEF NoOverride, Config, IdleRequest, RequestType
  <2>2. \A b \in Brokers : override[b] \in Config \cup {Missing}
    BY <2>1 DEF Init
  <2>3. override \in [Brokers -> [rate : Nat \cup {-1}, autoRemove : BOOLEAN]]
    BY <2>2, ConfigTypes DEF Init
  <2>4. Start \in TMType /\ \A b \in Brokers : Start.bo[b].cfg = Missing
    BY StartType
  <2>5. rate \in [Brokers -> [Roles -> Nat]] /\ list \in [Topics -> [Roles -> SUBSET Brokers]]
    BY LoopAssumption DEF Init, NoLists
  <2>6. TypeOK
    BY <2>1, <2>3, <2>4, <2>5, LoopAssumption DEF Init, TypeOK, RequestType, Config
  <2> QED
    BY <2>2, <2>4, <2>6 DEF TypeInv, StoredConfigs, Init
<1>2. TypeInv /\ [Next]_vars => TypeInv'
  <2> SUFFICES ASSUME TypeInv, [Next]_vars PROVE TypeInv'
    OBVIOUS
  <2>1. CASE LoopStep
    BY <2>1, LoopTypes
  <2>2. CASE \E h \in Handlers : setThrottle(h) \/ removeThrottle(h) \/ HandlerStep(h)
    BY <2>2, RequestTypes
  <2>3. CASE Reassign
    BY <2>3 DEF Reassign, TypeInv, TypeOK, StoredConfigs, configs, store
  <2>4. CASE ComeOrGo
    BY <2>4, LoopAssumption DEF ComeOrGo, TypeInv, TypeOK, StoredConfigs, configs, store
  <2>5. CASE Crash
    <3>1. IdleRequest \in RequestType
      BY DEF NoOverride, Config, IdleRequest, RequestType
    <3>2. Start \in TMType /\ \A b \in Brokers : Start.bo[b].cfg = Missing
      BY StartType
    <3>3. faults' \in 0 .. MaxFaults /\ trigger' \in 0 .. 1
      BY <2>5, LoopAssumption DEF Crash, TypeInv, TypeOK
    <3> QED
      BY <2>5, <3>1, <3>2, <3>3
         DEF Crash, TypeInv, TypeOK, StoredConfigs, RequestType, Config, configs, store, kafka
  <2>6. CASE UNCHANGED vars
    BY <2>6 DEF vars, kafka, configs, store, TypeInv, TypeOK, StoredConfigs
  <2> QED
    BY <2>1, <2>2, <2>3, <2>4, <2>5, <2>6 DEF Next
<1> QED
  BY <1>1, <1>2, PTL DEF Spec

(* No rate in Kafka is negative, no more than one trigger waits in the     *)
(* channel of the API, and the count of missing metrics stays within the   *)
(* threshold, whatever fails and whenever the process is restarted.        *)
THEOREM TypeCorrect == Spec => []TypeOK
<1>1. TypeInv => TypeOK
  BY DEF TypeInv
<1> QED
  BY <1>1, TypeInvariance, PTL

-----------------------------------------------------------------------------
(* What the loop applies.                                                  *)

(* The rates caps of the brokers bs are in Kafka up to the threshold, what *)
(* is remembered is what is there, and nothing else has changed.           *)
Reached(bs, caps, rates, prev) ==
    \A b \in Brokers, r \in Roles :
       /\ prev[b][r] # 0 => rates[b][r] = prev[b][r]
       /\ b \in bs /\ caps[b][r] # 0 => Close(rates[b][r], caps[b][r])
       /\ ~(b \in bs /\ caps[b][r] # 0) => rates[b][r] = rate[b][r]

(* That is so when rates are applied without a failure.                    *)
LEMMA AppliedRates ==
  ASSUME TypeOK, ~Native, Remembered, NEW bs \in SUBSET Brokers, NEW caps \in [bs -> Rates],
         NEW f, DOMAIN f = {}
  PROVE  Reached(bs, caps, RatesApplied(caps, f), PreviousApplied(caps, f))
<1> SUFFICES ASSUME NEW b \in Brokers, NEW r \in Roles
             PROVE  /\ PreviousApplied(caps, f)[b][r] # 0 =>
                         RatesApplied(caps, f)[b][r] = PreviousApplied(caps, f)[b][r]
                    /\ b \in bs /\ caps[b][r] # 0 => Close(RatesApplied(caps, f)[b][r], caps[b][r])
                    /\ ~(b \in bs /\ caps[b][r] # 0) => RatesApplied(caps, f)[b][r] = rate[b][r]
  BY DEF Reached
<1> DEFINE new == RatesApplied(caps, f)[b][r]
           mem == PreviousApplied(caps, f)[b][r]
           writes == b \in bs /\ ToWrite(caps, b, r)
<1>1. Written(f, b)
  BY DEF Written
<1>2. new = IF writes THEN caps[b][r] ELSE rate[b][r]
  BY <1>1 DEF RatesApplied
<1>3. mem = IF writes /\ rate[b][r] # caps[b][r] THEN caps[b][r] ELSE tm.prev[b][r]
  BY DEF PreviousApplied
<1>4. tm.prev[b][r] # 0 => rate[b][r] = tm.prev[b][r]
  BY DEF Remembered
<1>5. mem # 0 => new = mem
  BY <1>2, <1>3, <1>4
<1>6. ASSUME b \in bs, caps[b][r] # 0
      PROVE  Close(new, caps[b][r])
  <2>1. CASE writes
    BY <1>2, <2>1 DEF Close
  <2>2. CASE ~writes
    BY <1>2, <1>4, <1>6, <2>2 DEF Close, ToWrite, ExceedsThreshold
  <2> QED
    BY <2>1, <2>2
<1>7. ~(b \in bs /\ caps[b][r] # 0) => new = rate[b][r]
  BY <1>2 DEF ToWrite
<1> QED
  BY <1>5, <1>6, <1>7

(* The rates of the brokers ids have been removed, and what is remembered  *)
(* is still what is there.                                                 *)
Cleared(ids, before, rates, prev) ==
    \A b \in Brokers, r \in Roles :
       /\ prev[b][r] # 0 => rates[b][r] = prev[b][r]
       /\ b \notin ids => rates[b][r] = before[b][r]

(* That is so after a removal without a failure: the legacy removal        *)
(* forgets what it had set.                                                *)
LEMMA RemovedRates ==
  ASSUME ~Native, NEW rates \in [Brokers -> Rates], NEW prev \in [Brokers -> Rates],
         NEW ids, NEW h, DOMAIN h = {},
         \A b \in Brokers, r \in Roles : prev[b][r] # 0 => rates[b][r] = prev[b][r]
  PROVE  Cleared(ids, rates, RatesRemoved(rates, ids, h), PreviousRemoved(prev, rates, ids, h))
<1> SUFFICES ASSUME NEW b \in Brokers, NEW r \in Roles
             PROVE  /\ PreviousRemoved(prev, rates, ids, h)[b][r] # 0 =>
                         RatesRemoved(rates, ids, h)[b][r] = PreviousRemoved(prev, rates, ids, h)[b][r]
                    /\ b \notin ids => RatesRemoved(rates, ids, h)[b][r] = rates[b][r]
  BY DEF Cleared
<1>1. Written(h, b) /\ NoRates[r] = 0
  BY DEF Written, NoRates
<1>2. RatesRemoved(rates, ids, h)[b][r] = IF b \in ids THEN 0 ELSE rates[b][r]
  BY <1>1 DEF RatesRemoved
<1>3. PreviousRemoved(prev, rates, ids, h)[b][r] =
        IF b \in ids /\ rates[b] # NoRates THEN 0 ELSE prev[b][r]
  BY <1>1 DEF PreviousRemoved
<1> QED
  BY <1>1, <1>2, <1>3

(* What an update with the rates caps does when no request of it fails.    *)
Applied(rb, caps, failures) ==
    \E f : /\ DOMAIN f = {}
           /\ rate' = RatesApplied(WithOverrides(caps, rb.all), f)
           /\ tm' = [tm EXCEPT !.pc = "overrides", !.known = TRUE,
                               !.failures = failures,
                               !.bo = MarkParticipants(rb.all),
                               !.prev = PreviousApplied(WithOverrides(caps, rb.all), f)]

(* An update that ends with no fault so far had none itself.               *)
LEMMA SmoothApply ==
  ASSUME TypeInv, NEW rb, rb.all \in SUBSET Brokers,
         NEW ts \in SUBSET Topics, DOMAIN rb.lists = ts,
         NEW caps, NEW failures, NEW spent \in Nat,
         ApplyReplication(rb, caps, failures, spent), faults' = 0
  PROVE  faults = 0 /\ spent = 0 /\ Applied(rb, caps, failures)
<1> DEFINE all   == WithOverrides(caps, rb.all)
           lists == IF tm.skipTopicUpdates THEN <<>> ELSE rb.lists
<1>1. IsFiniteSet(rb.all) /\ IsFiniteSet(DOMAIN lists)
  <2>1. DOMAIN lists \subseteq ts
    OBVIOUS
  <2> HIDE DEF lists
  <2> QED
    BY <2>1, ClusterAssumption, FS_Subset
<1> HIDE DEF all, lists
<1>2. PICK f \in Plans(rb.all, FALSE), g \in Plans(DOMAIN lists, Native) :
        /\ spent + Cost(f) + Cost(g) <= MaxFaults - faults
        /\ faults' = faults + spent + Cost(f) + Cost(g)
        /\ rate' = RatesApplied(all, f)
        /\ list' = ListsApplied(lists, g)
        /\ tm' = [tm EXCEPT !.pc = "overrides", !.known = TRUE,
                            !.failures = failures,
                            !.bo = MarkParticipants(rb.all),
                            !.prev = PreviousApplied(all, f)]
  BY Zenon DEF ApplyReplication, all, lists
<1>3. Cost(f) \in Nat /\ Cost(g) \in Nat /\ (Cost(f) = 0 => DOMAIN f = {})
  BY <1>1, PlanCost
<1>4. faults \in Nat
  BY LoopAssumption DEF TypeInv, TypeOK
<1>5. faults = 0 /\ spent = 0 /\ Cost(f) = 0
  BY <1>2, <1>3, <1>4
<1> QED
  BY <1>2, <1>3, <1>5, Zenon DEF all, Applied

(* Permitted, by the global override and the count of failures.            *)
PermittedBy(b, r, cfg, failures) ==
    LET maxRatio == IF r = "leader" THEN SrcMax ELSE DstMax
    IN  IF cfg.rate # 0 THEN {cfg.rate}
        ELSE IF failures > FailureThreshold THEN {Minimum}
        ELSE Minimum .. AtLeast((Capacity[b] * maxRatio) \div 100, Minimum)

LoopParts == Remembered /\ OverridesInEffect /\ ParticipantRates

(* The update of the replication throttles with rates that are permitted   *)
(* for those who have no override of their own.                            *)
LEMMA SmoothRates ==
  ASSUME TypeInv, TypeInv', ~Native, faults' = 0, LoopInv, At("update"),
         NEW caps \in [GetReassigningBrokers(tm.now).all -> Rates],
         NEW failures \in 0 .. FailureThreshold + 1,
         ApplyReplication(GetReassigningBrokers(tm.now), caps, failures, 0),
         \A b \in Brokers, r \in Roles :
            b \in GetReassigningBrokers(tm.now).role[r] =>
              caps[b][r] # 0 /\ caps[b][r] \in PermittedBy(b, r, tm.overrideCfg, failures)
  PROVE  LoopParts'
<1> DEFINE rb  == GetReassigningBrokers(tm.now)
           all == WithOverrides(caps, rb.all)
<1>1. /\ TypeOK /\ tm \in TMType /\ tm.now \in SUBSET Topics
  BY DEF TypeInv, TypeOK, TMType
<1>2. /\ rb.all \in SUBSET Brokers /\ DOMAIN rb.lists = tm.now
      /\ rb.role \in [Roles -> SUBSET Brokers] /\ \A r \in Roles : rb.role[r] \subseteq rb.all
      /\ tm.now = {} => rb.all = {}
  BY <1>1, ReassigningBrokers
<1>3. all \in [rb.all -> Rates]
  BY <1>2, OverrideTypes
<1>4. \A b \in rb.all :
        all[b] = IF HasActiveOverride(tm.bo[b].cfg) THEN [r \in Roles |-> tm.bo[b].cfg.rate] ELSE caps[b]
  BY DEF WithOverrides
<1> HIDE DEF rb, all
<1>5. PICK f : /\ faults = 0
               /\ DOMAIN f = {}
               /\ rate' = RatesApplied(all, f)
               /\ tm' = [tm EXCEPT !.pc = "overrides", !.known = TRUE,
                               !.failures = failures,
                               !.bo = MarkParticipants(rb.all),
                               !.prev = PreviousApplied(all, f)]
  <2>1. /\ ApplyReplication(rb, caps, failures, 0) /\ 0 \in Nat
        /\ rb.all \in SUBSET Brokers /\ tm.now \in SUBSET Topics /\ DOMAIN rb.lists = tm.now
    BY <1>1, <1>2 DEF rb
  <2>2. faults = 0 /\ Applied(rb, caps, failures)
    BY <2>1, SmoothApply
  <2> QED
    BY <2>2, Zenon DEF Applied, all
<1>6. /\ Remembered /\ tm.now # {}
  BY <1>5 DEF LoopInv, Smooth, OverridesInEffect, ParticipantRates
<1>7. /\ tm'.pc = "overrides" /\ tm'.now = tm.now /\ tm'.overrideCfg = tm.overrideCfg
      /\ tm'.failures = failures /\ tm'.bo = MarkParticipants(rb.all)
      /\ tm'.prev = PreviousApplied(all, f)
  BY <1>1, <1>5 DEF TMType
<1>8. ASSUME NEW b \in Brokers
      PROVE  /\ tm'.bo[b].cfg = tm.bo[b].cfg
             /\ tm'.bo[b].participant <=> b \in rb.all /\ Exists(tm.bo[b].cfg)
  <2>1. tm.bo \in [Brokers -> [cfg : [rate : Int, autoRemove : BOOLEAN], participant : BOOLEAN]]
    BY <1>1 DEF TMType
  <2>2. tm'.bo[b] = [tm.bo[b] EXCEPT !.participant = b \in rb.all /\ Exists(tm.bo[b].cfg)]
    BY <1>7, Zenon DEF MarkParticipants
  <2>3. \A p : /\ [tm.bo[b] EXCEPT !.participant = p].cfg = tm.bo[b].cfg
              /\ [tm.bo[b] EXCEPT !.participant = p].participant = p
    BY <2>1
  <2>4. /\ tm'.bo[b].cfg = tm.bo[b].cfg
        /\ tm'.bo[b].participant = (b \in rb.all /\ Exists(tm.bo[b].cfg))
    BY <2>2, <2>3, Zenon
  <2> QED
    BY <2>4, Zenon
<1>9. ASSUME NEW b \in Brokers, NEW r \in Roles
      PROVE  /\ tm'.prev[b][r] # 0 => rate'[b][r] = tm'.prev[b][r]
             /\ b \in rb.all /\ all[b][r] # 0 => Close(rate'[b][r], all[b][r])
  <2>1. /\ TypeOK /\ Remembered /\ DOMAIN f = {}
        /\ rb.all \in SUBSET Brokers /\ all \in [rb.all -> Rates]
    BY <1>1, <1>2, <1>3, <1>5, <1>6
  <2>2. Reached(rb.all, all, RatesApplied(all, f), PreviousApplied(all, f))
    BY <2>1, AppliedRates
  <2>3. Reached(rb.all, all, rate', tm'.prev)
    BY <1>5, <1>7, <2>2
  <2> QED
    BY <2>3, Zenon DEF Reached
<1>10. Remembered'
  BY <1>9 DEF Remembered
<1>11. ASSUME NEW b \in Brokers, tm'.bo[b].participant
       PROVE  InEffect(b)'
  <2>1. ASSUME HasActiveOverride(tm.bo[b].cfg), NEW r \in Roles
        PROVE  Close(rate'[b][r], tm.bo[b].cfg.rate)
    <3>1. b \in rb.all
      BY <1>8, <1>11
    <3>2. all[b][r] = tm.bo[b].cfg.rate /\ all[b][r] # 0
      BY <1>4, <2>1, <3>1 DEF HasActiveOverride
    <3> QED
      BY <1>9, <3>1, <3>2
  <2> QED
    BY <1>8, <2>1 DEF InEffect
<1>12. OverridesInEffect'
  BY <1>6, <1>7, <1>11 DEF OverridesInEffect, At
<1>13. GetReassigningBrokers(tm.now)' = rb
  BY <1>7 DEF rb
<1>14. ASSUME NEW b \in Brokers, NEW r \in Roles
       PROVE  Permitted(b, r)' = PermittedBy(b, r, tm.overrideCfg, failures)
  BY <1>7 DEF Permitted, PermittedBy
<1>15. ASSUME NEW b \in rb.all, NEW r \in {x \in Roles : b \in rb.role[x]},
              ~HasActiveOverride(tm'.bo[b].cfg)
       PROVE  \E want \in Permitted(b, r)' : Close(rate'[b][r], want)
  <2>1. b \in Brokers /\ r \in Roles /\ all[b] = caps[b]
    BY <1>2, <1>4, <1>8, <1>15
  <2>2. caps[b][r] # 0 /\ caps[b][r] \in Permitted(b, r)'
    BY <1>14, <1>15, <2>1 DEF rb
  <2> QED
    BY <1>9, <2>1, <2>2
<1>16. \A b \in rb.all : Exists(tm'.bo[b].cfg) => tm'.bo[b].participant
  BY <1>2, <1>8
<1>17. ParticipantRates'
  BY <1>7, <1>13, <1>15, <1>16 DEF ParticipantRates, At
<1> QED
  BY <1>10, <1>12, <1>17 DEF LoopParts

(* Without an update, nothing has been determined.                         *)
LEMMA SmoothRetain ==
  ASSUME TypeInv, ~Native, faults' = 0, LoopInv, At("update"),
         NEW failures, NEW err, Retain(failures, err, 0),
         failures \in 1 .. FailureThreshold \/ err
  PROVE  LoopParts'
<1>1. tm \in TMType /\ faults \in Nat
  BY LoopAssumption DEF TypeInv, TypeOK
<1>2. faults = 0 /\ rate' = rate
  BY <1>1 DEF Retain, configs
<1>3. /\ Remembered /\ \A b \in Brokers : ~tm.bo[b].participant
  BY <1>2 DEF LoopInv, Smooth, OverridesInEffect
<1>4. /\ tm'.pc = "overrides" /\ tm'.now = tm.now /\ tm'.failures = failures
      /\ tm'.bo = tm.bo /\ tm'.prev = tm.prev /\ tm'.err = err
  BY <1>1 DEF Retain, TMType
<1>5. Remembered'
  BY <1>2, <1>3, <1>4 DEF Remembered
<1>6. OverridesInEffect'
  BY <1>3, <1>4 DEF OverridesInEffect, At
<1>7. ~Determined'
  BY <1>4 DEF Determined
<1>8. ParticipantRates'
  BY <1>4, <1>7 DEF ParticipantRates, At
<1> QED
  BY <1>5, <1>6, <1>8 DEF LoopParts

(* The update of the replication throttles.                                *)
LEMMA SmoothUpdate ==
  ASSUME TypeInv, TypeInv', ~Native, faults' = 0, LoopInv, UpdateReplicationThrottle
  PROVE  LoopParts'
<1> DEFINE rb == GetReassigningBrokers(tm.now)
<1>1. /\ TypeOK /\ tm \in TMType /\ tm.now \in SUBSET Topics /\ faults \in Nat
      /\ At("update")
  BY LoopAssumption DEF TypeInv, TypeOK, TMType, UpdateReplicationThrottle
<1>2. /\ rb.all \in SUBSET Brokers /\ DOMAIN rb.lists = tm.now
      /\ rb.role \in [Roles -> SUBSET Brokers] /\ \A r \in Roles : rb.role[r] \subseteq rb.all
  BY <1>1, ReassigningBrokers
<1>3. ASSUME NEW caps \in [rb.all -> Rates], NEW failures \in 0 .. FailureThreshold + 1,
             ApplyReplication(rb, caps, failures, 0),
             \A b \in Brokers, r \in Roles : b \in rb.role[r] =>
                caps[b][r] # 0 /\ caps[b][r] \in PermittedBy(b, r, tm.overrideCfg, failures)
      PROVE  LoopParts'
  BY <1>1, <1>3, SmoothRates
<1>4. ASSUME NEW failures, NEW err, Retain(failures, err, 0),
             failures \in 1 .. FailureThreshold \/ err
      PROVE  LoopParts'
  BY <1>1, <1>4, SmoothRetain
<1> HIDE DEF rb
<1>5. /\ FailureThreshold \in Nat /\ Minimum \in Nat \ {0} /\ tm.overrideCfg.rate \in Nat
      /\ tm.failures \in 0 .. FailureThreshold + 1
      /\ 0 \in 0 .. FailureThreshold + 1 /\ FailureThreshold + 1 \in 0 .. FailureThreshold + 1
  BY <1>1, LoopAssumption, LimitsAssumption DEF TMType
<1>6. CASE GlobalRate(rb, 0)
  <2> DEFINE caps == setAllRatesWithDefault(rb.all, tm.overrideCfg.rate)
  <2>1. caps \in [rb.all -> Rates] /\ tm.overrideCfg.rate # 0 /\ ApplyReplication(rb, caps, 0, 0)
    BY <1>5, <1>6 DEF GlobalRate, setAllRatesWithDefault, Rates
  <2>2. \A b \in Brokers, r \in Roles : b \in rb.role[r] => caps[b][r] = tm.overrideCfg.rate
    BY <1>2 DEF setAllRatesWithDefault
  <2>3. \A b \in Brokers, r \in Roles :
          tm.overrideCfg.rate \in PermittedBy(b, r, tm.overrideCfg, 0)
    BY <2>1 DEF PermittedBy
  <2> HIDE DEF caps
  <2> QED
    BY <1>3, <1>5, <2>1, <2>2, <2>3
<1>7. CASE MetricsRate(rb, 0)
  <2>1. tm.overrideCfg.rate = 0
    BY <1>7 DEF MetricsRate
  <2>. PICK bm \in BrokerMetrics(rb.all) :
          IF CapacitiesError(rb, bm)
          THEN Retain(0, TRUE, 0)
          ELSE ApplyReplication(rb, brokerReplicationCapacities(rb, bm, tm.prev), 0, 0)
    BY <1>7, Zenon DEF MetricsRate
  <2>2. CASE CapacitiesError(rb, bm)
    BY <1>4, <2>2
  <2>3. CASE ~CapacitiesError(rb, bm)
    <3>1. /\ ApplyReplication(rb, brokerReplicationCapacities(rb, bm, tm.prev), 0, 0)
          /\ \A b \in rb.all : bm[b] \in Nat
      BY <2>3, MetricsCover
    <3> DEFINE caps == brokerReplicationCapacities(rb, bm, tm.prev)
    <3>2. ASSUME NEW b \in rb.all, NEW r \in Roles
          PROVE  /\ replicationHeadroom(b, r, bm[b], tm.prev[b][r]) \in Nat \ {0}
                 /\ replicationHeadroom(b, r, bm[b], tm.prev[b][r])
                      \in PermittedBy(b, r, tm.overrideCfg, 0)
      <4>1. tm.prev \in [Brokers -> [Roles -> Nat]]
        BY <1>1 DEF TMType
      <4>2. b \in Brokers /\ bm[b] \in Nat /\ tm.prev[b][r] \in Nat
        <5>1. b \in Brokers
          BY <1>2
        <5>2. bm[b] \in Nat
          BY <3>1
        <5>3. tm.prev[b][r] \in Nat
          BY <4>1, <5>1
        <5> QED
          BY <5>1, <5>2, <5>3
      <4> DEFINE maxRatio == IF r = "leader" THEN SrcMax ELSE DstMax
                 top == AtLeast((Capacity[b] * maxRatio) \div 100, Minimum)
      <4>3. replicationHeadroom(b, r, bm[b], tm.prev[b][r]) \in Minimum .. top
        BY <4>2, HeadroomBounds
      <4>4. PermittedBy(b, r, tm.overrideCfg, 0) = Minimum .. top
        BY <1>5, <2>1 DEF PermittedBy
      <4> HIDE DEF top
      <4>5. \A x : x \in Minimum .. top => x \in Nat \ {0}
        BY <1>5
      <4> QED
        BY <4>3, <4>4, <4>5
    <3>3. caps \in [rb.all -> Rates]
      BY <3>2 DEF brokerReplicationCapacities, Rates
    <3>4. \A b \in Brokers, r \in Roles : b \in rb.role[r] =>
            b \in rb.all /\ caps[b][r] = replicationHeadroom(b, r, bm[b], tm.prev[b][r])
      BY <1>2 DEF brokerReplicationCapacities
    <3> HIDE DEF caps
    <3>5. \A b \in Brokers, r \in Roles : b \in rb.role[r] =>
            caps[b][r] # 0 /\ caps[b][r] \in PermittedBy(b, r, tm.overrideCfg, 0)
      BY <3>2, <3>4
    <3>6. ApplyReplication(rb, caps, 0, 0)
      BY <3>1 DEF caps
    <3> QED
      BY <1>3, <1>5, <3>3, <3>5, <3>6
  <2> QED
    BY <2>2, <2>3
<1>8. CASE MetricsMissing(rb, 0)
  <2>1. tm.overrideCfg.rate = 0
    BY <1>8 DEF MetricsMissing
  <2>2. CASE Failure
    <3> DEFINE caps == setAllRatesWithDefault(rb.all, Minimum)
    <3>1. caps \in [rb.all -> Rates] /\ ApplyReplication(rb, caps, FailureThreshold + 1, 0)
      BY <1>5, <1>8, <2>2 DEF MetricsMissing, setAllRatesWithDefault, Rates
    <3>2. \A b \in Brokers, r \in Roles : b \in rb.role[r] => caps[b][r] = Minimum
      BY <1>2 DEF setAllRatesWithDefault
    <3>3. \A b \in Brokers, r \in Roles :
            Minimum # 0 /\ Minimum \in PermittedBy(b, r, tm.overrideCfg, FailureThreshold + 1)
      BY <1>5, <2>1 DEF PermittedBy
    <3> HIDE DEF caps
    <3> QED
      BY <1>3, <1>5, <3>1, <3>2, <3>3
  <2>3. CASE ~Failure
    <3>1. tm.failures + 1 \in 1 .. FailureThreshold
      BY <1>5, <2>3 DEF Failure
    <3> QED
      BY <1>4, <1>8, <2>3, <3>1 DEF MetricsMissing
  <2> QED
    BY <2>2, <2>3
<1>9. ASSUME NEW t \in tm.now, NEW ts \in SUBSET (tm.now \ {t}),
             LET part == PartialReassigningBrokers(ts, t)
             IN  GlobalRate(part, 1) \/ MetricsRate(part, 1) \/ MetricsMissing(part, 1)
      PROVE  FALSE
  <2> DEFINE part == PartialReassigningBrokers(ts, t)
  <2>1. ts \in SUBSET Topics /\ t \in Topics /\ ts \cup {t} \in SUBSET Topics
    BY <1>1
  <2>2. part.all \in SUBSET Brokers /\ DOMAIN part.lists = ts \cup {t}
    BY <2>1, PartialBrokers
  <2>3. GlobalRate(part, 1) \/ MetricsRate(part, 1) \/ MetricsMissing(part, 1)
    BY <1>9
  <2> HIDE DEF part
  <2>4. ASSUME NEW caps, NEW failures, ApplyReplication(part, caps, failures, 1)
        PROVE  FALSE
    BY <2>1, <2>2, <2>4, SmoothApply
  <2>5. ASSUME NEW failures, NEW err, Retain(failures, err, 1)
        PROVE  FALSE
    BY <1>1, <2>5 DEF Retain
  <2> QED
    BY <2>3, <2>4, <2>5 DEF GlobalRate, MetricsRate, MetricsMissing
<1> QED
  BY <1>6, <1>7, <1>8, <1>9, Zenon DEF UpdateReplicationThrottle, rb

(* The overrides of the brokers that take no part in a reassignment.       *)
LEMMA SmoothOverrides ==
  ASSUME TypeInv, ~Native, faults' = 0, LoopInv, UpdateOverrideThrottles
  PROVE  LoopParts'
<1> DEFINE assign  == NotReassignmentParticipant(tm.bo)
           remove  == {b \in Removed(tm.bo) : ~tm.bo[b].participant}
           caps    == [b \in assign |-> [r \in Roles |-> tm.bo[b].cfg.rate]]
           any     == \E b \in Brokers : Exists(tm.bo[b].cfg)
           skip    == assign = tm.throttledPreviously
           found(ok) == IF skip \/ assign \cup remove = {} \/ ~ok THEN <<>>
                        ELSE GetTopicsWithThrottledBrokers(assign)
           rb      == GetReassigningBrokers(tm.now)
<1>1. TypeOK /\ tm \in TMType /\ faults \in Nat /\ tm.now \in SUBSET Topics
  BY LoopAssumption DEF TypeInv, TypeOK, TMType
<1>2. assign \in SUBSET Brokers /\ remove \in SUBSET Brokers
  BY DEF NotReassignmentParticipant, Removed
<1>3. /\ caps \in [assign -> Rates]
      /\ \A b \in assign, r \in Roles : caps[b][r] = tm.bo[b].cfg.rate
  <2>1. ASSUME NEW b \in assign
        PROVE  tm.bo[b].cfg.rate \in Nat
    BY DEF TypeInv, StoredConfigs, HasActiveOverride, Exists, Config, NotReassignmentParticipant
  <2> QED
    BY <2>1 DEF Rates
<1>4. ASSUME NEW ok \in BOOLEAN
      PROVE  IsFiniteSet(DOMAIN found(ok))
  <2>1. DOMAIN found(ok) \subseteq Topics
    <3>1. ThrottledTopics(assign) \subseteq Topics
      BY DEF ThrottledTopics
    <3> HIDE DEF assign, remove, skip
    <3> QED
      BY <3>1 DEF GetTopicsWithThrottledBrokers
  <2> HIDE DEF found
  <2> QED
    BY <2>1, ClusterAssumption, FS_Subset
<1>5. \A b \in Brokers : b \in assign <=> HasActiveOverride(tm.bo[b].cfg) /\ ~tm.bo[b].participant
  BY DEF NotReassignmentParticipant
<1>6. \A b \in Brokers : b \in remove <=> tm.bo[b].cfg.rate = 0 /\ ~tm.bo[b].participant
  BY DEF Removed
<1> HIDE DEF assign, remove, caps, found, any, skip, rb
<1>7. PICK ok \in BOOLEAN, f \in Plans(assign, FALSE), h \in Plans(remove, Native) :
      \E g \in Plans(DOMAIN found(ok), Native) :
        LET spent == Cost(f) + Cost(g) + Cost(h) + IF ok THEN 0 ELSE 1
            rates == RatesApplied(caps, f)
        IN  /\ spent <= MaxFaults - faults /\ (~ok => any)
            /\ faults' = faults + spent
            /\ list' = ListsApplied(found(ok), g)
            /\ rate' = RatesRemoved(rates, remove, h)
            /\ tm' = [tm EXCEPT
                 !.pc = "purge",
                 !.known = @ \/ assign # {},
                 !.skipOverrideTopicUpdates = IF any THEN skip ELSE @,
                 !.throttledPreviously = IF any THEN assign ELSE @,
                 !.prev = PreviousRemoved(PreviousApplied(caps, f), rates, remove, h)]
  BY Zenon DEF UpdateOverrideThrottles, assign, remove, caps, found, any, skip
<1>8. PICK g \in Plans(DOMAIN found(ok), Native) :
        /\ faults' = faults + (Cost(f) + Cost(g) + Cost(h) + IF ok THEN 0 ELSE 1)
        /\ rate' = RatesRemoved(RatesApplied(caps, f), remove, h)
        /\ tm' = [tm EXCEPT
             !.pc = "purge",
             !.known = @ \/ assign # {},
             !.skipOverrideTopicUpdates = IF any THEN skip ELSE @,
             !.throttledPreviously = IF any THEN assign ELSE @,
             !.prev = PreviousRemoved(PreviousApplied(caps, f), RatesApplied(caps, f), remove, h)]
  BY <1>7, Zenon
<1>9. IsFiniteSet(assign) /\ IsFiniteSet(remove) /\ IsFiniteSet(DOMAIN found(ok))
  BY <1>2, <1>4, ClusterAssumption, FS_Subset
<1>10. /\ Cost(f) \in Nat /\ Cost(g) \in Nat /\ Cost(h) \in Nat
       /\ Cost(f) = 0 => DOMAIN f = {}
       /\ Cost(h) = 0 => DOMAIN h = {}
  BY <1>9, PlanCost
<1>11. faults = 0 /\ DOMAIN f = {} /\ DOMAIN h = {}
  BY <1>1, <1>8, <1>10
<1>12. Remembered /\ OverridesInEffect /\ ParticipantRates /\ At("overrides")
  BY <1>11 DEF LoopInv, Smooth, UpdateOverrideThrottles
<1>13. Reached(assign, caps, RatesApplied(caps, f), PreviousApplied(caps, f))
  BY <1>1, <1>2, <1>3, <1>11, <1>12, AppliedRates
<1>14. /\ RatesApplied(caps, f) \in [Brokers -> Rates]
       /\ PreviousApplied(caps, f) \in [Brokers -> Rates]
  BY <1>1, <1>2, <1>3, WrittenTypes
<1>15. /\ tm'.pc = "purge" /\ tm'.bo = tm.bo /\ tm'.now = tm.now /\ tm'.failures = tm.failures
       /\ tm'.overrideCfg = tm.overrideCfg /\ tm'.err = tm.err
       /\ tm'.prev = PreviousRemoved(PreviousApplied(caps, f), RatesApplied(caps, f), remove, h)
  BY <1>1, <1>8 DEF TMType
<1>16. Cleared(remove, RatesApplied(caps, f), rate', tm'.prev)
  <2>1. \A b \in Brokers, r \in Roles : PreviousApplied(caps, f)[b][r] # 0 =>
          RatesApplied(caps, f)[b][r] = PreviousApplied(caps, f)[b][r]
    BY <1>13 DEF Reached
  <2> QED
    BY <1>8, <1>11, <1>14, <1>15, <2>1, RemovedRates
<1>17. Remembered'
  BY <1>16 DEF Remembered, Cleared
<1>18. ASSUME NEW b \in Brokers, NEW r \in Roles, b \notin remove
       PROVE  /\ b \notin assign => rate'[b][r] = rate[b][r]
              /\ b \in assign /\ caps[b][r] # 0 => Close(rate'[b][r], caps[b][r])
  BY <1>13, <1>16, <1>18 DEF Reached, Cleared
<1>19. ASSUME NEW b \in Brokers, HasActiveOverride(tm.bo[b].cfg), NEW r \in Roles
       PROVE  Close(rate'[b][r], tm.bo[b].cfg.rate)
  <2>1. tm.bo[b].cfg.rate # 0 /\ b \notin remove
    BY <1>6, <1>19 DEF HasActiveOverride
  <2>2. CASE tm.bo[b].participant
    <3>1. b \notin assign /\ Close(rate[b][r], tm.bo[b].cfg.rate)
      BY <1>5, <1>12, <1>19, <2>2 DEF OverridesInEffect, InEffect
    <3> QED
      BY <1>18, <2>1, <3>1
  <2>3. CASE ~tm.bo[b].participant
    <3>1. b \in assign /\ caps[b][r] = tm.bo[b].cfg.rate
      BY <1>3, <1>5, <1>19, <2>3
    <3> QED
      BY <1>18, <2>1, <3>1
  <2> QED
    BY <2>2, <2>3
<1>20. OverridesInEffect'
  <2>1. \A b \in Brokers : InEffect(b)'
    BY <1>15, <1>19 DEF InEffect
  <2>2. \A b \in Brokers : tm'.bo[b].participant => tm'.now # {}
    BY <1>12, <1>15 DEF OverridesInEffect
  <2> QED
    BY <1>15, <2>1, <2>2 DEF OverridesInEffect, At
<1>21. GetReassigningBrokers(tm.now)' = rb /\ (Determined' => Determined)
  BY <1>15 DEF rb, Determined
<1>22. rb.all \in SUBSET Brokers
  BY <1>1, ReassigningBrokers DEF rb
<1>23. ASSUME Determined, NEW b \in rb.all, NEW r \in {x \in Roles : b \in rb.role[x]},
              ~HasActiveOverride(tm.bo[b].cfg)
       PROVE  \E want \in Permitted(b, r)' : Close(rate'[b][r], want)
  <2>1. b \in Brokers /\ r \in Roles /\ b \notin assign
    BY <1>5, <1>22, <1>23
  <2>2. b \notin remove
    <3>1. tm.bo[b].cfg.rate = 0 => Exists(tm.bo[b].cfg)
      BY DEF Exists, Missing
    <3>2. Exists(tm.bo[b].cfg) => tm.bo[b].participant
      BY <1>12, <1>23 DEF ParticipantRates, rb
    <3> QED
      BY <1>6, <2>1, <3>1, <3>2
  <2>3. rate'[b][r] = rate[b][r]
    BY <1>18, <2>1, <2>2
  <2>4. \E want \in Permitted(b, r) : Close(rate[b][r], want)
    BY <1>12, <1>23 DEF ParticipantRates, rb
  <2>5. Permitted(b, r)' = Permitted(b, r)
    BY <1>15 DEF Permitted
  <2> QED
    BY <2>3, <2>4, <2>5
<1>24. ParticipantRates'
  BY <1>15, <1>21, <1>23 DEF ParticipantRates, At
<1> QED
  BY <1>17, <1>20, <1>24 DEF LoopParts

(* A step that leaves the loop's view and the rates alone, or only moves   *)
(* on from one phase to the next.                                          *)
LEMMA SmoothFrame ==
  ASSUME LoopParts, rate' = rate, tm'.bo = tm.bo, tm'.now = tm.now, tm'.prev = tm.prev,
         tm'.failures = tm.failures, tm'.overrideCfg = tm.overrideCfg, tm'.err = tm.err,
         \/ tm'.pc = tm.pc
         \/ At("purge") /\ tm'.pc = "clear"
         \/ At("clear") /\ tm'.pc = "wait"
         \/ At("autoremove") /\ tm'.pc = "wait"
  PROVE  LoopParts'
<1> USE DEF LoopParts, At
<1>1. Remembered'
  BY DEF Remembered
<1>2. \A b \in Brokers : InEffect(b)' <=> InEffect(b)
  BY DEF InEffect
<1>3. OverridesInEffect'
  BY <1>2 DEF OverridesInEffect
<1>4. /\ GetReassigningBrokers(tm.now)' = GetReassigningBrokers(tm.now)
      /\ Determined' <=> Determined
      /\ \A b, r : Permitted(b, r)' = Permitted(b, r)
  BY DEF Determined, Permitted
<1>5. ParticipantRates'
  BY <1>4 DEF ParticipantRates
<1> QED
  BY <1>1, <1>3, <1>5

(* The removal of all throttles: there is no override that it could remove *)
(* from under a broker, and nobody takes part in a reassignment.           *)
LEMMA SmoothClear ==
  ASSUME TypeInv, ~Native, faults' = 0, LoopInv, At("clear"), tm.now = {},
         NotReassignmentParticipant(tm.bo) = {}, RemoveAllThrottles
  PROVE  LoopParts'
<1>1. /\ TypeOK /\ tm \in TMType /\ faults \in Nat
      /\ rate \in [Brokers -> Rates] /\ tm.prev \in [Brokers -> Rates]
  BY LoopAssumption DEF TypeInv, TypeOK, TMType, Rates
<1>2. PICK f \in Plans(Topics, Native), h \in Plans(Brokers \cap Unthrottle, Native), ok \in BOOLEAN :
        LET ids   == IF Cost(f) > 0 \/ ~ok THEN {} ELSE Unthrottle
            spent == Cost(f) + Cost(h) + IF ok THEN 0 ELSE 1
        IN  /\ spent <= MaxFaults - faults /\ (Cost(f) > 0 => ok /\ Cost(h) = 0)
            /\ (~ok => Cost(h) = 0)
            /\ faults' = faults + spent
            /\ list' = ListsRemoved(f)
            /\ rate' = RatesRemoved(rate, ids, h)
            /\ tm' = [tm EXCEPT
                 !.pc = IF tm.overrideCfg.autoRemove THEN "autoremove" ELSE "wait",
                 !.interval = 0, !.known = IF spent = 0 THEN FALSE ELSE @,
                 !.skipTopicUpdates = FALSE, !.skipOverrideTopicUpdates = FALSE,
                 !.prev = PreviousRemoved(@, rate, ids, h)]
  BY Zenon DEF RemoveAllThrottles
<1> DEFINE ids   == IF Cost(f) > 0 \/ ~ok THEN {} ELSE Unthrottle
           spent == Cost(f) + Cost(h) + IF ok THEN 0 ELSE 1
<1>3. IsFiniteSet(Topics) /\ IsFiniteSet(Brokers \cap Unthrottle)
  BY ClusterAssumption, FS_Subset
<1>4. Cost(f) \in Nat /\ Cost(h) \in Nat /\ (Cost(h) = 0 => DOMAIN h = {})
  BY <1>3, PlanCost
<1>5. faults = 0 /\ DOMAIN h = {}
  BY <1>1, <1>2, <1>4
<1>6. /\ rate' = RatesRemoved(rate, ids, h)
      /\ tm' = [tm EXCEPT
                 !.pc = IF tm.overrideCfg.autoRemove THEN "autoremove" ELSE "wait",
                 !.interval = 0, !.known = IF spent = 0 THEN FALSE ELSE @,
                 !.skipTopicUpdates = FALSE, !.skipOverrideTopicUpdates = FALSE,
                 !.prev = PreviousRemoved(@, rate, ids, h)]
  BY <1>2, Zenon
<1> HIDE DEF ids, spent
<1>7. /\ tm'.pc \in {"autoremove", "wait"} /\ tm'.bo = tm.bo /\ tm'.now = {}
      /\ tm'.prev = PreviousRemoved(tm.prev, rate, ids, h)
  BY <1>1, <1>6 DEF TMType
<1>8. Remembered /\ OverridesInEffect
  BY <1>5 DEF LoopInv, Smooth
<1>9. Cleared(ids, rate, rate', tm'.prev)
  BY <1>1, <1>5, <1>6, <1>7, <1>8, RemovedRates DEF Remembered
<1>10. Remembered'
  BY <1>9 DEF Remembered, Cleared
<1>11. \A b \in Brokers : ~HasActiveOverride(tm.bo[b].cfg)
  BY <1>8 DEF OverridesInEffect, NotReassignmentParticipant
<1>12. OverridesInEffect'
  BY <1>7, <1>11 DEF OverridesInEffect, InEffect, At
<1>13. GetReassigningBrokers(tm.now)'.all = {}
  BY <1>7, ReassigningBrokers
<1>14. ParticipantRates'
  BY <1>7, <1>13 DEF ParticipantRates, At
<1> QED
  BY <1>10, <1>12, <1>14 DEF LoopParts

(* A phase at which nothing is known of the overrides yet.                 *)
LEMMA SmoothListed ==
  ASSUME tm'.pc \in {"list", "fetch"}, Remembered'
  PROVE  LoopParts'
  BY DEF LoopParts, OverridesInEffect, ParticipantRates, At

(* Every step of the loop that ends with no fault so far.                  *)
LEMMA SmoothLoop ==
  ASSUME TypeInv, TypeInv', ~Native, faults' = 0, LoopInv, LoopStep
  PROVE  LoopParts'
<1>1. TypeOK /\ tm \in TMType /\ faults \in Nat /\ tm.now \in SUBSET Topics
  BY LoopAssumption DEF TypeInv, TypeOK, TMType
<1>2. faults = 0 => Remembered /\ LoopParts
  BY DEF LoopInv, Smooth, LoopParts
<1>3. CASE GetReassignments
  <2>1. faults = 0 /\ rate' = rate
    BY <1>3 DEF GetReassignments, configs
  <2>2. tm'.pc = "fetch" /\ (tm'.prev = tm.prev \/ tm'.prev = Start.prev)
    BY <1>1, <1>3 DEF GetReassignments, Listed, TMType
  <2>3. \A b \in Brokers, r \in Roles : Start.prev[b][r] = 0
    BY DEF Start, NoRates
  <2>4. Remembered'
    <3>1. CASE tm'.prev = tm.prev
      BY <1>2, <2>1, <3>1 DEF Remembered
    <3>2. CASE tm'.prev = Start.prev
      BY <2>3, <3>2 DEF Remembered
    <3> QED
      BY <2>2, <3>1, <3>2
  <2> QED
    BY <2>2, <2>4, SmoothListed
<1>4. CASE GetReassignmentsFails
  BY <1>1, <1>4 DEF GetReassignmentsFails
<1>5. CASE FetchOverrides
  <2>1. faults = 0 /\ rate' = rate
    BY <1>5 DEF FetchOverrides, configs
  <2>2. /\ tm'.pc = (IF tm.now # {} THEN "update" ELSE "overrides") /\ tm'.now = tm.now
        /\ tm'.prev = tm.prev /\ tm'.bo = FetchBrokerOverrides(override, Brokers)
    BY <1>1, <1>5 DEF FetchOverrides, Fetched, TMType
  <2>3. \A b \in Brokers : ~tm'.bo[b].participant
    BY <2>2 DEF FetchBrokerOverrides
  <2>4. Remembered'
    BY <1>2, <2>1, <2>2 DEF Remembered
  <2>5. OverridesInEffect'
    BY <2>2, <2>3 DEF OverridesInEffect, At
  <2>6. tm.now = {} => GetReassigningBrokers(tm.now)'.all = {}
    BY <1>1, <2>2, ReassigningBrokers
  <2>7. ParticipantRates'
    BY <2>2, <2>6 DEF ParticipantRates, At
  <2> QED
    BY <2>4, <2>5, <2>7 DEF LoopParts
<1>6. CASE FetchOverridesFails
  BY <1>1, <1>6 DEF FetchOverridesFails
<1>7. CASE UpdateReplicationThrottle
  BY <1>7, SmoothUpdate
<1>8. CASE UpdateOverrideThrottles
  BY <1>8, SmoothOverrides
<1>9. CASE PurgeOverrideThrottles
  <2>1. PICK failed \in SUBSET Removed(tm.bo) : faults' = faults + Cardinality(failed)
    BY <1>9 DEF PurgeOverrideThrottles
  <2>2. failed \in SUBSET Brokers
    BY DEF Removed
  <2>3. Cardinality(failed) \in Nat
    BY <2>2, ClusterAssumption, FS_Subset, FS_CardinalityType
  <2>4. faults = 0 /\ rate' = rate /\ At("purge")
    BY <1>1, <1>9, <2>1, <2>3 DEF PurgeOverrideThrottles, configs
  <2>5. /\ tm'.pc = "clear" /\ tm'.bo = tm.bo /\ tm'.now = tm.now /\ tm'.prev = tm.prev
        /\ tm'.failures = tm.failures /\ tm'.overrideCfg = tm.overrideCfg /\ tm'.err = tm.err
    BY <1>1, <1>9 DEF PurgeOverrideThrottles, TMType
  <2> QED
    BY <1>2, <2>4, <2>5, SmoothFrame
<1>10. CASE ClearThrottles
  <2>1. CASE tm.now = {} /\ NotReassignmentParticipant(tm.bo) = {} /\ RemoveAllThrottles
    BY <1>10, <2>1, SmoothClear DEF ClearThrottles
  <2>2. CASE ~(tm.now = {} /\ NotReassignmentParticipant(tm.bo) = {} /\ RemoveAllThrottles)
    <3>1. /\ tm' = [tm EXCEPT !.pc = "wait"] \/ tm' = [tm EXCEPT !.pc = "wait", !.interval = 0]
          /\ UNCHANGED <<configs, faults>> /\ At("clear")
      BY <1>10, <2>2, Zenon DEF ClearThrottles
    <3>2. /\ tm'.pc = "wait" /\ tm'.bo = tm.bo /\ tm'.now = tm.now /\ tm'.prev = tm.prev
          /\ tm'.failures = tm.failures /\ tm'.overrideCfg = tm.overrideCfg /\ tm'.err = tm.err
      <4>1. CASE tm' = [tm EXCEPT !.pc = "wait"]
        BY <1>1, <4>1 DEF TMType
      <4>2. CASE tm' = [tm EXCEPT !.pc = "wait", !.interval = 0]
        BY <1>1, <4>2 DEF TMType
      <4> QED
        BY <3>1, <4>1, <4>2
    <3>3. faults = 0 /\ rate' = rate
      BY <3>1 DEF configs
    <3> QED
      BY <1>2, <3>1, <3>2, <3>3, SmoothFrame
  <2> QED
    BY <2>1, <2>2
<1>11. CASE AutoRemove
  <2>1. faults = 0 /\ rate' = rate /\ At("autoremove")
    BY <1>1, <1>11 DEF AutoRemove, configs
  <2>2. /\ tm'.pc = "wait" /\ tm'.bo = tm.bo /\ tm'.now = tm.now /\ tm'.prev = tm.prev
        /\ tm'.failures = tm.failures /\ tm'.overrideCfg = tm.overrideCfg /\ tm'.err = tm.err
    BY <1>1, <1>11 DEF AutoRemove, TMType
  <2> QED
    BY <1>2, <2>1, <2>2, SmoothFrame
<1>12. CASE Tick \/ Triggered
  <2>1. faults = 0 /\ rate' = rate /\ \E interval : NextIteration(interval)
    BY <1>12 DEF Tick, Triggered, configs
  <2>2. tm'.pc = "list" /\ tm'.prev = tm.prev
    BY <1>1, <2>1 DEF NextIteration, TMType
  <2>3. Remembered'
    BY <1>2, <2>1, <2>2 DEF Remembered
  <2> QED
    BY <2>2, <2>3, SmoothListed
<1> QED
  BY <1>3, <1>4, <1>5, <1>6, <1>7, <1>8, <1>9, <1>10, <1>11, <1>12 DEF LoopStep

(* The inductive invariant of the loop in legacy mode.                     *)
LEMMA LoopInvariance == Spec => []LoopInv
<1>1. Init => LoopInv
  <2> SUFFICES ASSUME Init PROVE Remembered /\ OverridesInEffect /\ ParticipantRates
    BY DEF LoopInv
  <2>1. tm.pc = "list" /\ \A b \in Brokers, r \in Roles : tm.prev[b][r] = 0
    BY DEF Init, Start, NoRates
  <2> QED
    BY <2>1 DEF Remembered, OverridesInEffect, ParticipantRates, At
<1>2. TypeInv /\ TypeInv' /\ LoopInv /\ [Next]_vars => LoopInv'
  <2> SUFFICES ASSUME TypeInv, TypeInv', LoopInv, [Next]_vars, Smooth' PROVE LoopParts'
    BY DEF LoopInv, LoopParts
  <2>1. mode' = mode
    BY DEF Next, LoopStep, GetReassignments, GetReassignmentsFails, FetchOverrides,
           FetchOverridesFails, UpdateReplicationThrottle, UpdateOverrideThrottles,
           PurgeOverrideThrottles, ClearThrottles, AutoRemove, Tick, Triggered, setThrottle,
           removeThrottle, HandlerStep, CheckOverride, StoreOverride, StoreOverrideFails,
           SendTrigger, Reassign, ComeOrGo, Crash, vars
  <2>2. ~Native /\ faults' = 0 /\ faults \in Nat
    BY <2>1, LoopAssumption DEF Smooth, Native, TypeInv, TypeOK
  <2>3. CASE LoopStep
    BY <2>2, <2>3, SmoothLoop
  <2>4. ASSUME UNCHANGED <<tm, configs>>, faults' = faults \/ faults' = faults + 1
        PROVE  LoopParts'
    <3>1. faults = 0 /\ LoopParts /\ rate' = rate /\ tm' = tm
      BY <2>2, <2>4 DEF LoopInv, LoopParts, Smooth, configs
    <3> QED
      BY <3>1, SmoothFrame
  <2>5. CASE \E h \in Handlers : setThrottle(h) \/ removeThrottle(h) \/ HandlerStep(h)
    BY <2>4, <2>5 DEF setThrottle, removeThrottle, HandlerStep, CheckOverride, StoreOverride,
                      StoreOverrideFails, SendTrigger, configs
  <2>6. CASE Reassign \/ ComeOrGo
    BY <2>4, <2>6 DEF Reassign, ComeOrGo, configs
  <2>7. CASE Crash
    BY <2>2, <2>7 DEF Crash
  <2>8. CASE UNCHANGED vars
    BY <2>4, <2>8 DEF vars, configs
  <2> QED
    BY <2>3, <2>5, <2>6, <2>7, <2>8 DEF Next
<1> QED
  BY <1>1, <1>2, TypeInvariance, PTL DEF Spec

(* In legacy mode an override that the loop has read is in effect when the *)
(* iteration ends, although applyBrokerThrottles compares the rate with    *)
(* one that it remembers and not with Kafka's: whatever overrides,         *)
(* reassignments and removals came before, as long as no request failed.   *)
THEOREM OverridesApplied == Spec => []LegacyOverrideApplied
<1>1. LoopInv => LegacyOverrideApplied
  BY DEF LoopInv, LegacyOverrideApplied, OverrideApplied, Settled, Smooth, OverridesInEffect, InEffect
<1> QED
  BY <1>1, LoopInvariance, PTL

(* In legacy mode every broker that takes part in a reassignment has a     *)
(* permitted rate in each of its roles when an iteration ends in which the *)
(* rates were determined.  The removal of an override that was set to 0    *)
(* does not take the rate from a participant, as it has been marked.       *)
THEOREM AllParticipantsThrottled == Spec => []ParticipantsThrottled
<1>1. LoopInv => ParticipantsThrottled
  BY DEF LoopInv, ParticipantsThrottled, Settled, Smooth, ParticipantRates, Determined
<1> QED
  BY <1>1, LoopInvariance, PTL
=============================================================================
