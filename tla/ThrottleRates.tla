--------------------------- MODULE ThrottleRates ---------------------------
(***************************************************************************)
(* What autothrottle computes: the brokers and replicas that take part in  *)
(* the ongoing reassignments (brokers.go, topics.go), the replication      *)
(* headroom of a broker (limits.go, capacities.go), the configs that a     *)
(* change of throttles writes (throttles_update.go, kafkaadmin), and the   *)
(* store of the overrides (throttlestore).  Rates are integers in MB/s; 0  *)
(* stands for "no rate": a config that is not set, the nil of a            *)
(* ThrottleByRole, and the rate of an override that is to be removed.      *)
(***************************************************************************)
EXTENDS Integers, FiniteSets

CONSTANTS
    Brokers,          \* broker IDs, a finite set of numbers
    Topics,           \* topics, of one partition each
    Leader,           \* [Topics -> Brokers \cup {Offline}]
    ISR,              \* [Topics -> SUBSET Brokers]: the in-sync replicas
    Replicas,         \* [Topics -> SUBSET Brokers]: the assigned replicas
    Target,           \* [Topics -> SUBSET Brokers]: replicas after the reassignment
    Capacity,         \* [Brokers -> Nat]: from -cap-map; 0 for an unknown instance type
    Minimum,          \* -min-rate
    SrcMax, DstMax,   \* -max-tx-rate and -max-rx-rate, in percent
    ChangeThreshold   \* -change-threshold, in percent

Offline == -1
Roles   == {"leader", "follower"}
NoRates == [r \in Roles |-> 0]
NoLists == [r \in Roles |-> {}]

(* NewLimits refuses any other limits. *)
ASSUME LimitsAssumption ==
    /\ Minimum \in Nat \ {0}
    /\ SrcMax \in 1 .. 99
    /\ DstMax \in 1 .. 99
    /\ ChangeThreshold \in Nat

ASSUME ClusterAssumption ==
    /\ Brokers \subseteq Nat /\ IsFiniteSet(Brokers) /\ IsFiniteSet(Topics)
    /\ Leader \in [Topics -> Brokers \cup {Offline}]
    /\ ISR \in [Topics -> SUBSET Brokers]
    /\ Replicas \in [Topics -> SUBSET Brokers]
    /\ Target \in [Topics -> SUBSET Brokers]
    /\ Capacity \in [Brokers -> Nat]

AtLeast(x, y) == IF x > y THEN x ELSE y
Distance(x, y) == IF x > y THEN x - y ELSE y - x

-----------------------------------------------------------------------------
(* Who takes part in a reassignment.                                       *)

(* The replicas of a reassigning topic to throttle: the leader is a source, *)
(* the replicas to come that are not in sync yet are destinations.          *)
ThrottledReplicas(t) ==
    [leader   |-> {Leader[t]} \ {Offline},
     follower |-> Target[t] \ ISR[t]]

(* A reassigningBrokers: the brokers of each role and the lists by topic.  *)
GetReassigningBrokers(ts) ==
    LET inRole(r) == UNION {ThrottledReplicas(t)[r] : t \in ts}
    IN  [role  |-> [r \in Roles |-> inRole(r)],
         all   |-> inRole("leader") \cup inRole("follower"),
         lists |-> [t \in ts |-> ThrottledReplicas(t)]]

(* The state of topic t could not be read, those of ts had been.  The      *)
(* function returns before it merges the brokers: "all" is empty.          *)
PartialReassigningBrokers(ts, t) ==
    [GetReassigningBrokers(ts) EXCEPT
        !.all   = {},
        !.lists = [u \in ts \cup {t} |-> IF u = t THEN NoLists ELSE ThrottledReplicas(u)]]

ThrottledTopics(bs) == {t \in Topics : Replicas[t] \cap bs # {}}

(* The lists for the brokers bs that are throttled by an override.         *)
GetTopicsWithThrottledBrokers(bs) ==
    [t \in ThrottledTopics(bs) |-> [NoLists EXCEPT !["follower"] = Replicas[t] \cap bs]]

-----------------------------------------------------------------------------
(* Rates.                                                                  *)

(* The greater of the minimum and the portion of the bandwidth that is     *)
(* left, not counting what the last throttle already let through.          *)
replicationHeadroom(b, role, util, prev) ==
    LET maxRatio  == IF role = "leader" THEN SrcMax ELSE DstMax
        nonThrottleUtil == AtLeast(util - prev, 0)
        overCap   == AtLeast(util - Capacity[b], 0)
    IN  AtLeast(((Capacity[b] - nonThrottleUtil - overCap) * maxRatio) \div 100, Minimum)

(* Rates from the metrics bm, the utilisation of the brokers that have a   *)
(* series, for the roles a broker has ...                                  *)
brokerReplicationCapacities(rb, bm, prev) ==
    [b \in rb.all |-> [r \in Roles |->
        IF b \in rb.role[r] THEN replicationHeadroom(b, r, bm[b], prev[b][r]) ELSE 0]]

(* ... or an error, when a broker is not found in the metrics or its       *)
(* instance type is not in the capacity map.                               *)
CapacitiesError(rb, bm) == \E b \in rb.all : b \notin DOMAIN bm \/ Capacity[b] = 0

setAllRatesWithDefault(bs, rate) == [b \in bs |-> [r \in Roles |-> rate]]

(* applyBrokerThrottles skips a rate that is within ChangeThreshold of the *)
(* last one.  A last rate of 0 makes the difference infinite.              *)
ExceedsThreshold(prev, rate) ==
    \/ prev = 0
    \/ Distance(prev, rate) * 100 >= ChangeThreshold * prev

-----------------------------------------------------------------------------
(* Overrides.                                                              *)

NoOverride == [rate |-> 0, autoRemove |-> FALSE]        \* ThrottleOverrideConfig{}
Missing    == [rate |-> -1, autoRemove |-> FALSE]       \* no znode
Exists(o)  == o # Missing
HasActiveOverride(o) == Exists(o) /\ o.rate # 0

(* The BrokerOverrides of the manager, from the znodes of the brokers bs.  *)
FetchBrokerOverrides(znodes, bs) ==
    [b \in Brokers |-> [cfg |-> IF b \in bs THEN znodes[b] ELSE Missing,
                        participant |-> FALSE]]

NoBrokerOverrides == [b \in Brokers |-> [cfg |-> Missing, participant |-> FALSE]]

(* bo.Filter(NotReassignmentParticipant)                                   *)
NotReassignmentParticipant(bo) ==
    {b \in Brokers : HasActiveOverride(bo[b].cfg) /\ ~bo[b].participant}

(* The brokers whose override the API has set to 0.                        *)
Removed(bo) == {b \in Brokers : bo[b].cfg.rate = 0}
=============================================================================
