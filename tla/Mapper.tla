------------------------------- MODULE Mapper -------------------------------
(***************************************************************************)
(* Partition maps and broker maps (package mapper), which topicmappr and   *)
(* the registry's CreateTopic use to place replicas.                       *)
(*                                                                         *)
(* A partition map is a sequence of records [topic, partition, replicas],  *)
(* replicas a sequence of broker IDs.  A broker map is a function from the *)
(* IDs it holds to records.  Topics and racks are numbers, in the order of *)
(* their names, with 0 for a rack that is not known; sizes and free storage *)
(* are integers.  What the code orders by a pseudo-random shuffle or by an *)
(* unstable sort is left open: every order it permits is a possible one.   *)
(***************************************************************************)
EXTENDS Integers, Sequences, FiniteSets, FiniteSetsExt, Functions

CONSTANT Sizes     \* [<<topic, partition>> -> Nat]: the partition metadata

ASSUME SizesAssumption == Sizes \in [DOMAIN Sizes -> Nat]

StubBrokerID == 2147483647  \* greater than every ID
Offline == -1               \* in place of a broker, in an offline partition
NoRack == 0
AllExisting == -1           \* placeholders in a list of brokers
AllDiscovered == -2

-----------------------------------------------------------------------------
(* Partition maps.                                                         *)

Slots(pm) == UNION {{n} \X DOMAIN pm[n].replicas : n \in DOMAIN pm}
Held(pm, id) == {s \in Slots(pm) : pm[s[1]].replicas[s[2]] = id}
BrokersIn(pm) == UNION {Range(pm[n].replicas) : n \in DOMAIN pm}
OnlineIn(pm)  == BrokersIn(pm) \ {Offline}

HasSize(p) == <<p.topic, p.partition>> \in DOMAIN Sizes
Size(p)    == IF HasSize(p) THEN Sizes[<<p.topic, p.partition>>] ELSE 0

ByName(p, q) == p.topic < q.topic \/ (p.topic = q.topic /\ p.partition < q.partition)
BySize(p, q) == Size(p) > Size(q) \/ (Size(p) = Size(q) /\ p.partition < q.partition)

(* What sort.Sort may make of s: it does not keep the order of equals.     *)
Sortings(s, Less(_, _)) ==
    {[i \in DOMAIN s |-> s[f[i]]] :
        f \in {g \in Bijection(DOMAIN s, DOMAIN s) :
                  \A i, j \in DOMAIN s : i < j => ~Less(s[g[j]], s[g[i]])}}
Shuffles(s) == Sortings(s, LAMBDA x, y : FALSE)

Stubs(k) == [i \in 1 .. k |-> StubBrokerID]
WithReplicas(p, rs) == [p EXCEPT !.replicas = rs]

(* Sets longer than r are truncated, shorter ones extended with stubs.     *)
SetReplication(pm, r) ==
    IF r = 0 THEN pm
    ELSE [n \in DOMAIN pm |->
            LET rs == pm[n].replicas
            IN  WithReplicas(pm[n], IF Len(rs) >= r THEN SubSeq(rs, 1, r)
                                    ELSE rs \o Stubs(r - Len(rs)))]

Strip(pm) == [n \in DOMAIN pm |-> WithReplicas(pm[n], Stubs(Len(pm[n].replicas)))]

(* Leader and follower positions of a broker.                              *)
Leads(pm, id)   == Cardinality({s \in Held(pm, id) : s[2] = 1})
Follows(pm, id) == Cardinality({s \in Held(pm, id) : s[2] # 1})

(* The order of brokers by their leader to follower ratio.                 *)
ByLeaderFollowerRatio(pm, a, b) ==
    IF Follows(pm, a) = 0 /\ Follows(pm, b) = 0 THEN Leads(pm, a) < Leads(pm, b)
    ELSE /\ Follows(pm, a) # 0
         /\ Follows(pm, b) = 0 \/ Leads(pm, a) * Follows(pm, b) < Leads(pm, b) * Follows(pm, a)

(* OptimizeLeaderFollower, at one of the sets that it visits in turn.      *)
OptimizeLeaderFollower(pm, n) ==
    {[pm EXCEPT ![n].replicas = rs] :
        rs \in Sortings(pm[n].replicas, LAMBDA a, b : ByLeaderFollowerRatio(pm, a, b))}

(* The partitions that changed; before and after are in the same order.    *)
Changed(before, after) == {n \in DOMAIN after : before[n].replicas # after[n].replicas}

InOrder(S) == CHOOSE f \in Bijection(1 .. Cardinality(S), S) :
                 \A i, j \in DOMAIN f : i < j => f[i] < f[j]

(* The partitions of a map at the given places, in the same order.         *)
Pruned(pm, places) ==
    LET index == InOrder(places)
    IN  [i \in 1 .. Cardinality(places) |-> pm[index[i]]]

removeTopics(pm, topics) == Pruned(pm, {n \in DOMAIN pm : pm[n].topic \notin topics})

(* No broker twice in a set, not counting offline replicas.                *)
Distinct(rs) == \A i, j \in DOMAIN rs : rs[i] = rs[j] /\ rs[i] # Offline => i = j

-----------------------------------------------------------------------------
(* Broker maps.                                                            *)

NewBroker == [rack |-> NoRack, used |-> 0, free |-> 0,
              replace |-> FALSE, missing |-> FALSE, new |-> FALSE]
StubBroker == [NewBroker EXCEPT !.replace = TRUE]

WithMeta(b, meta, id) ==
    IF id \in DOMAIN meta THEN [b EXCEPT !.rack = meta[id].rack, !.free = meta[id].free] ELSE b

(* Mutant: brokers that are not registered are left out.                   *)
MutOnlyRegistered(pm, meta, force) ==
    [id \in (BrokersIn(pm) \cap DOMAIN meta) \cup {StubBrokerID} |->
        IF id = StubBrokerID THEN StubBroker ELSE WithMeta(NewBroker, meta, id)]

(* An offline replica has no broker, and gets no record.                   *)
BrokerMapFromPartitionMap(pm, meta, force) ==
    [id \in OnlineIn(pm) \cup {StubBrokerID} |->
        IF id = StubBrokerID THEN StubBroker
        ELSE WithMeta([NewBroker EXCEPT !.used = IF force THEN 0 ELSE Cardinality(Held(pm, id))],
                      meta, id)]

Provided(bm, list, meta) ==
    (list \ {AllExisting, AllDiscovered})
      \cup (IF AllExisting \in list THEN DOMAIN bm ELSE {})
      \cup (IF AllDiscovered \in list THEN DOMAIN meta ELSE {})

Real(bm) == DOMAIN bm \ {StubBrokerID}

(* Brokers of the map that are not registered (without metadata, unknown). *)
Absent(bm, meta) == IF DOMAIN meta = {} THEN {} ELSE Real(bm) \ DOMAIN meta

Added(bm, list, meta) ==
    {id \in Provided(bm, list, meta) \ DOMAIN bm : DOMAIN meta = {} \/ id \in DOMAIN meta}

(* Mutant: brokers that are gone stay in the list.                         *)
MutGoneStay(bm, list, meta) ==
    [id \in DOMAIN bm \cup Added(bm, list, meta) |->
        IF id = StubBrokerID THEN bm[id]
        ELSE IF id \in DOMAIN bm
        THEN [bm[id] EXCEPT !.replace = @ \/ id \notin Provided(bm, list, meta)]
        ELSE [WithMeta(NewBroker, meta, id) EXCEPT !.new = TRUE]]

(* The brokers of the list are added; others, and absent ones, are marked  *)
(* for replacement.                                                        *)
Update(bm, list, meta) ==
    [id \in DOMAIN bm \cup Added(bm, list, meta) |->
        IF id = StubBrokerID THEN bm[id]
        ELSE IF id \in DOMAIN bm
        THEN [bm[id] EXCEPT
                !.replace = @ \/ id \in Absent(bm, meta) \/ id \notin Provided(bm, list, meta),
                !.missing = @ \/ id \in Absent(bm, meta)]
        ELSE [WithMeta(NewBroker, meta, id) EXCEPT !.new = TRUE]]

(* The BrokerStatus of an update, as sets of brokers.                      *)
UpdateStatus(bm, list, meta) ==
    LET provided == Provided(bm, list, meta)
        updated  == Update(bm, list, meta)
    IN  [new         |-> Added(bm, list, meta),
         missing     |-> (Absent(bm, meta) \cap provided) \cup (provided \ DOMAIN updated),
         oldMissing  |-> Absent(bm, meta) \ provided,
         replace     |-> Real(bm) \ provided,
         rackMissing |-> {id \in Real(updated) : /\ DOMAIN meta # {} /\ ~updated[id].missing
                                                 /\ updated[id].rack = NoRack}]

(* Brokers are looked up without a check: for one that has no record the   *)
(* code gets a nil pointer, and panics when it uses it.                    *)
Found(bm, ids) == ids \subseteq DOMAIN bm

NotReplaced(bm) == {id \in Real(bm) : ~bm[id].replace}

(* The size of the partitions that a broker holds.                         *)
SizeOn(pm, id) == SumFunction([s \in Held(pm, id) |-> Size(pm[s[1]])])

(* The size of what the brokers bs hold is added to their free storage.    *)
SubStorage(bm, pm, bs) ==
    [id \in DOMAIN bm |->
        IF id \notin bs THEN bm[id]
        ELSE [bm[id] EXCEPT !.free = @ + SizeOn(pm, id)]]

(* SubStorage fails if a size or a broker is not known.                    *)
SubStorageFails(bm, pm) ==
    (\E n \in DOMAIN pm : ~HasSize(pm[n])) \/ ~Found(bm, BrokersIn(pm))

-----------------------------------------------------------------------------
(* Constraints on the choice of a broker.                                  *)

(* Mutant: the racks of the set are not merged.                            *)
MutMergeIDs(bm, ids) == [ids |-> ids \cap NotReplaced(bm), localities |-> {}]

(* Brokers to be replaced, and the stub, do not count.                     *)
MergeConstraints(bm, ids) ==
    LET kept == ids \cap NotReplaced(bm)
    IN  [ids |-> kept, localities |-> {bm[id].rack : id \in kept} \ {NoRack}]

(* Mutants: any rack passes; the request is not compared.                  *)
MutAnyRack(c, bm, id, minRackIDs, request) == id \notin c.ids /\ bm[id].free - request >= 0
MutAnyRequest(c, bm, id, minRackIDs, request) ==
    /\ id \notin c.ids
    /\ bm[id].rack \in c.localities => minRackIDs > 0 /\ Cardinality(c.localities) >= minRackIDs

(* Mind the order of the cases: with a minimum of racks, a candidate of a  *)
(* rack that is taken is not checked for storage.                          *)
passesWithParams(c, bm, id, minRackIDs, request) ==
    /\ id \notin c.ids
    /\ IF bm[id].rack \in c.localities
       THEN minRackIDs > 0 /\ Cardinality(c.localities) >= minRackIDs
       ELSE bm[id].free - request >= 0

First(ids) == {id \in ids : \A x \in ids : id <= x}

(* Those of ids that may come first in a list sorted by the partitions the *)
(* brokers have: one with the least.  Lists of more than two are shuffled. *)
SortPseudoShuffle(bm, list, ids) ==
    LET least == {id \in ids : \A x \in ids : bm[id].used <= bm[x].used}
    IN  IF Cardinality(list) > 2 THEN least ELSE First(least)

(* The brokers that SelectBroker may select: the first one that passes, by *)
(* the number of partitions or by the free storage.                        *)
SelectBroker(c, bm, list, method, minRackIDs, request) ==
    LET pass == {id \in list : passesWithParams(c, bm, id, minRackIDs, request)}
        most == {id \in pass : \A x \in pass : bm[id].free >= bm[x].free}
    IN  IF method = "storage" THEN First(most) ELSE SortPseudoShuffle(bm, list, pass)

(* Mutant: the storage is not taken.                                       *)
MutOnlyCounted(bm, id, request) == [bm EXCEPT ![id].used = @ + 1]

(* SelectBroker counts the replica and takes its storage.                  *)
Taken(bm, id, request) == [bm EXCEPT ![id].used = @ + 1, ![id].free = @ - request]

(* The racks that no set with the broker b has and some other set has.     *)
LocalitiesAvailable(pm, bm, b) ==
    LET racks(n) == {bm[id].rack : id \in Range(pm[n].replicas) \ {b}} \ {NoRack}
        has      == {n \in DOMAIN pm : b \in Range(pm[n].replicas)}
    IN  UNION {racks(n) : n \in DOMAIN pm \ has} \ UNION {racks(n) : n \in has}

-----------------------------------------------------------------------------
(* Statistics of the free storage, without division.                       *)

StorageRange(bm, bs) ==
    LET free == {bm[id].free : id \in bs}
    IN  IF bs = {} THEN -1 ELSE Max(free \cup {0}) - Min(free)

(* The standard deviation, to compare maps of the same brokers.            *)
Deviation(bm, bs) ==
    LET total == SumFunction([id \in bs |-> bm[id].free])
        square(x) == x * x
    IN  SumFunction([id \in bs |-> square(total - Cardinality(bs) * bm[id].free)])

Counted(bm)  == {id \in Real(bm) : bm[id].free > 0}
MeanSum(bm)  == SumFunction([id \in Counted(bm) |-> bm[id].free])

(* More than percent below the harmonic mean of the free storage.          *)
BelowHMean(bm, id, percent) ==
    LET product(S) == FoldSet(LAMBDA x, acc : bm[x].free * acc, 1, S)
        weighted   == Cardinality(Counted(bm)) * product(Counted(bm))
        inverses   == SumFunction([x \in Counted(bm) |-> product(Counted(bm) \ {x})])
    IN  100 * (weighted - bm[id].free * inverses) > percent * weighted
=============================================================================
