------------------------------ MODULE Reassign ------------------------------
(***************************************************************************)
(* `topicmappr rebalance` and `topicmappr scale`: reassign of              *)
(* commands/reassignments.go with the planner of commands/planner.go.      *)
(* Partitions are moved away from the brokers with little free storage,    *)
(* within a tolerated distance from the mean.  The plans for the different *)
(* tolerances are computed by goroutines that share nothing they write;    *)
(* here they are computed one after the other.                             *)
(***************************************************************************)
EXTENDS Mapper

CONSTANTS
    InputMaps,   \* partition maps of the cluster, sorted by name
    Meta,        \* [Nat -> [rack, free]]: metadata of the registered brokers
    ParamSets    \* the parameters of the command; see reassignParams

(* Kafka assigns no partition twice to a broker; sizes are known for all.  *)
(* Replicas may be offline.                                                *)
ASSUME InputAssumption ==
    /\ \A m \in InputMaps :
         /\ m \in Seq([topic : Nat, partition : Nat, replicas : Seq(Int)])
         /\ OnlineIn(m) \subseteq Nat
         /\ \A n \in DOMAIN m :
              m[n].replicas # <<>> /\ Distinct(m[n].replicas) /\ HasSize(m[n])
    /\ DOMAIN Meta \subseteq Nat /\ IsFiniteSet(DOMAIN Meta)
    /\ Meta \in [DOMAIN Meta -> [rack : Nat, free : Int]]
    /\ \A p \in ParamSets : /\ p.brokers \subseteq Int /\ IsFiniteSet(p.brokers)
                            /\ p.tolerances \subseteq Nat /\ p.partitionLimit \in Nat

VARIABLES
    pc,
    params,     \* one of ParamSets
    original,   \* the partition map
    bmIn,       \* the brokers
    targets,    \* offloadTargets, in the order of their free storage
    todo,       \* tolerances to plan for, in percent
    tol,        \* the tolerance of the present plan
    bm,         \* its copy of the brokers
    mappings,   \* pairs of a broker and a partition that it may still offload
    plan,       \* relocations: partition, source and destination
    visit,      \* the offload target visited
    exhausted,  \* how many visits planned no relocation
    results,    \* the reassignmentBundles
    newMap,     \* the chosen map
    slot,       \* the set that is optimised
    written     \* the map written

planning == <<todo, tol, bm, mappings, plan, visit, exhausted, results>>
vars == <<pc, params, original, bmIn, targets, planning, newMap, slot, written>>

Init ==
    /\ pc = "read"
    /\ params \in ParamSets
    /\ original \in InputMaps
    /\ bmIn = <<>> /\ targets = <<>> /\ todo = params.tolerances /\ tol = 0
    /\ bm = <<>> /\ mappings = {} /\ plan = {} /\ visit = 1 /\ exhausted = 0
    /\ results = {}
    /\ newMap = <<>> /\ slot = [n |-> 1, i |-> 1] /\ written = <<>>

(* validateBrokers: brokers may be added, not taken away.                  *)
refused(status) ==
    \/ status.missing # {} \/ status.oldMissing # {} \/ status.replace # {}
    \/ status.new = {} /\ params.requireNewBrokers

(* The metadata is too old, or cannot be read.                             *)
ReadFails ==
    /\ pc = "read"
    /\ pc' = "exit"
    /\ UNCHANGED <<params, original, bmIn, targets, planning, newMap, slot, written>>

(* determineOffloadTargets: by a threshold of free storage, by a distance  *)
(* from the harmonic mean, or all brokers but the new ones.                *)
OffloadTargets(brokers) ==
    {id \in Real(brokers) :
        CASE params.thresholdGB > 0 -> ~brokers[id].new /\ brokers[id].free < params.thresholdGB
          [] params.thresholdGB = 0 /\ params.threshold > 0 -> BelowHMean(brokers, id, params.threshold)
          [] OTHER -> ~brokers[id].new}

offloadTargetsBySize(brokers, ids) ==
    CHOOSE s \in Bijection(1 .. Cardinality(ids), ids) :
        \A i, j \in DOMAIN s : i < j =>
            \/ brokers[s[i]].free < brokers[s[j]].free
            \/ brokers[s[i]].free = brokers[s[j]].free /\ s[i] < s[j]

Read ==
    LET map    == removeTopics(original, params.topicsExclude)
        mapped == BrokerMapFromPartitionMap(map, Meta, FALSE)
    IN  /\ pc = "read"
        /\ original' = map
        /\ bmIn' = Update(mapped, params.brokers, Meta)
        /\ targets' = offloadTargetsBySize(bmIn', OffloadTargets(bmIn'))
        /\ pc' = IF refused(UpdateStatus(mapped, params.brokers, Meta)) THEN "exit" ELSE "start"
        /\ UNCHANGED <<params, planning, newMap, slot, written>>

-----------------------------------------------------------------------------
(* Planning.                                                               *)

(* The brokers and the partitions that they hold.                          *)
Mappings == {m \in Real(bmIn) \X DOMAIN original : m[1] \in Range(original[m[2]].replicas)}

(* Mutant: the loop does not get to the next tolerance.                    *)
MutStartAgain ==
    /\ pc = "start" /\ todo # {}
    /\ tol' = Min(todo) /\ todo' = todo
    /\ bm' = bmIn
    /\ mappings' = Mappings
    /\ plan' = {} /\ visit' = 1 /\ exhausted' = 0
    /\ pc' = "plan"
    /\ UNCHANGED <<params, original, bmIn, targets, results, newMap, slot, written>>

Start ==
    /\ pc = "start" /\ todo # {}
    /\ tol' = Min(todo) /\ todo' = todo \ {tol'}
    /\ bm' = bmIn
    /\ mappings' = Mappings
    /\ plan' = {} /\ visit' = 1 /\ exhausted' = 0
    /\ pc' = "plan"
    /\ UNCHANGED <<params, original, bmIn, targets, results, newMap, slot, written>>

(* Mutant: partitions that the source does not hold are offered as well.   *)
MutAllPartitions(source) ==
    {SelectSeq([n \in DOMAIN original |-> n], LAMBDA n : Size(original[n]) >= params.sizeThreshold)}

(* LargestPartitions, up to the first one below the size threshold.        *)
LargestPartitions(source) ==
    LET held == {n \in DOMAIN original : <<source, n>> \in mappings}
        larger(a, b) == BySize(original[a], original[b])
        small(s) == {k \in DOMAIN s : Size(original[s[k]]) < params.sizeThreshold}
        length(s) == Min({Len(s), params.partitionLimit} \cup {k - 1 : k \in small(s)})
    IN  {SubSeq(s, 1, length(s)) : s \in Sortings(InOrder(held), larger)}

(* The relocations of partition n that are planned.                        *)
isPlanned(n) == {r \in plan : r.n = n}

(* Of the brokers in ids the one with the most free storage, if any.       *)
MostFree(ids) ==
    {id \in ids : \A x \in ids : bm[x].free < bm[id].free \/ (bm[x].free = bm[id].free /\ id <= x)}

(* Mutant: brokers planned to receive the partition are not considered.    *)
MutUnplannedSet(source, n) == Range(original[n].replicas) \ {source}

(* The brokers that stay in the set of n and those planned to join it.     *)
ReplicaSet(source, n) ==
    (Range(original[n].replicas) \ {source}) \cup {r.dest : r \in isPlanned(n)}

Destinations(source, n) ==
    LET c == MergeConstraints(bm, ReplicaSet(source, n))
    IN  IF params.localityScoped
        THEN MostFree({id \in DOMAIN bm \ (Range(targets) \cup {source}) :
                          bm[id].rack = bm[source].rack})
        ELSE MostFree({id \in Real(bm) \ (Range(targets) \cup c.ids) :
                          bm[id].rack \notin c.localities /\ bm[id].free >= 0})

(* Mutant: the limit of the destination is not checked.                    *)
MutSourceLimit(source, dest, size) ==
    100 * Cardinality(Counted(bm)) * (bm[source].free + size) <= MeanSum(bm) * (100 + tol)

(* Neither broker gets farther from the mean than tolerated.               *)
Tolerated(source, dest, size) ==
    LET count == Cardinality(Counted(bm))
    IN  /\ 100 * count * (bm[source].free + size) <= MeanSum(bm) * (100 + tol)
        /\ 100 * count * (bm[dest].free - size) >= MeanSum(bm) * (100 - tol)

Relocations(source, n) ==
    {[n |-> n, source |-> source, dest |-> d] :
        d \in {x \in Destinations(source, n) : Tolerated(source, x, Size(original[n]))}}

(* The passes end with one after which as many visits have planned nothing,*)
(* in all of the passes, as there are targets.                             *)
Exhausted == visit = 1 /\ exhausted >= Len(targets)

(* The mappings that remain when the source gives the partition n away.    *)
Remaining(source, n) == mappings \ {<<source, n>>}

(* Mutant: the storage of the destination is not taken.                    *)
MutSourceOnly(source, r) ==
    /\ plan' = plan \cup {r}
    /\ bm' = [bm EXCEPT ![source].free = @ + Size(original[r.n])]
    /\ mappings' = Remaining(source, r.n)

(* planRelocationsForBroker: the first of the largest partitions that can  *)
(* be relocated is.                                                        *)
Relocate(source, r) ==
    LET size == Size(original[r.n])
    IN  /\ plan' = plan \cup {r}
        /\ bm' = [bm EXCEPT ![source].free = @ + size, ![r.dest].free = @ - size]
        /\ mappings' = Remaining(source, r.n)

(* The brokers of a set are looked up for their constraints.               *)
Known(source, n) == params.localityScoped \/ Found(bm, ReplicaSet(source, n))

(* Where the search in a list of partitions ends: at the first one that    *)
(* can be relocated, or whose brokers are not all known.                   *)
Ending(source, top) ==
    {k \in DOMAIN top : Known(source, top[k]) => Relocations(source, top[k]) # {}}

Panic ==
    /\ pc = "plan" /\ ~Exhausted
    /\ \E top \in LargestPartitions(targets[visit]) :
         LET end == Ending(targets[visit], top)
         IN  end # {} /\ ~Known(targets[visit], top[Min(end)])
    /\ pc' = "exit"
    /\ UNCHANGED <<params, original, bmIn, targets, planning, newMap, slot, written>>

Visit ==
    /\ pc = "plan" /\ ~Exhausted
    /\ visit' = IF visit < Len(targets) THEN visit + 1 ELSE 1
    /\ \E top \in LargestPartitions(targets[visit]) :
         LET source == targets[visit]
             able   == Ending(source, top)
         IN  IF able = {}
             THEN exhausted' = exhausted + 1 /\ UNCHANGED <<bm, mappings, plan>>
             ELSE /\ Known(source, top[Min(able)])
                  /\ \E r \in Relocations(source, top[Min(able)]) : Relocate(source, r)
                  /\ UNCHANGED exhausted
    /\ UNCHANGED <<pc, params, original, bmIn, targets, todo, tol, results, newMap, slot, written>>

(* applyRelocationPlan *)
Relocated ==
    [n \in DOMAIN original |-> WithReplicas(original[n],
        [i \in DOMAIN original[n].replicas |->
            LET moves == {r \in isPlanned(n) : r.source = original[n].replicas[i]}
            IN  IF moves = {} THEN original[n].replicas[i] ELSE (CHOOSE r \in moves : TRUE).dest])]

EndPlan ==
    /\ pc = "plan" /\ Exhausted
    /\ results' = results \cup {[tol |-> tol, map |-> Relocated, bm |-> bm]}
    /\ pc' = "start"
    /\ UNCHANGED <<params, original, bmIn, targets, todo, tol, bm, mappings, plan, visit, exhausted,
                   newMap, slot, written>>

-----------------------------------------------------------------------------
(* The result.                                                             *)

(* The order of the bundles: by range, then by standard deviation.         *)
Better(r, q) ==
    LET range(x) == StorageRange(x.bm, Real(bmIn))
        dev(x)   == Deviation(x.bm, Real(bmIn))
    IN  range(r) < range(q) \/ (range(r) = range(q) /\ dev(r) < dev(q))

(* bm, plan and tol are those of the chosen bundle from here on.           *)
Choose ==
    /\ pc = "start" /\ todo = {}
    /\ \E r \in results :
         /\ \A q \in results : ~Better(q, r)
         /\ newMap' = r.map /\ bm' = r.bm /\ tol' = r.tol
    /\ pc' = IF params.optimizeLeadership THEN "optimize" ELSE "write"
    /\ UNCHANGED <<params, original, bmIn, targets, todo, mappings, plan, visit, exhausted, results,
                   slot, written>>

(* There is no first set if all topics have been excluded.                 *)
Optimize ==
    /\ pc = "optimize"
    /\ IF newMap = <<>>
       THEN pc' = "exit" /\ UNCHANGED <<newMap, slot>>
       ELSE IF slot.i > Len(newMap[1].replicas)
       THEN pc' = "write" /\ UNCHANGED <<newMap, slot>>
       ELSE /\ newMap' \in OptimizeLeaderFollower(newMap, slot.n)
            /\ slot' = IF slot.n < Len(newMap) THEN [slot EXCEPT !.n = @ + 1]
                       ELSE [n |-> 1, i |-> slot.i + 1]
            /\ UNCHANGED pc
    /\ UNCHANGED <<params, original, bmIn, targets, planning, written>>

RangeIncreased == StorageRange(bm, Real(bm)) > StorageRange(bmIn, OnlineIn(original))

(* scale requires new brokers, and ignores the errors of reassign.         *)
Scaling == params.requireNewBrokers

(* A rebalance does not write a map that increases the range of the free   *)
(* storage, unless told to; scaling does.                                  *)
Write ==
    /\ pc = "write"
    /\ IF RangeIncreased /\ ~Scaling /\ ~params.ignoreWarns
       THEN pc' = "exit" /\ UNCHANGED written
       ELSE pc' = "done" /\ written' = Pruned(newMap, Changed(original, newMap))
    /\ UNCHANGED <<params, original, bmIn, targets, planning, newMap, slot>>

Next == \/ ReadFails \/ Read \/ Start \/ Panic \/ Visit \/ EndPlan \/ Choose \/ Optimize \/ Write

(* The command computes until it ends.                                     *)
Spec == Init /\ [][Next]_vars /\ WF_vars(Next)

-----------------------------------------------------------------------------
(* Properties.                                                             *)

(* Types of the variables that the plan is made of; only what a source     *)
(* holds is planned to leave it.                                           *)
TypeOK ==
    /\ pc \in {"read", "start", "plan", "optimize", "write", "done", "exit"}
    /\ params \in ParamSets
    /\ mappings \subseteq (DOMAIN bm) \X (DOMAIN original)
    /\ \A r \in plan : /\ r.n \in DOMAIN original
                       /\ r.source \in Range(original[r.n].replicas) /\ r.dest \in DOMAIN bm
    /\ visit \in 1 .. (1 + Cardinality(DOMAIN bm)) /\ exhausted \in Nat

(* The positions of a set that have a broker.                              *)
Online(rs) == {i \in DOMAIN rs : rs[i] # Offline}

(* No two replicas are in the same rack; or in the same known one.         *)
Spread(rs) == \A i, j \in Online(rs) : i # j => bmIn[rs[i]].rack # bmIn[rs[j]].rack
SpreadAsKnown(rs) ==
    \A i, j \in Online(rs) : i # j /\ bmIn[rs[i]].rack # NoRack => bmIn[rs[i]].rack # bmIn[rs[j]].rack

(* No plan gives a partition twice to the same broker, if destinations are *)
(* chosen by the constraints.  A destination in the rack of the source is  *)
(* chosen without a look at the set: it is then safe only for a set that   *)
(* has one replica in a rack.                                              *)
NoBrokerTwice ==
    \A r \in results : \A n \in DOMAIN r.map :
        ~params.localityScoped \/ Spread(original[n].replicas) => Distinct(r.map[n].replicas)

(* A replica set that was spread over different racks still is, although   *)
(* several of its replicas may have been relocated one by one.             *)
RacksKept ==
    \A r \in results : \A n \in DOMAIN r.map :
        SpreadAsKnown(original[n].replicas) => SpreadAsKnown(r.map[n].replicas)

(* The free storage that bundles are compared by is that of their maps.    *)
StorageMatchesMap ==
    \A r \in results : \A id \in Real(bmIn) :
        r.bm[id].free - bmIn[id].free = SizeOn(original, id) - SizeOn(r.map, id)

(* When all brokers have free storage at first, a target is not brought    *)
(* above, and no broker below, the tolerated distance from their mean.     *)
(* (A tolerance of the whole mean, which only a flag can ask for, lets a   *)
(* broker run out of storage, and brokers without any do not count in it.) *)
WithinTolerance ==
    Counted(bmIn) = Real(bmIn) =>
      \A r \in results : r.tol < 100 => \A id \in Real(bmIn) :
        LET count == Cardinality(Real(bmIn))
        IN  /\ r.bm[id].free > bmIn[id].free =>
                 100 * count * r.bm[id].free <= MeanSum(bmIn) * (100 + r.tol)
            /\ r.bm[id].free < bmIn[id].free =>
                 100 * count * r.bm[id].free >= MeanSum(bmIn) * (100 - r.tol)

(* The command ends.                                                       *)
Ends == <>(pc \in {"done", "exit"})
=============================================================================
