------------------------------ MODULE Rebuild ------------------------------
(***************************************************************************)
(* `topicmappr rebuild`: runRebuild of commands/rebuild_steps.go, with the *)
(* placement of package mapper and the output maps of the phased and the   *)
(* chunked reassignment.  The command computes alone on what it has read;  *)
(* it is a state machine here because the choice of every replica depends  *)
(* on the choices before it, through the constraints of the replica set    *)
(* and the counters of the brokers.  pc = "exit" is any of its exits.      *)
(***************************************************************************)
EXTENDS Mapper

CONSTANTS
    InputMaps,   \* partition maps of the cluster, sorted by name
    Meta,        \* [Nat -> [rack, free]]: metadata that brokers have
    ParamSets    \* the parameters to rebuild with; see rebuildParams

(* Kafka assigns every partition to at least one broker and to none twice; *)
(* replicas may be offline.  No broker has the ID of the stub.             *)
ASSUME InputAssumption ==
    /\ \A m \in InputMaps :
         /\ m \in Seq([topic : Nat, partition : Nat, replicas : Seq(Int)])
         /\ OnlineIn(m) \subseteq Nat \ {StubBrokerID}
         /\ \A i, j \in DOMAIN m : i < j => ByName(m[i], m[j])
         /\ \A n \in DOMAIN m : m[n].replicas # <<>> /\ Distinct(m[n].replicas)
    /\ DOMAIN Meta \subseteq Nat \ {StubBrokerID} /\ IsFiniteSet(DOMAIN Meta)
    /\ Meta \in [DOMAIN Meta -> [rack : Nat, free : Int]]
    /\ \A p \in ParamSets :
         /\ p.registered \subseteq DOMAIN Meta
         /\ p.brokers \subseteq (Nat \ {StubBrokerID}) \cup {AllExisting, AllDiscovered}
         /\ IsFiniteSet(p.brokers)
         /\ p.replication \in Nat /\ p.sizeFactor \in Nat /\ p.minRackIds \in Nat

VARIABLES
    pc,
    params,      \* one of ParamSets
    original,    \* the partition map that was read
    pm,          \* the same, as it is prepared for the placement
    bm,          \* the brokers
    bmOrig,      \* a copy of them before the placement
    status,      \* the BrokerStatus
    affinities,  \* [replaced broker -> its substitute]
    fresh,       \* new brokers that are not a substitute yet
    newMap,      \* the map that is built
    slot,        \* the position of the map that is visited
    skipped,     \* how many visits found no replica
    warns,       \* kinds of warnings
    mid, left,   \* the last chunk's map, brokers still to be chunked
    outputs,     \* the maps to write
    written      \* the maps written

placement == <<newMap, slot, skipped>>
brokers   == <<bm, bmOrig, status>>
output    == <<mid, left, outputs, written>>
vars == <<pc, params, original, pm, brokers, affinities, fresh, placement, warns, output>>

(* Without metadata nothing is known of the brokers; the metrics are read  *)
(* only for the storage placement.                                         *)
meta ==
    [id \in (IF params.useMetadata THEN params.registered ELSE {}) |->
        [rack |-> Meta[id].rack,
         free |-> IF params.placement = "storage" THEN Meta[id].free ELSE 0]]

Storage == params.placement = "storage"
ByPartition == Storage /\ params.optimize = "storage"

Init ==
    /\ pc = "validate"
    /\ params \in ParamSets
    /\ original \in InputMaps
    /\ pm = original
    /\ bm = <<>> /\ bmOrig = <<>> /\ status = <<>>
    /\ affinities = <<>> /\ fresh = {}
    /\ newMap = <<>> /\ slot = [n |-> 1, i |-> 1] /\ skipped = 0
    /\ warns = {}
    /\ mid = <<>> /\ left = {} /\ outputs = <<>> /\ written = <<>>

-----------------------------------------------------------------------------
(* What the map is built from.                                             *)

invalid ==
    \/ ~params.useMetadata /\ Storage
    \/ params.forceRebuild /\ params.subAffinity
    \/ (params.evacBrokers = {}) # (params.evacTopics = {})

Validate ==
    /\ pc = "validate"
    /\ pc' = IF invalid THEN "exit" ELSE "read"
    /\ UNCHANGED <<params, original, pm, brokers, affinities, fresh, placement, warns, output>>

(* Something could not be read, or the metrics are too old or incomplete.  *)
ReadFails ==
    /\ pc = "read"
    /\ pc' = "exit"
    /\ UNCHANGED <<params, original, pm, brokers, affinities, fresh, placement, warns, output>>

(* The map that was given or read, without the topics to exclude.          *)
getPartitionMap == removeTopics(pm, params.topicsExclude)

(* getPartitionMap and getBrokers.                                         *)
Read ==
    LET map == getPartitionMap
        mapped == BrokerMapFromPartitionMap(map, meta, params.forceRebuild)
    IN  /\ pc = "read"
        /\ original' = map /\ pm' = map
        /\ bm' = Update(mapped, params.brokers, meta)
        /\ bmOrig' = bm'
        /\ status' = UpdateStatus(mapped, params.brokers, meta)
        /\ pc' = IF params.subAffinity THEN "affinities" ELSE "prepare"
        /\ fresh' = {id \in Real(bm') : bm'[id].new}
        /\ UNCHANGED <<params, affinities, placement, warns, output>>

Leaving == {id \in Real(bm) : bm[id].replace} \ DOMAIN affinities
Gone    == {id \in Leaving : bm[id].missing}

(* The racks of the fresh brokers where a substitute for b may be.  The    *)
(* rack of a broker that is gone is not known: it is inferred.             *)
Candidates(b) ==
    LET suits == {id \in fresh :
                    IF bm[b].missing THEN bm[id].rack \in LocalitiesAvailable(pm, bm, b)
                    ELSE bm[id].rack = bm[b].rack}
        rack  == Min({bm[id].rack : id \in suits})
    IN  {id \in suits : bm[id].rack = rack}

(* SubstitutionAffinities visits the brokers that are gone first, then the *)
(* others that leave, each in the order of a Go map.  To infer a rack it   *)
(* looks up all brokers of the map.                                        *)
Substitute ==
    /\ pc = "affinities" /\ Leaving # {}
    /\ \E b \in (IF Gone # {} THEN Gone ELSE Leaving) :
         IF \/ Cardinality(fresh) < Cardinality(Leaving)
            \/ bm[b].missing /\ ~Found(bm, BrokersIn(pm))
            \/ Candidates(b) = {}
         THEN pc' = "exit" /\ UNCHANGED <<affinities, fresh>>
         ELSE LET match == Min(Candidates(b))
              IN  /\ affinities' = [id \in DOMAIN affinities \cup {b} |->
                                       IF id = b THEN match ELSE affinities[id]]
                  /\ fresh' = fresh \ {match}
                  /\ UNCHANGED pc
    /\ UNCHANGED <<params, original, pm, brokers, placement, warns, output>>

Substituted ==
    /\ pc = "affinities" /\ Leaving = {}
    /\ pc' = "prepare"
    /\ UNCHANGED <<params, original, pm, brokers, affinities, fresh, placement, warns, output>>

updateReplicationFactor == SetReplication(pm, params.replication)

(* buildMap up to the placement: a forced rebuild lifts every partition    *)
(* from its brokers, any other only those of the brokers that leave.       *)
Prepare ==
    LET map == updateReplicationFactor
        order(p, q) == IF Storage THEN BySize(p, q) ELSE ByName(p, q)
        lifted == IF params.forceRebuild THEN Real(bm) ELSE Real(bm) \ NotReplaced(bm)
    IN  /\ pc = "prepare"
        /\ IF Storage /\ SubStorageFails(bm, map)
           THEN pc' = "exit" /\ UNCHANGED <<pm, bm, newMap>>
           ELSE /\ pc' = "place"
                /\ bm' = IF Storage THEN SubStorage(bm, map, lifted) ELSE bm
                /\ pm' \in Sortings(IF params.forceRebuild THEN Strip(map) ELSE map, order)
                /\ newMap' = [n \in DOMAIN pm' |-> WithReplicas(pm'[n], <<>>)]
        /\ UNCHANGED <<params, original, bmOrig, status, affinities, fresh, slot, skipped,
                       warns, output>>

-----------------------------------------------------------------------------
(* placeByPosition visits the leaders of all partitions, then their first  *)
(* followers and so on; placeByPartition visits one partition at a time.   *)

HasSlot == slot.n <= Len(pm) /\ slot.i <= Len(pm[slot.n].replicas)
bid == pm[slot.n].replicas[slot.i]

NextSlot ==
    IF ByPartition
    THEN IF slot.i < Len(pm[slot.n].replicas) THEN [slot EXCEPT !.i = @ + 1]
         ELSE [n |-> slot.n + 1, i |-> 1]
    ELSE IF slot.n < Len(pm) THEN [slot EXCEPT !.n = @ + 1]
         ELSE [n |-> 1, i |-> slot.i + 1]

(* Mutant: the passes end one skipped visit too early.                     *)
MutPlacedEarly == IF ByPartition THEN slot.n > Len(pm) ELSE slot.n = 1 /\ skipped >= Len(pm) - 1

(* The passes of placeByPosition end with one after which as many visits   *)
(* have been skipped, in all of the passes, as there are partitions.       *)
Placed == IF ByPartition THEN slot.n > Len(pm)
          ELSE slot.n = 1 /\ skipped >= Len(pm)

Visit == /\ pc = "place" /\ ~Placed
         /\ slot' = NextSlot
         /\ UNCHANGED <<pc, params, original, pm, bmOrig, status, affinities, fresh, output>>

AppendReplica(id) == newMap' = [newMap EXCEPT ![slot.n].replicas = Append(@, id)]

(* Mutant: only the new set is merged.                                     *)
MutNewSetOnly == MergeConstraints(bm, Range(newMap[slot.n].replicas))

(* The brokers of the old set that stay, and those of the new set.         *)
Constraints == MergeConstraints(bm, Range(pm[slot.n].replicas) \cup Range(newMap[slot.n].replicas))
Request == IF Storage THEN Size(pm[slot.n]) * params.sizeFactor ELSE 0

(* An offline replica that is visited, or whose set gets a replacement, is *)
(* looked up.                                                              *)
Known == /\ Found(bm, {bid})
         /\ bm[bid].replace => Found(bm, Range(pm[slot.n].replicas))

Panic ==
    /\ pc = "place" /\ ~Placed /\ HasSlot /\ ~Known
    /\ pc' = "exit"
    /\ UNCHANGED <<params, original, pm, brokers, affinities, fresh, placement, warns, output>>

Skip ==
    /\ Visit /\ ~HasSlot
    /\ skipped' = skipped + 1
    /\ UNCHANGED <<bm, newMap, warns>>

Keep ==
    /\ Visit /\ HasSlot /\ Known /\ ~bm[bid].replace
    /\ AppendReplica(bid)
    /\ UNCHANGED <<bm, skipped, warns>>

(* Looking an affinity up counts a use of the substitute, even if the      *)
(* storage placement then makes its own choice.                            *)
HasAffinity == ~ByPartition /\ bid \in DOMAIN affinities
LookedUp == IF HasAffinity THEN [bm EXCEPT ![affinities[bid]].used = @ + 1] ELSE bm

Eligible ==
    IF HasAffinity /\ ~Storage
    THEN {id \in {affinities[bid]} :
             passesWithParams(Constraints, LookedUp, id, params.minRackIds, Request)}
    ELSE SelectBroker(Constraints, LookedUp, NotReplaced(bm), params.placement,
                      params.minRackIds, Request)

Replace ==
    /\ Visit /\ HasSlot /\ Known /\ bm[bid].replace
    /\ \E id \in Eligible :
         /\ AppendReplica(id)
         /\ bm' = IF HasAffinity /\ ~Storage THEN LookedUp ELSE Taken(LookedUp, id, Request)
    /\ UNCHANGED <<skipped, warns>>

(* No broker passes: the replica is left out, with a warning.              *)
LeaveOut ==
    /\ Visit /\ HasSlot /\ Known /\ bm[bid].replace
    /\ Eligible = {}
    /\ bm' = LookedUp
    /\ warns' = warns \cup {"no brokers"}
    /\ UNCHANGED <<newMap, skipped>>

(* The storage optimisation shuffles every replica set.                    *)
EndPlacement ==
    /\ pc = "place" /\ Placed
    /\ \E sets \in [DOMAIN newMap -> UNION {Shuffles(newMap[n].replicas) : n \in DOMAIN newMap}] :
         /\ \A n \in DOMAIN newMap :
              IF ByPartition THEN sets[n] \in Shuffles(newMap[n].replicas)
              ELSE sets[n] = newMap[n].replicas
         /\ newMap' \in Sortings([n \in DOMAIN newMap |-> WithReplicas(newMap[n], sets[n])], ByName)
    /\ warns' = warns \cup {"zero replicas" : n \in {x \in DOMAIN newMap : newMap[x].replicas = <<>>}}
    /\ slot' = [n |-> 1, i |-> 1]
    /\ pc' = IF params.optimizeLeadership THEN "optimize" ELSE "conclude"
    /\ UNCHANGED <<params, original, pm, brokers, affinities, fresh, skipped, output>>

(* OptimizeLeaderFollower sorts every set, as many times as the first set  *)
(* is long.  There is no first set if all topics have been excluded.       *)
Optimize ==
    /\ pc = "optimize"
    /\ IF newMap = <<>>
       THEN pc' = "exit" /\ UNCHANGED <<newMap, slot>>
       ELSE IF slot.i > Len(newMap[1].replicas)
       THEN pc' = "conclude" /\ UNCHANGED <<newMap, slot>>
       ELSE /\ newMap' \in OptimizeLeaderFollower(newMap, slot.n)
            /\ slot' = IF slot.n < Len(newMap) THEN [slot EXCEPT !.n = @ + 1]
                       ELSE [n |-> 1, i |-> slot.i + 1]
            /\ UNCHANGED pc
    /\ UNCHANGED <<params, original, pm, brokers, affinities, fresh, skipped, warns, output>>

-----------------------------------------------------------------------------
(* The maps that are written.                                              *)

(* Mutant: the leader takes the place of the first replica.                *)
MutLeaderReplaces(before, after) ==
    [n \in DOMAIN after |->
        WithReplicas(after[n], [after[n].replicas EXCEPT ![1] = before[n].replicas[1]])]

(* The first phase keeps the present leader, in front of the new set.      *)
phasedReassignment(before, after) ==
    [n \in DOMAIN after |->
        LET leader == before[n].replicas[1]
        IN  IF leader \in Range(after[n].replicas) THEN after[n]
            ELSE WithReplicas(after[n], <<leader>> \o after[n].replicas)]

ToEvacuate(p) == p.topic \in params.evacTopics
                 /\ (p.replicas = <<>> \/ p.replicas[1] \in params.evacBrokers)

CanLead(p) == {j \in DOMAIN p.replicas : p.replicas[j] \notin params.evacBrokers}

(* The leader changes places with the first replica that may lead.         *)
evacuateLeadership(map) ==
    [n \in DOMAIN map |->
        IF ~ToEvacuate(map[n]) THEN map[n]
        ELSE LET j == Min(CanLead(map[n]))
             IN  WithReplicas(map[n], [map[n].replicas EXCEPT ![1] = map[n].replicas[j],
                                                              ![j] = map[n].replicas[1]])]

RangeIncreased ==
    /\ Storage
    /\ StorageRange(bm, NotReplaced(bm)) > StorageRange(bmOrig, OnlineIn(original))

Conclude ==
    LET final   == evacuateLeadership(newMap)
        changed == IF params.skipNoOps THEN Changed(original, final) ELSE DOMAIN final
    IN  /\ pc = "conclude"
        /\ warns' = warns \cup (IF status.missing # {} THEN {"missing"} ELSE {})
                          \cup (IF status.rackMissing # {} THEN {"no rack"} ELSE {})
                          \cup (IF RangeIncreased THEN {"range"} ELSE {})
        /\ IF \E n \in DOMAIN newMap : ToEvacuate(newMap[n]) /\ CanLead(newMap[n]) = {}
           THEN pc' = "exit" /\ UNCHANGED <<newMap, mid, left, outputs>>
           ELSE /\ pc' = IF params.chunkStepSize > 0 THEN "chunk" ELSE "write"
                /\ newMap' = Pruned(final, changed)
                /\ mid' = Pruned(original, changed)
                /\ left' = Real(bmOrig)
                /\ outputs' = (IF params.phased THEN <<phasedReassignment(original, newMap)>> ELSE <<>>)
                              \o (IF params.chunkStepSize > 0 THEN <<>> ELSE <<newMap'>>)
        /\ UNCHANGED <<params, original, pm, brokers, affinities, fresh, slot, skipped, written>>

(* Mutant: one broker too few for a chunk.                                 *)
MutSmallerChunk == {id \in left : Cardinality({x \in left : x > id}) < params.chunkStepSize - 1}

(* getPartitionMapChunks: the brokers of a chunk, the greatest IDs that    *)
(* are left, give way to those of the final map.                           *)
ChunkBrokers == {id \in left : Cardinality({x \in left : x > id}) < params.chunkStepSize}
Moves(n) == Range(mid[n].replicas) \cap ChunkBrokers # {}
(* Mutant: only the first replica of a set is moved.                       *)
MutMoveFirst ==
    [n \in DOMAIN mid |-> WithReplicas(mid[n],
        [j \in DOMAIN mid[n].replicas |->
            IF j = 1 /\ mid[n].replicas[j] \in ChunkBrokers
            THEN newMap[n].replicas[j] ELSE mid[n].replicas[j]])]

ChunkMap ==
    [n \in DOMAIN mid |-> WithReplicas(mid[n],
        [j \in DOMAIN mid[n].replicas |->
            IF mid[n].replicas[j] \in ChunkBrokers THEN newMap[n].replicas[j] ELSE mid[n].replicas[j]])]

Chunk ==
    /\ pc = "chunk" /\ left # {}
    /\ left' = left \ ChunkBrokers
    /\ IF \E n \in DOMAIN mid : Moves(n) /\ Len(mid[n].replicas) # Len(newMap[n].replicas)
       THEN pc' = "exit" /\ UNCHANGED <<mid, outputs>>
       ELSE /\ mid' = ChunkMap
            /\ outputs' = IF ChunkMap # mid THEN Append(outputs, ChunkMap) ELSE outputs
            /\ UNCHANGED pc
    /\ UNCHANGED <<params, original, pm, brokers, affinities, fresh, placement, warns, written>>

EndChunks ==
    /\ pc = "chunk" /\ left = {}
    /\ pc' = "write"
    /\ UNCHANGED <<params, original, pm, brokers, affinities, fresh, placement, warns, output>>

(* handleOverridableErrs ends the command.                                 *)
Stopped == warns # {} /\ ~params.ignoreWarns

(* No file is written if the first map is empty.                           *)
Write ==
    /\ pc = "write"
    /\ IF Stopped
       THEN pc' = "exit" /\ UNCHANGED written
       ELSE /\ pc' = "done"
            /\ written' = IF outputs = <<>> \/ outputs[1] = <<>> THEN <<>> ELSE outputs
    /\ UNCHANGED <<params, original, pm, brokers, affinities, fresh, placement, warns,
                   mid, left, outputs>>

Next ==
    \/ Validate \/ ReadFails \/ Read \/ Substitute \/ Substituted \/ Prepare
    \/ Panic \/ Skip \/ Keep \/ Replace \/ LeaveOut \/ EndPlacement \/ Optimize
    \/ Conclude \/ Chunk \/ EndChunks \/ Write

(* The command computes until it ends.                                     *)
Spec == Init /\ [][Next]_vars /\ WF_vars(Next)

-----------------------------------------------------------------------------
(* Properties.                                                             *)

Maps == Seq([topic : Nat, partition : Nat, replicas : Seq(Int)])
BrokerRecords == [rack : Nat, used : Nat, free : Int,
                  replace : BOOLEAN, missing : BOOLEAN, new : BOOLEAN]

(* Types of the variables; a broker map has a record for every broker of   *)
(* the partition map, and for no offline replica: the placement can only   *)
(* panic at one of these.                                                  *)
TypeOK ==
    /\ pc \in {"validate", "read", "affinities", "prepare", "place", "optimize", "conclude",
               "chunk", "write", "done", "exit"}
    /\ params \in ParamSets
    /\ \A m \in {original, pm, newMap, mid} : m \in Maps
    /\ bm \in [DOMAIN bm -> BrokerRecords]
    /\ pc = "place" => OnlineIn(pm) = BrokersIn(pm) \cap DOMAIN bm /\ Len(newMap) = Len(pm)

(* The replicas that a partition had, up to the replication asked for.     *)
SamePartition(p, q) == p.topic = q.topic /\ p.partition = q.partition
Resized == SetReplication(original, params.replication)
Before(p) == (CHOOSE q \in Range(Resized) : SamePartition(p, q)).replicas

(* Chunks move what the brokers of the map have, and so no offline replica *)
(* of the original: the last of their maps still has it.                   *)
Converges == params.chunkStepSize > 0 => Offline \notin BrokersIn(mid)

Done == pc = "done" /\ written # <<>> /\ Converges
FinalMap == written[Len(written)]

(* Positions of a set may change when replicas are left out or placed anew *)
(* and when the sets are sorted or shuffled at the end.                    *)
Reordered ==
    \/ params.forceRebuild \/ ByPartition \/ params.optimizeLeadership
    \/ params.evacBrokers # {} \/ "no brokers" \in warns

(* No map that is written assigns a partition twice to the same broker,    *)
(* whatever the phases and chunks it was split into (Kafka refuses it).    *)
(* The maps before that of the last chunk are exempt if brokers may change *)
(* to other positions of a set: a chunk replaces them one position at a    *)
(* time, and then some other position still has the broker.  So are chunks *)
(* that keep offline replicas.                                             *)
NoBrokerTwice ==
    \A k \in DOMAIN written : \A n \in DOMAIN written[k] :
        \/ IsInjective(written[k][n].replicas)
        \/ params.chunkStepSize > 0 /\ k < Len(written) /\ Reordered
        \/ ~Converges

(* The visits that placeByPosition has skipped after i passes; it ends as  *)
(* soon as they are as many as the partitions, though longer sets may have *)
(* positions that no pass has come to.                                     *)
Excess(i) ==
    SumFunction([n \in DOMAIN pm |->
        IF Len(pm[n].replicas) < i THEN i - Len(pm[n].replicas) ELSE 0])
AllVisited ==
    ByPartition \/ \A n \in DOMAIN pm : \A i \in 1 .. Len(pm[n].replicas) - 1 : Excess(i) < Len(pm)

(* The map that is built uses only brokers of the list that are there, and *)
(* it keeps every one of them that a replica set had.                      *)
Wanted == Provided([id \in OnlineIn(original) |-> 0], params.brokers, meta)
            \cap (IF DOMAIN meta = {} THEN Nat ELSE DOMAIN meta)
OnlyProvidedBrokers ==
    Done => \A n \in DOMAIN FinalMap :
              LET final == Range(FinalMap[n].replicas)
              IN  /\ final \subseteq Wanted
                  /\ ~params.forceRebuild /\ AllVisited =>
                       Range(Before(FinalMap[n])) \cap Wanted \subseteq final

(* A replica is placed in a rack that its set has already only if the set  *)
(* has the minimum number of racks; and never if racks are to be unique.   *)
RackOf(id) == bmOrig[id].rack
RacksSpread ==
    Done => \A n \in DOMAIN FinalMap :
              LET set   == Range(FinalMap[n].replicas)
                  racks == {RackOf(id) : id \in set} \ {NoRack}
              IN  \A a \in set \ Range(Before(FinalMap[n])) : \A b \in set \ {a} :
                    RackOf(a) # NoRack /\ RackOf(a) = RackOf(b)
                      => /\ params.minRackIds > 0
                         /\ AllVisited => Cardinality(racks) >= params.minRackIds

(* A rebuild without warnings that comes to every position gives every     *)
(* partition the replication asked for, or else the one it had.            *)
ReplicationKept ==
    Done /\ warns = {} /\ AllVisited =>
      \A n \in DOMAIN FinalMap : Len(FinalMap[n].replicas) = Len(Before(FinalMap[n]))

(* As placeByPosition has it of its passes: the sets may be of any length, *)
(* and nothing is left to do when the passes end.                          *)
NoReplicaLost ==
    Done /\ warns = {} =>
      \A n \in DOMAIN FinalMap : Len(FinalMap[n].replicas) = Len(Before(FinalMap[n]))

(* The storage placement accounts for what it moves: a broker that stays   *)
(* has the storage it had, and what was lifted from it, less what was      *)
(* placed on it.                                                           *)
Lifted(id) ==
    IF ~params.forceRebuild THEN 0
    ELSE SizeOn(Resized, id)
PlacedOn(id) ==
    LET gained == {s \in Held(newMap, id) :
                      params.forceRebuild \/ id \notin Range(Before(newMap[s[1]]))}
    IN  SumFunction([s \in gained |-> Size(newMap[s[1]]) * params.sizeFactor])
StorageAccounted ==
    Storage /\ pc = "conclude" =>
      \A id \in NotReplaced(bm) : bm[id].free = bmOrig[id].free + Lifted(id) - PlacedOn(id)

(* No broker is given more than its free storage, where racks are to be    *)
(* unique: with a minimum of racks some candidates pass unchecked.         *)
NoBrokerOverrun ==
    Storage /\ params.minRackIds = 0 /\ pc = "conclude" =>
      \A id \in NotReplaced(bm) : PlacedOn(id) > 0 => bm[id].free >= 0

(* In the first of two phases every partition keeps the broker that leads  *)
(* it, and a later map assigns it as if there were no phases.              *)
PhaseKeepsLeader ==
    Done /\ params.phased =>
      \A n \in DOMAIN original :
        LET leader == original[n].replicas[1]
        IN  /\ leader \in Range(written[1][n].replicas)
            /\ \A k \in DOMAIN FinalMap : SamePartition(FinalMap[k], original[n]) =>
                 Range(written[1][n].replicas) = {leader} \cup Range(FinalMap[k].replicas)

(* The chunks end with the map that was built, but for offline replicas,   *)
(* and each of them takes its brokers only from the map before it or from  *)
(* that one.                                                               *)
ChunksConverge ==
    /\ pc = "write" /\ params.chunkStepSize > 0 /\ Converges => mid = newMap
    /\ pc = "chunk" => \A n \in DOMAIN mid : \A j \in DOMAIN mid[n].replicas :
         mid[n].replicas[j] \in left \cup Range(newMap[n].replicas) \cup {Offline}

(* The command ends.                                                       *)
Ends == <>(pc \in {"done", "exit"})
=============================================================================
