----------------------------- MODULE MCRebuild -----------------------------
(* Small clusters for TLC: six brokers in three racks, at most three of    *)
(* them in use, and the parameters that make each part of a rebuild happen.*)
EXTENDS Rebuild, TLC

MCMeta == [id \in 1 .. 6 |-> [rack |-> ((id - 1) % 3) + 1, free |-> 2 + (id % 3)]]

Part(t, p, rs) == [topic |-> t, partition |-> p, replicas |-> rs]

Pair   == <<Part(1, 0, <<1, 2>>), Part(1, 1, <<2, 3>>)>>
Mixed  == <<Part(1, 0, <<1>>), Part(2, 0, <<2, 3, 1>>)>>
Single == <<Part(1, 0, <<1, 2>>), Part(1, 1, <<2, 1>>), Part(2, 0, <<3>>)>>
(* Replicas are offline, in every position.                                *)
Partly == <<Part(1, 0, <<1, 2>>), Part(1, 1, <<Offline, 1>>), Part(2, 0, <<2, Offline, Offline>>)>>
MCInputs == {Pair, Mixed, Single, Partly}
(* Topics of different replication.                                        *)
Uneven == {<<Part(1, 0, <<1>>), Part(2, 0, <<1, 2, 3, 4>>)>>}

MCSizes == <<1, 0>> :> 1 @@ <<1, 1>> :> 2 @@ <<2, 0>> :> 2

Base == [brokers |-> {AllExisting}, registered |-> 1 .. 6, useMetadata |-> TRUE,
         forceRebuild |-> FALSE, subAffinity |-> FALSE, placement |-> "count",
         optimize |-> "distribution", minRackIds |-> 0, replication |-> 0, sizeFactor |-> 1,
         optimizeLeadership |-> FALSE, phased |-> FALSE, evacBrokers |-> {}, evacTopics |-> {},
         topicsExclude |-> {}, skipNoOps |-> FALSE, chunkStepSize |-> 0, ignoreWarns |-> FALSE]

Lists == {{1, 3, 4, 5}, {2, 3, 4}, {AllExisting}, {AllDiscovered}, {4, 5, 6}, {1, 3, 7}}

(* Every list with every way to place.                                     *)
Placements ==
    {[Base EXCEPT !.brokers = l, !.registered = r, !.forceRebuild = f, !.minRackIds = m,
                  !.ignoreWarns = TRUE] :
        l \in Lists, r \in {1 .. 6, {1, 3, 4, 5, 6}}, f \in BOOLEAN, m \in {0, 2}}
Storages ==
    {[Base EXCEPT !.brokers = l, !.registered = 1 .. 6, !.forceRebuild = f, !.placement = "storage",
                  !.optimize = o, !.sizeFactor = z, !.minRackIds = m, !.ignoreWarns = TRUE] :
        l \in {{1, 3, 4, 5}, {4, 5, 6}}, f \in BOOLEAN, o \in {"distribution", "storage"},
        z \in {1, 2}, m \in {0, 1}}
Replications ==
    {[Base EXCEPT !.brokers = l, !.replication = k, !.phased = TRUE, !.placement = s, !.skipNoOps = b] :
        l \in {{1, 2, 3, 4}, {2, 3, 4, 5}}, k \in {1, 3}, s \in {"count", "storage"}, b \in BOOLEAN}
Affinities ==
    {[Base EXCEPT !.brokers = l, !.registered = r, !.subAffinity = TRUE, !.forceRebuild = f,
                  !.placement = s, !.ignoreWarns = TRUE] :
        l \in {{1, 3, 5}, {3, 4, 5}, {1, 3, 4}}, r \in {1 .. 6, {1, 3, 4, 5, 6}}, f \in BOOLEAN,
        s \in {"count", "storage"}}
Leaderships ==
    {[Base EXCEPT !.brokers = l, !.optimizeLeadership = o, !.evacBrokers = e, !.evacTopics = t,
                  !.topicsExclude = x, !.phased = TRUE] :
        l \in {{AllExisting}, {1, 3, 4}}, o \in BOOLEAN, e \in {{}, {1}, {1, 2}}, t \in {{}, {1}},
        x \in {{}, {2}, {1, 2}}}
Chunks ==
    {[Base EXCEPT !.brokers = l, !.chunkStepSize = k, !.skipNoOps = b, !.replication = r,
                  !.evacBrokers = e, !.evacTopics = e, !.forceRebuild = f] :
        l \in {{1, 3, 5}, {4, 5, 6}, {AllExisting}}, k \in {1, 2}, b \in BOOLEAN, r \in {0, 1},
        e \in {{}, {1}}, f \in BOOLEAN}
Invalid == {[Base EXCEPT !.useMetadata = FALSE, !.placement = s] : s \in {"count", "storage"}}

MCParams == Placements \cup Storages \cup Replications \cup Affinities \cup Leaderships
            \cup Chunks \cup Invalid

(* Nothing to move: the brokers stay as they are.                          *)
PlainBase == {Base}
=============================================================================
