----------------------------- MODULE MCReassign -----------------------------
(* Small clusters for TLC: five brokers in three racks, some of them new.  *)
EXTENDS Reassign, TLC

MCMeta == 1 :> [rack |-> 1, free |-> 1] @@ 2 :> [rack |-> 2, free |-> 2] @@
          3 :> [rack |-> 3, free |-> 9] @@ 4 :> [rack |-> 1, free |-> 9] @@
          5 :> [rack |-> 2, free |-> 8]

Part(t, p, rs) == [topic |-> t, partition |-> p, replicas |-> rs]

MCInputs == {<<Part(1, 0, <<1, 2>>), Part(1, 1, <<2, 1>>), Part(2, 0, <<1, 3>>)>>,
             <<Part(1, 0, <<1, 2>>), Part(1, 1, <<3, 2, 1>>), Part(2, 1, <<1, 2>>)>>,
             <<Part(1, 0, <<1>>), Part(1, 1, <<1>>), Part(2, 0, <<1>>), Part(3, 0, <<2>>)>>,
             <<Part(1, 0, <<1, 4>>), Part(2, 0, <<1, 2>>)>>,
             <<Part(1, 0, <<1, Offline, 2>>), Part(2, 0, <<1>>), Part(3, 0, <<2, 3>>)>>}

MCSizes == <<1, 0>> :> 3 @@ <<1, 1>> :> 2 @@ <<2, 0>> :> 2 @@ <<2, 1>> :> 2 @@
           <<3, 0>> :> 0

Base == [brokers |-> {AllDiscovered}, localityScoped |-> FALSE, partitionLimit |-> 3,
         sizeThreshold |-> 1, thresholdGB |-> 0, threshold |-> 0, tolerances |-> {10, 50, 90},
         optimizeLeadership |-> FALSE, requireNewBrokers |-> FALSE, topicsExclude |-> {},
         ignoreWarns |-> FALSE]

Rebalances ==
    {[Base EXCEPT !.localityScoped = l, !.thresholdGB = g, !.threshold = h, !.partitionLimit = k,
                  !.sizeThreshold = s, !.ignoreWarns = i] :
        l \in BOOLEAN, g \in {0, 3}, h \in {0, 20}, k \in {1, 3}, s \in {1, 3}, i \in BOOLEAN}
Scales ==
    {[Base EXCEPT !.requireNewBrokers = TRUE, !.brokers = b, !.optimizeLeadership = o,
                  !.topicsExclude = x, !.tolerances = t, !.localityScoped = l] :
        b \in {{AllDiscovered}, {AllExisting}, {1, 2, 3, 4}, {1, 3, 6}}, o \in BOOLEAN,
        x \in {{}, {2}, {1, 2}}, t \in {{30}, {20, 60}}, l \in BOOLEAN}
MCParams == Rebalances \cup Scales
=============================================================================
