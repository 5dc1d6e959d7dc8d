-------------------------- MODULE MCRegistryServer --------------------------
(* Two translations for the same group, from two source clusters, and one  *)
(* without a group.                                                        *)
EXTENDS RegistryServer, TLC

CONSTANTS t1, t2, q1, X, Y, g, h

MCTopic == t1 :> X @@ t2 :> Y @@ q1 :> X
MCGroup == t1 :> g @@ t2 :> g @@ q1 :> NoGroup
MCDeadline == t1 :> "none" @@ t2 :> "long" @@ q1 :> "own"

Record(group, p, o) == [group |-> group, partition |-> p, offset |-> o]
MCLogs == X :> <<Record(g, 0, 5), Record(g, 0, 7)>> @@
          Y :> <<Record(h, 1, 6), Record(Malformed, 1, 0)>>
MCInitial == X :> 0 @@ Y :> 2
=============================================================================
