--------------------------- MODULE MCAutothrottle ---------------------------
(* Small clusters for TLC.  Topic 1, led by broker 1, moves to brokers 1   *)
(* and 2; every other broker holds a replica that stays.                   *)
EXTENDS Autothrottle

MCLeader   == [t \in Topics |-> t]
MCISR      == [t \in Topics |-> Brokers \ {2}]
MCReplicas == [t \in Topics |-> Brokers \ {2}]
MCTarget   == [t \in Topics |-> Brokers]
MCCapacity == [b \in Brokers |-> 10]

MCKept    == {[rate |-> 8, autoRemove |-> FALSE]}
MCRemoved == {[rate |-> 8, autoRemove |-> TRUE]}
MCZero    == MCKept \cup {[rate |-> 0, autoRemove |-> TRUE]}
=============================================================================
