-------------------------- MODULE MCRegistryTags ----------------------------
(***************************************************************************)
(* Small instances of RegistryTags: one topic and two brokers, two keys.    *)
(***************************************************************************)
EXTENDS RegistryTags, TLC

CONSTANTS r1, r2, c1, t, b1, b2, k1, k2

Op(k, objs, ks) == [kind |-> k, ids |-> objs, keys |-> ks]

TopicOps == {Op("CreateTopic", <<t>>, {k1}), Op("DeleteTopic", <<t>>, {}),
             Op("TagTopic", <<t>>, {k2}), Op("DeleteTopicTags", <<t>>, {k1})}
BrokersOps == {Op("TagBrokers", <<b1, b2>>, {k1})}
AllOps == TopicOps \union BrokersOps
MixedOps == BrokersOps \union
  {Op("CreateTopic", <<t>>, {k1}), Op("DeleteTopic", <<t>>, {})}

\* Any cluster; one in which all the brokers are up.
AnyCluster == SUBSET Objects
BrokersUp == {Brokers, Objects}

RequestSymmetry == Permutations(Requests)
=============================================================================
