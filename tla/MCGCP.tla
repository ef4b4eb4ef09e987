------------------------------- MODULE MCGCP -------------------------------
(***************************************************************************)
(* Instances of GCPCloudRouter for TLC: three VMs, the first and the last of *)
(* which have an address in turn.                                          *)
(***************************************************************************)
EXTENDS GCPCloudRouter, TLC

CONSTANTS v1, v2, v3, a1, a2

Order == <<v1, v2, v3>>
AddressOf == [v \in {v1, v3} |-> a1] @@ [v \in {v2} |-> a2]

\* Which interface a router begins with is a matter of names.
UpToRenaming == {<<>>, <<"i1">>, <<"i1", "i2">>}

\* The rank of v among the nodes, from 0.
Rank(v, nodes) ==
    Cardinality({u \in nodes : \E j, k \in DOMAIN NameOrder :
                                  j < k /\ NameOrder[j] = u /\ NameOrder[k] = v})

\* For every set of nodes and every limit, 0 included, ChunkRouterNodes puts the node
\* of rank r in chunk r div the limit, and makes no empty chunk.
ASSUME ChunksFollowRanks ==
    \A nodes \in SUBSET VMs, maxPer \in 0..4 :
        LET chunks == ChunkRouterNodes(nodes, maxPer)
            m == IF maxPer = 0 THEN 1 ELSE maxPer
        IN  /\ \A i \in DOMAIN chunks : chunks[i] # {} /\ chunks[i] \subseteq nodes
            /\ \A v \in nodes, i \in DOMAIN chunks :
                  (v \in chunks[i]) <=> (Rank(v, nodes) \div m = i)
            /\ \A v \in nodes : \E i \in DOMAIN chunks : v \in chunks[i]
=============================================================================
