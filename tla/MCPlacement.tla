---------------------------- MODULE MCPlacement ----------------------------
(* Small fleets for TLC: two nodes, three ports, two plan sizes.           *)
EXTENDS PlacementInv

CONSTANTS n1, n2, s1, s2

\* n1 can run out of ports while it still has memory.
MCAllocations == {<<n1, 1>>, <<n2, 1>>, <<n2, 2>>}
MCNodeOf == [a \in MCAllocations |-> a[1]]
\* A fleet with one port per node.
MCFewAllocations == Nodes \X {1}
MCFewNodeOf == [a \in MCFewAllocations |-> a[1]]
MCSize == [s \in Servers |-> IF s = s1 THEN 2 ELSE 1]
=============================================================================
