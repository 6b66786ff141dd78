\* Every interaction at once; the reconciler keeps running.
SPECIFICATION FairSpec
CONSTANTS
    n1 = n1  n2 = n2  s1 = s1  s2 = s2
    Nodes = {n1, n2}
    Servers = {s1}
    Movers = {m1}
    Allocations <- MCFewAllocations
    NodeOf <- MCFewNodeOf
    Size <- MCSize
    MaxSize = 2
    Totals = {2}
    MaxAttempts = 2
    Admits = {"recalculate", "named target", "overlap", "late failure", "shrink", "crash"}
    NoNode = NoNode
    NoServer = NoServer
INVARIANT
    FailedPurchaseHoldsNothing

    
