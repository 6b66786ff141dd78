\* The reconciler recalculates while a server migrates.
SPECIFICATION Spec
CONSTANTS
    n1 = n1  n2 = n2  s1 = s1  s2 = s2
    Nodes = {n1, n2}
    Servers = {s1}
    Movers = {m1}
    Allocations <- MCFewAllocations
    NodeOf <- MCFewNodeOf
    Size <- MCSize
    MaxSize = 2
    Totals = {2}
    MaxAttempts = 3
    Admits = {"recalculate"}
    NoNode = NoNode
    NoServer = NoServer
INVARIANT
    OnSomeBooks
