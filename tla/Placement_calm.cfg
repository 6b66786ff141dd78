\* One operation per server at a time, no recalculation, no named target.
SPECIFICATION FairSpec
CONSTANTS
    n1 = n1  n2 = n2  s1 = s1  s2 = s2
    Nodes = {n1, n2}
    Servers = {s1, s2}
    Movers = {m1}
    Allocations <- MCAllocations
    NodeOf <- MCNodeOf
    Size <- MCSize
    MaxSize = 2
    Totals = {2, 3}
    MaxAttempts = 3
    Admits = {}
    NoNode = NoNode
    NoServer = NoServer
INVARIANTS
    TypeOK
    LedgerExact
    NeverOversold
    PortsExact
PROPERTIES
    RetryTerminates
