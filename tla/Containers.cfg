\* Flapping and dying agents, slow builds; no reconnect during a build.
SPECIFICATION FairSpec
CONSTANTS
    n1 = n1  n2 = n2  s1 = s1  s2 = s2
    Nodes = {n1, n2}
    Servers = {s1}
    MaxPlays = 1
    MaxLate = 1
    ObjectStore = TRUE
    Slow = {"building", "tearing", "stopping", "archiving", "creating"}
    Dies = {"building", "tearing", "stopping", "archiving", "creating"}
    Admits = {"agent"}
    NoNode = NoNode
CHECK_DEADLOCK FALSE
INVARIANTS
    
    
    RunsOnce
PROPERTIES
    OrphansGone
