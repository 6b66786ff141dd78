\* One part to a behaviour, each small.
SPECIFICATION Spec
CONSTANTS
    B_MaxId = 2  B_Tabs = {"t1"}  B_Limit = 2  B_Keep = 1  B_MaxMinute = 1
    B_Due = {0}  B_LockMinutes = 5  B_MaxPlays = 1  B_MaxLate = 1
    S_Suspended = FALSE  S_MaxOnWay = 2
    A_EvaluatedKeys = {"node.capacity"}  A_FleetKeys = {}  A_DriftKeys = {}
    C_Tabs = {"t1", "t2"}  C_MaxSets = 3  C_MaxOnWay = 3  C_MaxFaults = 1
    D_Names = {"a", "b", "c"}  D_Requests = {"r1", "r2"}  D_Limit = 2  D_MaxSecret = 4
    U_Nodes = {"n1", "n2"}  U_Builds = {1, 2}  U_BatchSize = 1  U_MaxReleases = 2
    U_MaxCrashes = 1
    G_Tabs = {"t1", "t2"}  G_MaxSaves = 2
    V_Tabs = {"t1", "t2"}  V_MaxSaves = 3
    N_Nodes = {"n1", "n2"}  N_Servers = {"s1", "s2"}
    L_Requests = {"r1", "r2", "r3"}  L_Limit = 2  L_MaxAttempts = 4
    M_Hour = 2  M_Retain = 2  M_Expire = 4  M_MaxNow = 7
INVARIANTS
    TypeOK WorldKept BackupsKept Served   
    NodesAccounted KeyRunsOut
CHECK_DEADLOCK FALSE
