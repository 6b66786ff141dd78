\* Two workers that crash; no pass outlives its lock.
SPECIFICATION FairSpec
CONSTANTS
    w1 = w1  w2 = w2  i1 = i1  i2 = i2
    Workers = {w1, w2}
    Slots = {1, 2}
    Items = {i1, i2}
    MaxLives = 2
    Admits = {"crash"}
    NoPass = NoPass
INVARIANTS
    Exclusive
    DoneOnce
PROPERTIES
    
    EverythingDone
