\* Every failure, except that an agent waiting for hello.ack is told of a cut.
SPECIFICATION FairSpec
CONSTANTS
    k1 = k1  k2 = k2
    Sockets = {k1, k2}
    NoSocket = NoSocket
    MaxHellos = 1
    Admits = {"cut", "gateway", "agent", "rotate", "chatter"}
CHECK_DEADLOCK FALSE
INVARIANTS
    OneAccepted
PROPERTIES
    Recovers
    GoneIsNoticed
