\* One billing operation at a time, a cycle every day.
SPECIFICATION Spec
CONSTANTS
    s1 = s1  s2 = s2  p1 = p1  p2 = p2
    Servers = {s1, s2}
    Payments = {p1, p2}
    MaxInvoices = 4
    LastDay = 6
    Grace = 1
    Retention = 1
    Period = 4
    Admits = {}
    NoServer = NoServer
    NoPayment = NoPayment
CHECK_DEADLOCK FALSE
INVARIANTS
    TypeOK
    SuspendedIffOverdue
PROPERTIES
    KeepsPromise
