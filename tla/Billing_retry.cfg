\* The webhook dies between its two updates.
SPECIFICATION Spec
CONSTANTS
    s1 = s1  s2 = s2  p1 = p1  p2 = p2
    Servers = {s1}
    Payments = {p1}
    MaxInvoices = 2
    LastDay = 4
    Grace = 1
    Retention = 1
    Period = 4
    Admits = {"failure"}
    NoServer = NoServer
    NoPayment = NoPayment
CHECK_DEADLOCK FALSE
INVARIANTS
    RetryCompletes
