\* Everything at once, except a cycle during a purchase.
SPECIFICATION FairSpec
CONSTANTS
    s1 = s1  s2 = s2  p1 = p1  p2 = p2
    Servers = {s1}
    Payments = {p1}
    MaxInvoices = 2
    LastDay = 6
    Grace = 1
    Retention = 1
    Period = 4
    Admits = {"overlap", "failure", "late worker"}
    NoServer = NoServer
    NoPayment = NoPayment
CHECK_DEADLOCK FALSE
INVARIANTS
    PeriodsTile
    NoEarlyReclaim
PROPERTIES
    NothingRunsFree
    PaymentCredited
