\* Two requests over two orders; crossing batches deadlock and recover.
SPECIFICATION FairSpec
CONSTANTS
    o1 = o1  o2 = o2
    r1 = r1  r2 = r2
    u1 = u1  u2 = u2
    Requests = {r1, r2}
    OrderIDs = {o1, o2}
    Users = {u1}
    Expiries = {1}
    Batches <- CrossingBatches
    RefundPeriod = 0
    MaxTime = 2
    NoOrder = NoOrder
    NoRequest = NoRequest
    NoUser = NoUser
INVARIANTS NoGridlock LocksOwned ValidationStillHolds BatchComplete
PROPERTIES LockedRowsStable Answered
