\* A return checked against one order may delete another one under its id.
SPECIFICATION Spec
CONSTANTS
    o1 = o1  o2 = o2
    r1 = r1  r2 = r2
    u1 = u1  u2 = u2
    Requests = {r1, r2}
    OrderIDs = {o1}
    Users = {u1}
    Expiries = {1, 2}
    Batches <- SingleBatch
    RefundPeriod = 1
    MaxTime = 2
    NoOrder = NoOrder
    NoRequest = NoRequest
    NoUser = NoUser
PROPERTIES ReturnedOnlyExpired
