\* One order over a longer time: expiry, the refund period, dates read too early.
SPECIFICATION Spec
CONSTANTS
    o1 = o1  o2 = o2
    r1 = r1  r2 = r2
    u1 = u1  u2 = u2
    Requests = {r1, r2}
    OrderIDs = {o1}
    Users = {u1, u2}
    Expiries = {1, 3}
    Batches <- SingleBatch
    RefundPeriod = 1
    MaxTime = 4
    NoOrder = NoOrder
    NoRequest = NoRequest
    NoUser = NoUser
SYMMETRY RequestSymmetry
INVARIANTS PackagingAgrees RowsConsistent
PROPERTIES AcceptedOnce DatesWrittenOnce Implements
