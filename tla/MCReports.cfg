\* Walks through all listings, over two orders that come, change, go and come back.
SPECIFICATION FairSpec
CONSTANTS
    o1 = o1  o2 = o2  u1 = u1
    OrderIDs = {o1, o2}
    Users = {u1}
    Limits = {1}
    DefaultLimit = 1
    MaxSerial = 3
    MaxTime = 2
    NoCursor = NoCursor
INVARIANTS Complete NoRepeats
PROPERTIES WalkEnds
