\* A user's index under accepts and readers, without failures.
SPECIFICATION FairSpec
CONSTANTS
    o1 = o1  o2 = o2  u1 = u1  u2 = u2  p1 = p1  p2 = p2
    OrderIDs = {o1, o2}
    Users = {u1}
    Procs = {p1, p2}
    Refresher = Refresher
    AllActive = AllActive
    History = History
    MaxGen = 1
    Calls = {"accept", "user"}
    Faults = FALSE
PROPERTIES Listed
