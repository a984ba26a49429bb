\* The history when nothing of it is cached.
SPECIFICATION Spec
CONSTANTS
    o1 = o1  o2 = o2  u1 = u1  u2 = u2  p1 = p1  p2 = p2
    OrderIDs = {o1}
    Users = {u1}
    Procs = {p1}
    Refresher = Refresher
    AllActive = AllActive
    History = History
    MaxGen = 1
    Calls = {"accept", "history"}
    Faults = FALSE
PROPERTIES HistoryServed
