\* An id accepted twice, its orders changed and read by two tasks, with all failures.
SPECIFICATION Spec
CONSTANTS
    o1 = o1  o2 = o2  u1 = u1  u2 = u2  p1 = p1  p2 = p2
    OrderIDs = {o1}
    Users = {u1}
    Procs = {p1, p2}
    Refresher = Refresher
    AllActive = AllActive
    History = History
    MaxGen = 2
    Calls = {"accept", "return", "issue", "refund", "user"}
    Faults = TRUE
SYMMETRY ProcSymmetry
INVARIANTS NeverAhead TrueToRow KeptIsOver
