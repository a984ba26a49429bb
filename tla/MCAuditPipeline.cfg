\* One channel under pressure: three events, room for one, batches of two.
SPECIFICATION FairSpec
CONSTANTS
    s1 = s1  s2 = s2  s3 = s3
    ApiEvents = {}
    StatusEvents = {s1, s2, s3}
    Capacity = 1
    BatchLimit = 2
INVARIANTS TypeOK SavedOnce Accounted
PROPERTIES Drained
