\* A change of an order on its way to the consumer, sent up to twice.
SPECIFICATION FairTrailSpec
CONSTANTS
    s1 = s1
    ApiEvents = {}
    StatusEvents = {s1}
    Capacity = 1
    BatchLimit = 2
    MaxLog = 2
    NoOffset = NoOffset
INVARIANTS NothingSkipped NothingVanishes
PROPERTIES NoRedelivery Delivered RecordedOrGivenUp
