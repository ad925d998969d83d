SPECIFICATION FairSpec
CONSTANTS
    Event = {e1, e2}
    Caller = {c1, c2}
    MaxEvents = 4
    MaxFailures = 2
INVARIANTS
    TypeOK
    RetainedInOrder
    FlushMeansDurable
    NothingStranded
PROPERTIES
    ImplementsOrderedSink
    EventuallyDurable
