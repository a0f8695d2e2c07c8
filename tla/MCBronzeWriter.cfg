SPECIFICATION FairSpec
CONSTANTS
    w1 = w1
    w2 = w2
    p1 = p1
    Writers = {w1, w2}
    Partitions = {p1}
    None = None
    Foreign = Foreign
    Leftovers = {None, Foreign}
    Kinds = {"event", "poison"}
    MaxOffset = 3
    MaxFaults = 2
CHECK_DEADLOCK FALSE
INVARIANTS
    TypeOK
    CommittedIsPersisted
    BronzeHasNoHole
PROPERTIES
    ObjectsAreImmutable
    CatchesUp
