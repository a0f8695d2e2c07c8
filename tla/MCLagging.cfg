SPECIFICATION Spec
CONSTANTS
    b1 = b1
    b2 = b2
    b3 = b3
    r1 = r1
    r2 = r2
    r3 = r3
    p1 = p1
    p2 = p2
    reconcile = reconcile
    Batches = {b1, b2, b3}
    Runs = {r1, r2, r3}
    Partitions = {p1, p2}
    Tasks = {reconcile}
    ReconcileTask = reconcile
    None = None
    MaxObjects = 1
    LedgerOutcomes = {TRUE}
SYMMETRY Symmetry
CHECK_DEADLOCK FALSE
INVARIANTS
    PublishedOnce
    ExclusionIsALastResort
