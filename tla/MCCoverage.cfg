SPECIFICATION Spec
CONSTANTS
    b1 = b1
    b2 = b2
    b3 = b3
    r1 = r1
    r2 = r2
    r3 = r3
    p1 = p1
    reconcile = reconcile
    Batches = {b1, b2, b3}
    Runs = {r1, r2, r3}
    Partitions = {p1}
    Tasks = {reconcile}
    ReconcileTask = reconcile
    None = None
    MaxObjects = 3
    LedgerOutcomes = {TRUE}
SYMMETRY Symmetry
CHECK_DEADLOCK FALSE
INVARIANTS
    PublishedWithoutGap
PROPERTIES
    ImplementsFeed
