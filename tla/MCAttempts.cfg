SPECIFICATION Spec
CONSTANTS
    b1 = b1
    b2 = b2
    r1 = r1
    r2 = r2
    r3 = r3
    p1 = p1
    load = load
    reconcile = reconcile
    Batches = {b1, b2}
    Runs = {r1, r2, r3}
    Partitions = {p1}
    Tasks = {load, reconcile}
    ReconcileTask = reconcile
    None = None
    MaxObjects = 1
    LedgerOutcomes = {TRUE, FALSE}
SYMMETRY Symmetry
CHECK_DEADLOCK FALSE
INVARIANTS
    TypeOK
    SingleWriter
    ReplayIsOfNewestBatch
    PublishedWasAudited
    AttemptsAreNumbered
    HistoryIsLegal
PROPERTIES
    PublishedIsFinal
