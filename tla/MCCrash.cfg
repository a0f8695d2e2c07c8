SPECIFICATION Spec
CONSTANTS
    b1 = b1
    r1 = r1
    p1 = p1
    reconcile = reconcile
    Batches = {b1}
    Runs = {r1}
    Partitions = {p1}
    Tasks = {reconcile}
    ReconcileTask = reconcile
    None = None
    MaxObjects = 1
    LedgerOutcomes = {TRUE}
SYMMETRY Symmetry
CHECK_DEADLOCK FALSE
INVARIANTS
    CreateIsRepeatable
