SPECIFICATION FairDagSpec
CONSTANTS
    b1 = b1
    b2 = b2
    r1 = r1
    r2 = r2
    p1 = p1
    load = load
    reconcile = reconcile
    Batches = {b1, b2}
    Runs = {r1, r2}
    Partitions = {p1}
    Tasks = {load, reconcile}
    Phases <- MCPhases
    ReconcileTask = reconcile
    None = None
    MaxObjects = 1
    LedgerOutcomes = {TRUE}
    Retries = 1
    MaxFaults = 1
CHECK_DEADLOCK FALSE
INVARIANTS
    DagTypeOK
    PublishedWasLoaded
    RunsAgreeWithAttempts

    
