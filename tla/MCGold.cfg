SPECIFICATION Spec
CONSTANTS
    Lifecycle = Lifecycle
    Relation = Relation
    Application = Application
    Loan = Loan
    b1 = b1
    b2 = b2
    Batches = {b1, b2}
    None = None
    TimeOf <- MCTimes
SYMMETRY Symmetry
CHECK_DEADLOCK FALSE
INVARIANTS
    TypeOK
    
    GoldNeverFallsBehind
