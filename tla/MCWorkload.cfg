SPECIFICATION Spec
CONSTANTS
    w1 = w1
    w2 = w2
    None = None
    Mode <- SmallModes
    Workers = {w1, w2}
    Customers = 4
    Applications = 4
    Installments = 2
    MaxFaults = 1
CHECK_DEADLOCK FALSE
INVARIANTS
    TypeOK
    CountsAreHonest
    EveryChangeIsTracked
    CompletedRunIsWhole
    LoanBookIsSound

    
