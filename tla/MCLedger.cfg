SPECIFICATION Spec
CONSTANTS
    customers = customers
    loans = loans
    None = None
    Topics = {customers, loans}
    Sessions = 2
    Shapes <- SmallShapes
    MaxCommits = 3
    MaxFaults = 1
CHECK_DEADLOCK FALSE
INVARIANTS
    TypeOK
    
    
    
    

    
