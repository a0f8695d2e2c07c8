SPECIFICATION Spec
CONSTANTS
    e1 = e1
    v1 = v1
    v2 = v2
    b1 = b1
    b2 = b2
    j1 = j1
    j2 = j2
    details = details
    status = status
    Active = Active
    Deleted = Deleted
    None = None
    Entities = {e1}
    Values = {v1, v2}
    Events <- SmallEvents
    Tables = {details, status}
    Jobs = {j1, j2}
    Batches = {b1, b2}
    MaxEvents = 3
SYMMETRY Symmetry
CHECK_DEADLOCK FALSE
INVARIANTS
    TypeOK
    SatelliteIsHistory
    OneRowPerEvent
    
PROPERTIES
    PublishedRowsAreFinal
