\* A ring of two records that wraps, identifiers that are used up, one car.
CONSTANTS
    SESSION_HISTORY_MAX = 2
    MaxId = 3
    None = None
    Torn = Torn
SPECIFICATION Spec
INVARIANTS
    TypeOK
    
    IdsIncrease
PROPERTIES
    ImplementsHistory
    LastIsReported
