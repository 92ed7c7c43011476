\* The master and a node: admission, shortage, smoothing, rotation.
CONSTANTS
    N = 2
    MinCurrent = 2
    BalancedMax <- MCMaxima
    MaxDelta = 1
    Rooms = {0, 3, 4}
    Strategies = {"FIRST_CONNECTED"}
    IdleTimeout = 1
    RotationInterval = 2
    NoCurrentThreshold = 1
    Settling = 3
SPECIFICATION Spec
INVARIANTS
    TypeOK
    RoomIsShared
    SharesAreEven
    
