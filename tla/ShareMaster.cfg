\* A node that connected before the master, a shortage, and time to settle.
CONSTANTS
    N = 2
    MinCurrent = 2
    BalancedMax <- MCMaxima
    MaxDelta = 1
    Rooms = {0, 3, 4}
    Strategies = {"FIRST_CONNECTED"}
    IdleTimeout = 1
    RotationInterval = 2
    NoCurrentThreshold = 1
    Settling = 3
SPECIFICATION Spec
INVARIANTS
    PausedOffersNothing
