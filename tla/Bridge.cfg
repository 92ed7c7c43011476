CONSTANTS
    Tasks = {Timer10ms, Timer1S, loop}
    TwoWay = {ErrorFlags, BalancedState}
    Settings = {MaxCurrent}
    Inner = {StateTimer}
    Direct = {BalancedState, MaxCurrent}
    MaxUpdates = 2
    NoTask = NoTask
SPECIFICATION Spec
INVARIANTS
    TypeOK
    SnapshotIsTrue
PROPERTIES
    ImplementsAtomic
    CallsReturn
