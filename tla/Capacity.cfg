\* Windows of three seconds: limits changed, clock set, restarts.
CONSTANTS
    Window = 3
    Limits = {0, 700}
    Powers <- MCPowers
    Months <- MCMonths
SPECIFICATION Spec
INVARIANTS
    TypeOK
    WindowWithinLimit
    PeakCoversMonth
