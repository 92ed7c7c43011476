\* A node and its master: late, lost and outdated writes; heat.
CONSTANTS
    LoadBl = 2
    ModemEnabled = FALSE
    RfidLock = FALSE
    MainsMeterType = "none"
    EVMeterPresent = FALSE
    MaxSumMainsTime = 0
    Debounce = 0
    C1Grace = 1
    DelayC1 = 1
    DelayB1 = 1
    CHARGEDELAY = 1
    PilotOff = 0
    RFIDLOCKTIME = 1
    ActivationDelay = 0
    ActivationPulse = 0
    COMM_TIMEOUT = 1
    COMM_EVTIMEOUT = 1
    NoCurrentThreshold = 2
    NoCurrentMax = 2
    ModemDoneTime = 1
    ModemLeaveTime = 1
    ModemDeniedTime = 1
    ApiStaleTime = 1
    ByteValues = 2
    PilotReadings = {"12V", "9V", "6V", "DIODE"}
    GridReadings <- MCNoGrid
    AvailReadings <- MCNoAvail
    TempReadings = {"cool", "hot"}
    C2Choices = {"NOT_PRESENT"}
    Modes = {"SMART"}
    ModeChoices = {"SMART"}
    EvccidReadings = {TRUE}
    Buttons = {}
    OcppMode = FALSE
    AccessChoices = {"ON", "OFF"}
    RcmPresent = FALSE
    OnlineMax = 2
    MasterFlags = {{}}
SPECIFICATION NodeSpec
INVARIANTS
    NodeTypeOK
    
    NodeContactorFollows
    
