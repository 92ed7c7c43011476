\* The node's own tasks, with a master and a bus of which nothing is assumed.
CONSTANTS
    LoadBl = 2
    ModemEnabled = FALSE
    RfidLock = FALSE
    MainsMeterType = "none"
    EVMeterPresent = FALSE
    MaxSumMainsTime = 0
    Debounce = 0
    C1Grace = 1
    DelayC1 = 1
    DelayB1 = 1
    CHARGEDELAY = 1
    PilotOff = 0
    RFIDLOCKTIME = 1
    ActivationDelay = 0
    ActivationPulse = 0
    COMM_TIMEOUT = 1
    COMM_EVTIMEOUT = 1
    NoCurrentThreshold = 2
    NoCurrentMax = 2
    ModemDoneTime = 1
    ModemLeaveTime = 1
    ModemDeniedTime = 1
    ApiStaleTime = 1
    ByteValues = 2
    PilotReadings = {"9V", "6V", "DIODE"}
    GridReadings <- MCNoGrid
    AvailReadings <- MCNoAvail
    TempReadings = {"cool"}
    C2Choices = {"NOT_PRESENT"}
    Modes = {"SMART"}
    ModeChoices = {}
    EvccidReadings = {TRUE}
    Buttons = {}
    OcppMode = FALSE
    AccessChoices = {}
    RcmPresent = FALSE
    OnlineMax = 1
    MasterFlags = {}
SPECIFICATION LiveSpec
PROPERTIES
    SilenceStopsNode
    
