\* The build with the modem, alone: both modes, contactor 2 absent or switched, an API
\* meter, OCPP limits and a residual current monitor.
CONSTANTS
    LoadBl = 0
    ModemEnabled = TRUE
    RfidLock = FALSE
    MainsMeterType = "api"
    EVMeterPresent = FALSE
    MaxSumMainsTime = 0
    Debounce = 0
    C1Grace = 1
    DelayC1 = 1
    DelayB1 = 1
    CHARGEDELAY = 1
    PilotOff = 0
    RFIDLOCKTIME = 1
    ActivationDelay = 0
    ActivationPulse = 0
    COMM_TIMEOUT = 1
    COMM_EVTIMEOUT = 1
    NoCurrentThreshold = 2
    NoCurrentMax = 2
    ModemDoneTime = 1
    ModemLeaveTime = 1
    ModemDeniedTime = 1
    ApiStaleTime = 1
    ByteValues = 2
    PilotReadings = {"12V", "9V", "6V", "DIODE", "SHORT"}
    GridReadings <- MCPlainGrids
    AvailReadings <- MCAnyAvail
    TempReadings = {"cool"}
    C2Choices = {"NOT_PRESENT", "AUTO"}
    Modes = {"NORMAL", "SMART"}
    ModeChoices = {"NORMAL", "SMART"}
    EvccidReadings = {TRUE}
    Buttons = {}
    OcppMode = TRUE
    AccessChoices = {"ON", "OFF"}
    RcmPresent = TRUE
SPECIFICATION Spec
INVARIANTS
    
    NoChargeOnFault
