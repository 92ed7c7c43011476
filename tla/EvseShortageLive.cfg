\* The build with the modem, in a lasting shortage on the mains, regulated every cycle.
CONSTANTS
    LoadBl = 0
    ModemEnabled = TRUE
    RfidLock = FALSE
    MainsMeterType = "sensorbox"
    EVMeterPresent = FALSE
    MaxSumMainsTime = 2
    Debounce = 0
    C1Grace = 1
    DelayC1 = 1
    DelayB1 = 1
    CHARGEDELAY = 1
    PilotOff = 0
    RFIDLOCKTIME = 1
    ActivationDelay = 0
    ActivationPulse = 0
    COMM_TIMEOUT = 1
    COMM_EVTIMEOUT = 1
    NoCurrentThreshold = 2
    NoCurrentMax = 2
    ModemDoneTime = 1
    ModemLeaveTime = 1
    ModemDeniedTime = 1
    ApiStaleTime = 1
    ByteValues = 2
    PilotReadings = {"12V", "9V", "6V", "DIODE"}
    GridReadings <- MCShortGrids
    AvailReadings <- MCMainsShort
    TempReadings = {"cool"}
    C2Choices = {"NOT_PRESENT"}
    Modes = {"SMART"}
    ModeChoices = {}
    EvccidReadings = {TRUE, FALSE}
    Buttons = {}
    OcppMode = FALSE
    AccessChoices = {"ON", "OFF", "PAUSE"}
    RcmPresent = FALSE
SPECIFICATION LiveSpec
INVARIANTS
    IdentifiedBeforeCharge
PROPERTIES
    LastingShortageStops
    StopCompletes
