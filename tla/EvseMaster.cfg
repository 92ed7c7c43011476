\* A load balancing master, or an EVSE alone: Smart mode, two meters, RFID lock.
CONSTANTS
    LoadBl = 1
    ModemEnabled = FALSE
    RfidLock = TRUE
    MainsMeterType = "sensorbox"
    EVMeterPresent = TRUE
    MaxSumMainsTime = 1
    Debounce = 1
    C1Grace = 1
    DelayC1 = 2
    DelayB1 = 1
    CHARGEDELAY = 2
    PilotOff = 1
    RFIDLOCKTIME = 1
    ActivationDelay = 1
    ActivationPulse = 1
    COMM_TIMEOUT = 1
    COMM_EVTIMEOUT = 1
    NoCurrentThreshold = 2
    NoCurrentMax = 2
    ModemDoneTime = 1
    ModemLeaveTime = 1
    ModemDeniedTime = 1
    ApiStaleTime = 1
    ByteValues = 3
    PilotReadings = {"12V", "9V", "6V", "DIODE"}
    GridReadings <- MCMasterGrids
    AvailReadings <- MCAnyAvail
    TempReadings = {"cool"}
    C2Choices = {"NOT_PRESENT"}
    Modes = {"SMART"}
    ModeChoices = {"SMART"}
    EvccidReadings = {TRUE}
    Buttons = {"stop", "menu"}
    OcppMode = FALSE
    AccessChoices = {"ON", "OFF"}
    RcmPresent = FALSE
SPECIFICATION Spec
INVARIANTS
    TypeOK
    ContactorFollowsState
    
    NoChargeOnFault
    NoChargeWithoutAccess
    DiodeSeenBeforeCharge
    FloatingPilotIsNotRead
PROPERTIES
    AccessEndsWithSession
    ImplementsChargePoint
