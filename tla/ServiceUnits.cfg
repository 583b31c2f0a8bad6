SPECIFICATION Spec
CONSTANTS
    Filters = {f1, f2, plug}
    BypassPlug = plug
    UsageCap = 1
    RequestCap = 2
    MinimumRequests <- MCMinimumRequests
    RatedVolume = 4
    RatedLife = 4
    ReplacementPercent = 50
    PurgeVolume = 1
    MinimumVolume = 1
    FillDelay = 2
    MonthLength = 2
    OuncesPerGallon = 2
    CountModulus = 5
    FlowRate = 3
    TicksPerSecond = 2
    OpenTicks = 2
    TotalMaximum = 7
    LightDoors = {d1, d2}
    MinDutyCycle = 10
    MaxDutyCycle = 80
    MaximumLight = 50
    LightLevels = {0, 50, 130}
    SweatLinear <- MCSweatLinear
    SweatQuadratic <- MCSweatQuadratic
    SweatIntercept = 15700
    SweatFallback = 33
    SweatInputs <- MCSweatInputs
    PwmMax = 3
    Boards = {b1, b2}
    AndroidBoard = b2
    DiscoveryRetries = 3
    MissedLimit = 2
    MissedCap = 4
    FactoryTimes = {0, 1, 2}
    TimeModulus = 5
    PanTemperatures = {0, 1, 3, 6}
    PulldownLimit = 4
    SlopeLowerLimit = 1
    SlopeUpperLimit = 2
    DeliCoolingSpeed = 2
    StartupSpeed = 3
    CabinetSpeeds = {0, 1, 2, 3}
    PanModes = 2
    MinAllowedMode = 0
    MaxAllowedMode = 2
    DefaultMode = 1
    ModeRange <- MCModeRange
    ModeOffset <- MCModeOffset
    RequestedSetpoints = {8, 13, 23, 30}
    SetpointTable <- MCSetpointTable
    FreezerSetpoints <- MCFreezerSetpoints
    GammaTemperatures <- MCGammaTemperatures
    FreezerHysteresis <- MCFreezerHysteresis
    CabinetHysteresis <- MCCabinetHysteresis
    HeaterCoefficient <- MCHeaterCoefficient
    LowSetpoint = 34
    HighSetpoint = 42
    DefaultSetpoint = 37
    AskedSetpoints = {33, 34, 37, 42, 43}
    TurboSetpoint = 3400
    TurboTime = 3
    OtherVotes = {3600}
    SabbathSetpoint = 3900
    NoSetpointVote = 99999
    ColdBound = 3500
    WarmBound = 4000
    ZoneOffset <- MCZoneOffset
    CabinetOffset = 15
    PulldownOffset = 35
    CrossSlope = 20
    CrossMinimum <- MCCrossMinimum
    CrossMaximum = 60
    AmbientAverages = {6000, 8990, 9900}
    HumiditySetpoint = 36
    HumidityOffset = 25
    ShiftTemperatures <- MCShiftTemperatures
    ShiftSetpoints <- MCShiftSetpoints
    Beta = 3
    LowerAdjustment = 200
    UpperAdjustment = 300
    MinShift <- MCMinShift
    MaxShift = 30
    PostDefrostShift = 12
    FeedCap = 4
    Readings = {0, 100, 400, 999}
    BadReading = 999
    FallbackValue = 150
    GoodMax = 2
    BadMax = 3
    SlewLimit = 120
    RunCap = 4
    AverageCount = 3
    WriteSizes = {1, 2}
    ReadSizes = {2, 3}
    BufferSize = 4
    SequenceModulus = 6
    PacketSizes = {1, 3}
    CounterModulus = 7
    Intervals = {2, 5, 9}
    PollsToOff = 2
    OffToOnCount = 2
    OnToOffCount = 3
INVARIANTS
    RfidIsAlwaysArmed
    WaterIsCountedOnce
    ServicesFollowTheirInputs
    PanAndFanFollowTheirVotes
    TemperaturesAreConsistent
    DriversKeepTheirData
PROPERTIES
    UsageFollowsTheFilter
    AugerRelaysAreSpared
    SensorTurnsInTime
