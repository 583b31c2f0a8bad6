SPECIFICATION Spec
CONSTANTS
    DefrostDoors = {d1, d2}
    DoorFactor <- MCDoorFactor
    UpdatePeriod = 2
    MinimumTime = 3
    MaximumTime = 5
    AhamTime = 1
    HasConvertibleCompartment = FALSE
    DefrostConditions = {"freezer defrost was abnormal",
        "convertible compartment defrost was abnormal"}
    TimeCap = 7
    TimeBetweenSabbathDefrosts = 3
    MaxEnhancedSabbathTime = 4
    PolicyDoors = {d1, d2}
    PrechillTimeCap = 3
    OpenTimeout = TRUE
    IceRateSpeed = 2
    StartIntegration = 2
    FreezeInitiation = 1
    MinimumFreezeTime = 2
    TargetIntegration = 5
    IntegrationCap = 6
    ValvePositionStep <- MCValvePositionStep
    ServicePosition = "D"
    FanFaultTimeout = 2
    CheckCap = 3
    GridLineData <- MCGridLineData
    NumberOfPreviousGridBlocksToStore = 2
    InvalidThermistorIndex = 1
    GridTemperatures <- MCGridTemperatures
    SetpointShifts <- MCSetpointShifts
INVARIANTS
    DefrostTimeIsKept
    SabbathGoesOn
    PoliciesFollowTheirConditions
    SealedSystemIsInStep
    AirPathIsInStep
    GridVotesBelongTogether
    GridBlocksAreAHistory
PROPERTY
    SealedSystemIsSpared
