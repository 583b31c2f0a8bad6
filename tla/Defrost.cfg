SPECIFICATION Spec
CONSTANTS
    Compartments = {"Freezer", "FreshFood", "Convertible"}
    Evaporators = {"Freezer", "FreshFood", "Convertible"}
    NormalLimit = 1
    AbnormalLimit = 0
    SabbathLimit = 2
    MaxOnTime = 2
    MaxOnTimeInvalid = 1
    AbnormalOnTime = 1
    AsFreezerMaxOnTimeInvalid = 1
    AsFreezerAbnormalOnTime = 2
    TestRequests = {"Disable", "Enable"}
    FailingThermistors = {}
    MovingFlags = {"ready", "sabbath", "enhanced", "sabbathReady", "requesting"}
    CoolingCanStop = FALSE
    PowerCanFail = TRUE
    CountBound = 2
INVARIANTS
    SecondaryOnlyDefrostsAreBounded
    HeatersAreTimed
PROPERTIES
    InterruptedHeatingIsResumed
