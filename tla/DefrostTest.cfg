SPECIFICATION Spec
CONSTANTS
    Compartments = {"Freezer", "FreshFood"}
    Evaporators = {"Freezer", "FreshFood"}
    NormalLimit = 1
    AbnormalLimit = 0
    SabbathLimit = 2
    MaxOnTime = 3
    MaxOnTimeInvalid = 2
    AbnormalOnTime = 1
    AsFreezerMaxOnTimeInvalid = 2
    AsFreezerAbnormalOnTime = 2
    TestRequests = {"Disable", "Enable", "Idle", "ExitDefrostHeaterOnState", "Defrost", "SecondaryOnlyDefrost", "Prechill", "SecondaryOnlyPrechill", "AhamPrechill", "AhamSecondaryOnlyPrechill"}
    FailingThermistors = {"FreezerCabinet"}
    MovingFlags = {"ready"}
    CoolingCanStop = TRUE
    PowerCanFail = FALSE
    CountBound = 2
INVARIANTS
    StatesAreLeftClean
