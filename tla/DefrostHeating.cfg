SPECIFICATION FairSpec
CONSTANTS
    Compartments = {"Freezer", "FreshFood"}
    Evaporators = {"Freezer", "FreshFood"}
    NormalLimit = 1
    AbnormalLimit = 0
    SabbathLimit = 1
    MaxOnTime = 3
    MaxOnTimeInvalid = 2
    AbnormalOnTime = 1
    AsFreezerMaxOnTimeInvalid = 2
    AsFreezerAbnormalOnTime = 2
    TestRequests = {"ExitDefrostHeaterOnState"}
    FailingThermistors = {"Freezer"}
    MovingFlags = {"ready"}
    CoolingCanStop = FALSE
    PowerCanFail = FALSE
    CountBound = 1
PROPERTY
    EveryDefrostEnds
