SPECIFICATION MoldSpec
CONSTANTS
    OnTemperature <- MCOnTemperature
    OffTemperature <- MCOffTemperature
    InitialMotorOnTemperature = 0
    Temperatures = {0, 1, 2}
    MaximumHarvestTemperature = 1
INVARIANTS
    MoldStateOwnsWhatItStarts
    MoldFillAndHeatAreBounded
