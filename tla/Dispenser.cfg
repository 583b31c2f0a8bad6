SPECIFICATION Spec
CONSTANTS
    Doors <- MCDoors
    WaterDoors <- MCWaterDoors
    IceDoors <- MCIceDoors
    ContinueWait = 2
    MaximumDispenseTime = 4
INVARIANTS
    DispenseIsConsistent
PROPERTIES
    EveryDispenseEnds
