SPECIFICATION SystemSpec
CONSTANTS
    DamperId = "Normal"
    Votes <- CaringVotes
    StepsToHome = 3
    StepsToOpen <- ScaledStepsToOpen
    StepsToClose <- ScaledStepsToClose
    FlapTravel = 2
    SubSteps = 4
    EventsBetweenSteps = 1
    ExcitationEvents = 2
INVARIANTS
    SystemInv
    StepsAreExact
    LoadsNeverRunTogether
    RestIsSettled
PROPERTIES
    ManagerSpec
    EveryRequestIsServed
