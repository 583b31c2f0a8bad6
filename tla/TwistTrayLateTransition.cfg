SPECIFICATION Spec
CONSTANTS
    LongMotorErrorTimeout = 8
    ShortMotorErrorTimeout = 4
    HomePositionLandingDelayPeriod = 2
    FullBucketDetectionPeriod = 3
    InitialHomingTwistPeriod = 2
    StoppingPeriod = 3
    PollPeriod = 2
INVARIANTS
    MotorRunsOnlyWhenEnabled
