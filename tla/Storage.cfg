SPECIFICATION Spec
CONSTANTS
    MemorySize = 4
    PageSize = 2
    MaxRetryCount = 2
    Data = {"new"}
PROPERTIES
    DriversKeepThePromise
    JobsEnd
