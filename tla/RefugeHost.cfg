SPECIFICATION FairSpec
CONSTANTS
    MaxRuns = 2
    Ports = {1, 2}
    DEFAULT_PORT = 9
    Arguments <- SomeArguments
    NUM_SENSORS = 1
    MaxMishaps = 2
    ForeignPorts <- SomeForeignPorts
CHECK_DEADLOCK FALSE
INVARIANTS
    TypeOK
    Advertised
    FifoShared
    StartupFailures
PROPERTIES
    AlertsGetThrough
    InterruptedChildrenEnd
    ReportersEnd
