SPECIFICATION Spec
CONSTANTS
    TimeRange = 21
    UsartPeriod = 8
    AdcPeriod = 4
    Tick = 2
    MaxStall = 3
    Samples = {0, 400, 1023}
    TempUnit = 1000
    TextLength = 2
INVARIANTS
    TypeOK
    OnSchedule
    ClockIsExact
    PeripheralsAsIntended
    OwnSamplesOnly
    WritesLandAsNamed
    ReadingsInRange
PROPERTIES
    TasksArePeriodic
    BootInOrder
    FailureIsReported
    KeepsReporting
\* The program never stops.
