SPECIFICATION Spec
CONSTANTS
    N = 4
    MaxMotion = 6
INVARIANTS
    TypeOK
    FifoOrder
    RunningSlotKept
    LoadExclusive
    NoStrandedMotion
    SleeperHasEngine
PROPERTIES
    OverrunOnlyAtBoot
    WaitOkMeansOff
    ImplementsQueue
    QueuedIsStarted
    CallsReturn
    WaiterResumes
