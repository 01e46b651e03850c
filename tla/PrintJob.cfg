SPECIFICATION Spec
CONSTANTS
    Thread = {t1, t2, t3}
    NoThread = NoThread
    MaxJob = 3
    Lines = 3
    Room = 2
INVARIANTS
    TypeOK
    SoleReader
    OwnMotionsOnly
PROPERTIES
    PrintEnds
    
