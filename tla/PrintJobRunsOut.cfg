SPECIFICATION Spec
CONSTANTS
    Thread = {t1, t2, t3}
    NoThread = NoThread
    MaxJob = 2
    Lines = 2
    Room = 2
PROPERTIES
    PrintRunsOut
