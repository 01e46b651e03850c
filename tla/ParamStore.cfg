SPECIFICATION Spec
CONSTANTS
    Offset = {0, 1, 2}
    MaxCall = 7
INVARIANTS PromiseKept
PROPERTIES LoadTakesFile
