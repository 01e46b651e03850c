SPECIFICATION Spec
CONSTANTS
    Size <- MCSize
    Block = 2
    Mod = 2
    MaxErrors = 1
    MaxTry = 2
    Cap = 2
    MaxFault = 2
INVARIANTS InOrder DoneIsWhole
PROPERTIES SessionEnds
