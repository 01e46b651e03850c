SPECIFICATION Spec
CONSTANTS
    Code = {0, 210}
    User = {230}
    Reading = {0, 19, 209, 219, 229}
    Default = 220
    MaxPress = 4
INVARIANTS OffAfterStop HeldTarget ManualIsUsers
PROPERTY WaitEnds
