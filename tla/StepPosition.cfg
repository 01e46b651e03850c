SPECIFICATION Spec
CONSTANTS
    X = X
    Z = Z
    Axis = {X, Z}
    MicroStep <- MCMicroStep
    Word <- MCWord
    MaxCmd = 3
INVARIANTS
    TypeOK
    StepsFollowCommands
    HardPosTrue
    MotorGoesToStep
