SPECIFICATION Spec
CONSTANTS
    X = X
    E = E
    Axis = {X, E}
    Extruder = E
    EndStop <- MCEndStop
    Moves <- MCMoves
    Advance <- MCAdvance
    MaxLoad = 2
INVARIANTS
    TypeOK
    OnTheLine
    ArriveTogether
    DoneUnlessCut
    
    ExtruderOwesUnlessLost
PROPERTIES
    CutOffStaysStill
    MotionEnds
