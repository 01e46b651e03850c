SPECIFICATION Spec
CONSTANTS
    N = 3
    MaxMotion = 5
PROPERTIES
    TimerFollowsBuffer
