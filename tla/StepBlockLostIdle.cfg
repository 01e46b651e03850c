SPECIFICATION Spec
CONSTANTS
    N = 3
    MaxMotion = 4
INVARIANTS
    TimerOnWhenBuffered
