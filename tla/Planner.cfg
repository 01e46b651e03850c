SPECIFICATION Spec
CONSTANTS
    Motion <- MCMotion
    Junction = {0, 9}
    Floor = 1
    Base = 1
    Spread = 3
    Room = 4
    MaxMotion = 5
INVARIANTS  PlanFeasible
