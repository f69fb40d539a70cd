CONSTANTS
    seed1 = seed1
    seed2 = seed2
    Seeds = {seed1, seed2}
    Yields = {0, 2}
    Capacity = 3
    MinimumIncrease = 3
    Loads = {0, 1}
    Configurations <- MCConfigurations
SPECIFICATION Spec
INVARIANT AcceptorStopped
CHECK_DEADLOCK FALSE
