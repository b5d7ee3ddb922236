SPECIFICATION Spec
CONSTANTS
    LateIrq = TRUE
    MaxPresses = 2
INVARIANTS
    NoWorkAfterFree
\* The driver is unloaded once.
CHECK_DEADLOCK FALSE
