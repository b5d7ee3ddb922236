SPECIFICATION ButtonSpec
CONSTANTS
    LateIrq = FALSE
    MaxPresses = 10
    Kinds = {"thread", "work", "timer"}
INVARIANTS
    ButtonTypeOK
    NoUseAfterFree
PROPERTIES
    AllImplementHalf
    EveryPressAnswered
    EveryRemoveReturns
\* The driver is unloaded once.
CHECK_DEADLOCK FALSE
