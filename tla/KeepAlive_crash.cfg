\* One instance that nobody signals, one child that crashes.
CONSTANTS
    Instances = {a}
    MaxSignals = 0
    MaxCrashes = 1
SPECIFICATION Spec
CHECK_DEADLOCK FALSE
INVARIANTS KeptAlive
