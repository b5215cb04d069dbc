\* Two instances in one directory; two signals, one crash or failing fork.
CONSTANTS
    Instances = {a, b}
    MaxSignals = 2
    MaxCrashes = 1
SPECIFICATION Spec
CHECK_DEADLOCK FALSE
INVARIANTS TypeOK CleanStopLeavesNothing
PROPERTIES AskedEnds UndisturbedServes
