SPECIFICATION Spec
CONSTANTS
    Threads = {t1}
    Roots = {t1}
    NoThread = NoThread
    Calls = {c1}
    NoCall = NoCall
    MaxItems = 3
    MaxToolCalls = 2
    MaxEvidence = 2
    MaxBytes = 5
    MaxEvents = 15
    MaxRestarted = 0
    MaxDetours = 0
    TurnSlots = 1
    MaxOpen = 1
INVARIANT NothingForgotten
CHECK_DEADLOCK FALSE
