SPECIFICATION Spec
CONSTANTS
    Threads = {t1, t2}
    Roots = {t1}
    NoThread = NoThread
    Calls = {c1}
    NoCall = NoCall
    MaxItems = 2
    MaxToolCalls = 1
    MaxEvidence = 2
    MaxBytes = 3
    MaxEvents = 14
    MaxRestarted = 0
    MaxDetours = 0
    TurnSlots = 1
    MaxOpen = 1
INVARIANT ForkSummaryCoversSameItems
CHECK_DEADLOCK FALSE
