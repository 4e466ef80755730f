SPECIFICATION Spec
CONSTANTS
    Threads = {t1}
    NoThread = NoThread
    MaxEvents = 2
    MaxFaults = 0
INVARIANT MovedFilesAreImported
CHECK_DEADLOCK FALSE
