SPECIFICATION FairSpec
CONSTANTS
    Threads = {t1, t2}
    NoThread = NoThread
    MaxEvents = 4
    MaxFaults = 2
INVARIANTS FilesStayReadable AckedEventsKept UnimportedIsLater
PROPERTIES FilesAreLogs RepeatedMigrationFinishes
CHECK_DEADLOCK FALSE
