SPECIFICATION FairSpec
CONSTANTS
    Calls = {c1, c2}
    Setup = Setup
    NoOne = NoOne
    MaxNotices = 1
    Jobs = {j1}
    Restarts = 2
    a = a
    b = b
    padded = padded
    Configs <- MCConfigs
    Unregistrable = {padded}
INVARIANTS TypeOK AnswerIsOwn LostOnlyByCut NoChildLeftBehind SummariesOwnTheirTools UnaskedToolsObserve
PROPERTIES StartupEndsOrAwaits CallsEnd JobsEnd
CHECK_DEADLOCK FALSE
