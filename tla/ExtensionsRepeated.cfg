SPECIFICATION Spec
CONSTANTS
    Calls = {}
    Setup = Setup
    NoOne = NoOne
    MaxNotices = 0
    Jobs = {j1}
    Restarts = 2
    a = a
    b = b
    padded = padded
    Configs <- MCConfigs
    Unregistrable = {padded}
INVARIANT SideEffectNotRepeated
CHECK_DEADLOCK FALSE
