SPECIFICATION FairSpec
CONSTANTS
    Ids = {a}
    Callers = {c1, c2}
    MaxSessions = 2
    MaxFragments = 1
PROPERTIES
    EndedStoresAreEvicted
    HandlersReturn
CHECK_DEADLOCK FALSE
