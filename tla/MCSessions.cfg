SPECIFICATION Spec
CONSTANTS
    Ids = {a, b}
    Callers = {c1, c2}
    MaxSessions = 3
    MaxFragments = 1
INVARIANTS
    SessionsTypeOK
    RegistriesAgree
    CallbacksAreOfLiveSessions
PROPERTIES
    NothingAfterTheEnd
    StreamsEndBeforeTheyGo
SYMMETRY Symmetry
CHECK_DEADLOCK FALSE
