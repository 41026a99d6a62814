SPECIFICATION Spec
CONSTANTS
    Ids = {a}
    Callers = {c1, c2}
    MaxSessions = 1
    MaxFragments = 1
INVARIANT
    CallsUseLiveHandles
SYMMETRY Symmetry
CHECK_DEADLOCK FALSE
