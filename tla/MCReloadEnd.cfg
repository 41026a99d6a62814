SPECIFICATION ReloadSpec
CONSTANTS
    PartDuration = 4
    SegmentDurationMs = 4
    TicksPerMs = 2
    PlaylistWindow = 2
    FragmentDurations = {5}
    KeyFlags = {TRUE}
    MaxFragments = 4
    Requests = {r1, r2}
    MaxTarget = 3
    MaxPart = 1
INVARIANT EndWakesEveryWaiter
CHECK_DEADLOCK FALSE
