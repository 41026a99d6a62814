SPECIFICATION FairReloadSpec
CONSTANTS
    PartDuration = 4
    SegmentDurationMs = 4
    TicksPerMs = 2
    PlaylistWindow = 2
    FragmentDurations = {5}
    KeyFlags = {TRUE}
    MaxFragments = 2
    Requests = {r1, r2}
    MaxTarget = 1
    MaxPart = 0
PROPERTIES
    MediaReleasesWaiters
    ExpiredRequestsReturn
CHECK_DEADLOCK FALSE
