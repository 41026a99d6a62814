SPECIFICATION ReloadSpec
CONSTANTS
    PartDuration = 4
    SegmentDurationMs = 4
    TicksPerMs = 2
    PlaylistWindow = 2
    FragmentDurations = {5}
    KeyFlags = {TRUE}
    MaxFragments = 5
    Requests = {r1, r2}
    MaxTarget = 4
    MaxPart = 1
INVARIANTS
    ReloadTypeOK
    ServesOnlyWhatIsThere
    HintedPartIsNotDenied
    NobodySleepsOverMedia
    ExpiredSleeperHasAlarm
SYMMETRY Symmetry
CHECK_DEADLOCK FALSE
