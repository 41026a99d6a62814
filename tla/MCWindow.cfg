SPECIFICATION Spec
CONSTANTS
    PartDuration = 4
    SegmentDurationMs = 4
    TicksPerMs = 2
    PlaylistWindow = 3
    FragmentDurations = {5}
    KeyFlags = {TRUE}
    MaxFragments = 7
INVARIANT KeepsPlaylistWindow
CHECK_DEADLOCK FALSE
