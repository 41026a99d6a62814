SPECIFICATION RecordingSpec
CONSTANTS
    PartDuration = 5
    SegmentDurationMs = 3
    TicksPerMs = 2
    PlaylistWindow = 2
    FragmentDurations = {3, 7}
    KeyFlags = {TRUE}
    MaxFragments = 4
    MaxSessions = 2
    MaxFailures = 1
INVARIANTS
    RecordingTypeOK
    ListedIsRecorded
    FinishedIsComplete
    AvailableIsOnDisk
PROPERTY ImplementsArchive
CHECK_DEADLOCK FALSE
