SPECIFICATION DeliverySpec
CONSTANTS
    PartDuration = 45000
    SegmentDurationMs = 1750
    TicksPerMs = 90
    PlaylistWindow = 6
    FragmentDurations <- MCFragmentDurations
    KeyFlags = {TRUE, FALSE}
    MaxFragments = 6
    Emitted <- MCEmitted
INVARIANTS
    ParsedAsWritten
    DeliveryTypeOK
    SkipsOnlyPastTheBoundary
    ListedStaysServed
    HintIsTheNextPart
PROPERTY ReloadShowsTheWindow
CHECK_DEADLOCK FALSE
