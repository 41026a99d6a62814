SPECIFICATION Spec
CONSTANTS
    PartDuration = 8
    SegmentDurationMs = 5
    TicksPerMs = 2
    PlaylistWindow = 3
    FragmentDurations = {3, 8}
    KeyFlags = {TRUE, FALSE}
    MaxFragments = 6
INVARIANTS
    TypeOK
    SegmentIsItsParts
    StreamUnbroken
    WindowIsConsecutive
    NotifierIsCurrent
    OvershootAtMostOnePart
    IndependentIsTrue
    EndedMeansSealed
    ReportedDurationsDrift
PROPERTIES
    ImplementsLiveStream
    PlaylistOnlySlides
    NotifierOnlyAdvances
CHECK_DEADLOCK FALSE
