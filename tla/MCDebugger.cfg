CONSTANTS
    MaxStops = 2
    MaxActs = 2
SPECIFICATION DebugSpec
INVARIANTS
    HoldIsStop
PROPERTIES
    SkippedStopEnds
    OtherStopShows
    VerbAnswered
CHECK_DEADLOCK FALSE
