CONSTANTS
    MaxRuns = 3
    MaxQueue = 2
    MaxCost = 3
    Kinds = {"push", "pull", "game"}
SPECIFICATION Spec
INVARIANTS
    HandleKept
    LoopTurns
    PaneIsOwners
    KeysFollow
PROPERTY TickForOwner
