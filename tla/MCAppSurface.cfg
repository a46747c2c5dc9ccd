CONSTANTS
    Apps = {A, B}
    Quitters = {A}
    None = None
    MaxActs = 5
    MaxVersion = 2
SPECIFICATION Spec
INVARIANTS
    WindowShowsApp
    IdleIsBlank
    RebuildRestores
    EventForItsApp
PROPERTY EffectBeforeReply
CHECK_DEADLOCK FALSE
