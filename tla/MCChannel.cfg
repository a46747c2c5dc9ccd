CONSTANTS
    Requests = {r1, r2}
    Timeout = 1
    MaxMishaps = 2
    MaxGens <- MCMaxGens
SPECIFICATION Spec
INVARIANTS
    OneLanguageIsolate
    PendingIsInFlight
PROPERTIES
    RespawnJustified
    KeepsPromise
    EveryAskEnds
    LanguageComesBack
CHECK_DEADLOCK FALSE
CONSTRAINT MCInOrder
