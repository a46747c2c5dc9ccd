CONSTANTS
    Names <- MCNames
    ClassNames <- MCClassNames
    Sources <- MCSources
    VarSources <- MCVarSources
    Inits <- MCVarSources
    VarNull = "nul"
    NoDecl = "none"
    Loadable <- MCLoadable
    Batches <- MCBatches
SPECIFICATION Spec
INVARIANT NeverWedged
