SPECIFICATION Spec
SYMMETRY Symmetric
CONSTANTS
    Manifests <- ManifestsDef
    Old <- OldDef
    OldLabel = "mining"
    Workers = {w1, w2}
    MaxBuilds = 2
    Share <- ShareDef
    Nil = Nil
    Error = Error
INVARIANTS OutcomeOnDisk SplitSound
PROPERTIES KeptUntilReady
CHECK_DEADLOCK FALSE
