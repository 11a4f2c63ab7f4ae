SPECIFICATION Spec
CONSTANTS
    Workers = {w1, w2}
    Codes = {c1, c2}
    c1 = c1
    c2 = c2
    f = f
    g = g
    x = x
    Nil = Nil
    Torn = Torn
    Functions <- FunctionsDef
    Launches <- LaunchesDef
    SafeName <- SafeNameDef
    Canonical <- CanonicalDef
    Overlap <- OverlapDef
    MaxMessages = 4
    MaxCrashes = 1
INVARIANTS ArtifactOfOwnCode
PROPERTIES LaunchResolution FailureExplained AnalysesEnd
CHECK_DEADLOCK FALSE
