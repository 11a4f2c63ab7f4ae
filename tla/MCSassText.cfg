SPECIFICATION TextSpec
CONSTANTS
    KernelTexts <- KernelTextsDef
    SmallKernel = 2
    MinRegion = 2
    TargetRegion = 2
    MaxRegion = 3
    BodyBudget = 8
    ContentBudget = 5
    ShortKernel = 2
INVARIANTS CfgFaithful MainLoopSound SegmentsExact
CHECK_DEADLOCK FALSE
