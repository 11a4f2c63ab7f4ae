SPECIFICATION ExperimentsSpec
CONSTANTS
    Scores = {10, 60, 100}
    History = 2
    MeanThreshold = 60
    MaxThreshold = 80
    Corpora <- MCCorpora
    Length <- MCLength
    ContentWindow = 3
    Strides = {1, 2, 3}
    Mining <- MCMining
    Means = {0, 50, 100}
    MaxFpr = 50
    MaxRuns = 3
    MaxTicks = 2
INVARIANTS ChunksExact ReportExact ManifestTrue ThresholdBest
PROPERTIES DecidesLikeDeployment RecordingEnds
CHECK_DEADLOCK FALSE
