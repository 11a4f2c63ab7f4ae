SPECIFICATION Spec
CONSTANTS
  Workers = {w1, w2}
  EventThread = event
  Conns = {}
  Signatures = {sA, sB}
  Scores = {20, 60, 95}
  MaxWindows = 4
  MaxBatch = 2
  History = 2
  MeanThreshold = 50
  MaxThreshold = 90
  NoThread = NoThread
  NoWindow = NoWindow
  NoScore = NoScore
  NoVerdict = NoVerdict
SYMMETRY PipelineSymmetry
INVARIANTS
  DecisionOnRecentWindows
  PolicyOrder
  WindowAccounted
  CacheCoherent
PROPERTY EndedSessionFrozen
