SPECIFICATION FairSpec
CONSTANTS
  Workers = {w1, w2}
  EventThread = event
  Conns = {c1, c2}
  Signatures = {sA, sB}
  Scores = {20, 95}
  MaxWindows = 2
  MaxBatch = 2
  History = 2
  MeanThreshold = 50
  MaxThreshold = 90
  NoThread = NoThread
  NoWindow = NoWindow
  NoScore = NoScore
  NoVerdict = NoVerdict
INVARIANT VerdictsKept
PROPERTIES TerminationSent WindowsResolved
