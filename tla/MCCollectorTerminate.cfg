SPECIFICATION FairSpec
CONSTANTS
  Sessions = {s1}
  MaxConns = 2
  MaxSent = 1
  LaunchBatchSize = 2
  MaxQueuedLaunches = 2
  SendCap = 2
  VerdictCap = 1
  NoConn = NoConn
PROPERTY VerdictTerminates
