SPECIFICATION Spec
CONSTANTS
  Streams = {s1, s2}
  Launches <- MCLaunches
  Budget = 4
  MaxLaunches = 5
SYMMETRY StreamSymmetry
INVARIANTS
  WindowDescribesLaunches
  NoLaunchUnseen
