SPECIFICATION Spec
CONSTANTS
  Threads = {t1, t2}
  Owners = {o1, o2}
  Kernels = {k1, k2}
  Names = {n1}
  Images = {w, f, c1, c2}
  w = w
  f = f
  c1 = c1
  c2 = c2
  n1 = n1
  Format <- MCFormat
  Inner <- MCInner
  Compiled <- MCCompiled
  Sections <- MCSections
  Loadable = {w, c2}
  MaxCalls = 4
  Nil = Nil
SYMMETRY Alike
INVARIANTS
  AttributionExact
PROPERTY LaunchFollowsCode
