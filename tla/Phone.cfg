SPECIFICATION Spec
CONSTANTS
  Flow = {f1, f2}
  Closer = {c1}
  NoFlow = none
  Required = 1
  MaxFaults = 1
  ActiveLines = 3
  Host = {h1, h2}
  Local = h1
  Request = {r1, r2}
  MaxChanges = 2
  MaxFailures = 1
  MaxQueue = 2
INVARIANTS
  ScreenOffCloses
PROPERTIES
  TunReturns
  TunnelSettles
  ShownCatchesUp
