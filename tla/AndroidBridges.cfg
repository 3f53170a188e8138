INIT AndroidInit
NEXT AndroidNext
CONSTANTS
  Flow = {f1, f2}
  Closer = {c1}
  NoFlow = none
  Required = 1
  MaxFaults = 0
INVARIANT TunIsServed
