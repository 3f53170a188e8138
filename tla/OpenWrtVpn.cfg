SPECIFICATION Spec
CONSTANTS
  Handler = {h1, h2}
  Watchdog = {w1, w2}
  Cleaner = cleaner
  Call = {c1}
  NoOne = noone
SYMMETRY Symmetry
INVARIANTS
  KnownCallsTracked
  ConnectStartsClean
PROPERTY ImplementsTunnelSession
