SPECIFICATION Spec
CONSTANTS
  Handler = {h1, h2}
  Watchdog = {w1, w2}
  Cleaner = cleaner
  Call = {c1}
  Other = {o1}
  NoOne = noone
  ReadyTicks = 1
  PaperFlux = FALSE
  MayDrop = TRUE
CONSTRAINT CallsOfSessions
SYMMETRY Symmetry
INVARIANTS
  OneSupervisor
  CallsTracked
  RestIsClean
  EventsSettle
PROPERTY ImplementsTunnelSession
