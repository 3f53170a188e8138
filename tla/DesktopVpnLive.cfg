SPECIFICATION FairSpec
CONSTANTS
  Handler = {h1, h2}
  Watchdog = {w1}
  Cleaner = cleaner
  Call = {c1}
  Other = {}
  NoOne = noone
  ReadyTicks = 1
  PaperFlux = TRUE
  MayDrop = FALSE
PROPERTIES
  RequestsAnswered
  DeadSessionReaped
  ConnectDecided
