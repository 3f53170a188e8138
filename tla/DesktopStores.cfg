SPECIFICATION Spec
CONSTANTS
  Handler = {h1, h2}
  MaxId = 3
  Client = {k1, k2}
  Text = {"text", "other"}
  MaxConfigs = 3
  Starter = {p1, p2}
  Stopper = {s1}
  Connector = connector
  Call = {c1, c2, c3}
  Worker = {0, 9, 20}
  ReadyTicks = 2
  MaxSession = 2
  MaxPrinted = 3
  MaxLogged = 4
  Link <- MCLink
  Requested = {"CSQTT", "CSQTT 2.1.9", "PaperFlux"}
  Typed <- MCTyped
  CallHashes <- MCCallHashes
SYMMETRY Symmetry
INVARIANTS
  IdentityKept
  IdsNameOneConfig
  CallsListed
  FreshReadiness
  EarlierLinesGone
  RoundTrip
  HashesReachCore
