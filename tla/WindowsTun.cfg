SPECIFICATION Spec
CONSTANTS
  Client = {c1, c2}
  Target = {t1}
  Replaces = FALSE
  Prefix = {n1}
  MaxSessions = 2
SYMMETRY Symmetry
INVARIANTS
  NoRevival
  BypassTracked
  RoutedUnlessStale
