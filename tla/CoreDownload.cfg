SPECIFICATION Spec
CONSTANTS
  Request = {r1, r2}
  Connection = connect
  MaxVersion = 2
SYMMETRY Symmetry
INVARIANTS
  InstalledCore
  FlagReleased
