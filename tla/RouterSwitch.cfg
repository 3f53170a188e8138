SPECIFICATION Spec
CONSTANTS
  Router = {r1, r2}
  Task = {f1, f2}
  Local = localhost
  None = None
  Protocols = {"CSQTT", "CSQTT 2.1.9", "CSQTT 2.5.1"}
  MaxRestarts = 1
SYMMETRY Symmetry
INVARIANTS
  ActiveCompatible
  ListIsStored
