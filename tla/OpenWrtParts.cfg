SPECIFICATION MCSpec
CONSTANTS
  MaxCopies = 2
  MaxKills = 2
  MaxStuck = 2
  Segment = 3
  Overhead = 1
  MaxLine = 2
  Prefix = 1
  MaxLegacy = 2
  MaxRecorded = 3
  MaxFaults = 2
  MaxStops = 1
INVARIANTS
  RemainsCleared
  SelectionNeedsPolicy
  CoreNeverRecurses
  GivenBack
  ReadInOrder
  ClearedForGood
PROPERTIES
  GenerationKept
