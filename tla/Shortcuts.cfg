SPECIFICATION ModuleSpec
CONSTANTS
  View = {panel}
  Key = {k1, k2}
  Chord = {escape}
  New = new
  Old = old
  Module = {new, old, foreign}
  NoModule = none
  Elsewhere = elsewhere
  MaxMeddling = 1
  MaxSummons = 2
INVARIANTS
  KeysRouted
  FailedLoadRestores
  AvailableTruth
PROPERTIES
  ForeignKept
  OpenEnds
