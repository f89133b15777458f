SPECIFICATION Spec
CONSTANTS
  Agents = {rex, nova}
  Amounts = {1}
  MAX_IN_MEMORY = 2
  Limit = 1
  MIDNIGHT = 1
  MaxNow = 2
  MaxEntries = 3
SYMMETRY Alike
INVARIANTS
  TypeOK
  VolumeUpToEviction
  PagesMissNothing
