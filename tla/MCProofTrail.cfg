SPECIFICATION Spec
CONSTANTS
  Agents = {rex, nova}
  Amounts = {1, 2}
  MaxRuns = 2
  MaxNow = 2
SYMMETRY Alike
INVARIANTS
  TypeOK
  FoundProofsVerify
  SwapsAreProven
  HashBindsCycle
