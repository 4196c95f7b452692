SPECIFICATION CSpec
CONSTANTS
  h1 = h1
  h2 = h2
  h3 = h3
  Handles <- MCHandles
  Nothing = Nothing
SYMMETRY MCSymmetry
INVARIANTS
  KeyConserved
PROPERTIES
  RetrySafe
  KeepsPromise
