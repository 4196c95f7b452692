CONSTANTS
  Handles = {a, b}
  Nothing = nothing
  Jobs = {j1, j2}
  Threads = 1
SPECIFICATION NFairSpec
INVARIANTS WrappersHold SafeUnlessHasty
PROPERTIES BehavesLikeHost StepsSettle
