CONSTANTS
  Prime = 5
  MaxShares = 3
  Halves <- MCHalves
  NaN = nan
  Absent = absent
  Nothing = nothing
SPECIFICATION BSpec
INVARIANTS BindingsAgree RestoreSound RestoreComplete FewSharesTellNothing
