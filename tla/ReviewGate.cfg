SPECIFICATION MCSpec
CONSTANTS
  Reviews = {v1, v2}
  Spare = {v2}
  Deciders = {d1, d2, d3}
  Verdicts = {"APPROVED", "REJECTED"}
  Overlap = TRUE
  TornWrites = TRUE
  MaxMishaps = 2
  NoFile = NoFile
  Torn = Torn
  Unborn = Unborn
  None = None
  v1 = v1
  v2 = v2
  d1 = d1
  d2 = d2
  d3 = d3
SYMMETRY DeciderSymmetry
INVARIANT TypeOK
INVARIANT LeaseBacked
INVARIANT ReviewRetained
INVARIANT SerialChainLinear
PROPERTY DecisionFrozen
CHECK_DEADLOCK FALSE
