SPECIFICATION Spec
CONSTANTS
  Items = {1, 2}
  Runs = {r1, r2}
  Recoverers = {c1}
  NeedsReview = {1}
  BadManifest = {}
  MaxItems = 2
  Overlap = FALSE
  TornWrites = FALSE
  Faults = {}
  MaxMishaps = 1
  NoFile = NoFile
  Torn = Torn
  None = None
  r1 = r1
  r2 = r2
  c1 = c1
SYMMETRY RunSymmetry
INVARIANT ReviewRequested
CHECK_DEADLOCK FALSE
