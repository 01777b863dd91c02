SPECIFICATION Spec
CONSTANTS
  Items = {1, 2, 3}
  Runs = {r1, r2, r3, r4}
  Recoverers = {c1}
  NeedsReview = {}
  BadManifest = {2}
  MaxItems = 2
  Overlap = FALSE
  TornWrites = TRUE
  Faults = {}
  MaxMishaps = 2
  NoFile = NoFile
  Torn = Torn
  None = None
  r1 = r1
  r2 = r2
  r3 = r3
  r4 = r4
  c1 = c1
SYMMETRY RunSymmetry
INVARIANT ItemRetained
INVARIANT CompletedIsFinal
CHECK_DEADLOCK FALSE
