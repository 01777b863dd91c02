SPECIFICATION Spec
CONSTANTS
  Items = {1, 2}
  Runs = {r1, r2, r3}
  Recoverers = {}
  NeedsReview = {1}
  BadManifest = {}
  MaxItems = 2
  Overlap = TRUE
  TornWrites = FALSE
  Faults = {"working", "completing", "emitting", "recording"}
  MaxMishaps = 1
  NoFile = NoFile
  Torn = Torn
  None = None
  r1 = r1
  r2 = r2
  r3 = r3
SYMMETRY RunSymmetry
INVARIANT OneResultPerItem
CHECK_DEADLOCK FALSE
