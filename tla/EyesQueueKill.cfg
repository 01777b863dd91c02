SPECIFICATION FairSpec
CONSTANTS
  Items = {1, 2}
  Runs = {r1, r2, r3, r4}
  Recoverers = {c1}
  NeedsReview = {1}
  BadManifest = {2}
  MaxItems = 2
  Overlap = FALSE
  TornWrites = FALSE
  Faults = {}
  MaxMishaps = 2
  NoFile = NoFile
  Torn = Torn
  None = None
  r1 = r1
  r2 = r2
  r3 = r3
  r4 = r4
  c1 = c1
PROPERTY EveryItemSettles
CHECK_DEADLOCK FALSE
INVARIANT TypeOK
INVARIANT ClaimTraceable
PROPERTY ImplementsItem
