SPECIFICATION MCSpec
CONSTANTS
  Submits = {s1, s2}
  Ticks = {t1, t2}
  Scans = {c1}
  Reconciles = {a1}
  Replays = {p1}
  Inits = {i1}
  Resets = {z1}
  Kinds = {"note", "mark", "stray", "gated", "unknown"}
  MaxActions = 1
  SerialKinds = {"note", "mark", "gated", "unknown"}
  OverlapKinds = {"mark", "stray", "gated"}
  TailLimit = 8
  Overlap = TRUE
  TornWrites = TRUE
  MaxMishaps = 1
  NoFile = NoFile
  None = None
SYMMETRY CallSymmetry
INVARIANT TypeOK
INVARIANT SpineAhead
INVARIANT SerialProcessedOnce
INVARIANT SerialNoActionLost
INVARIANT SerialReplayAgrees
INVARIANT SerialConsequenceOnce
CHECK_DEADLOCK FALSE
