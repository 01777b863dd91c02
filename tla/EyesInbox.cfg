SPECIFICATION MCSpec
CONSTANTS
  Names = {1, 2}
  Contents = {a, b}
  Scans = {s1, s2, s3, s4}
  NoMove = {s4}
  TornWrites = TRUE
  Faults = {"hashing", "discarding", "building", "moving", "manifesting", "queueing", "failing"}
  MaxMishaps = 2
  NoFile = NoFile
  Torn = Torn
  Empty = Empty
  None = None
  s1 = s1
  s2 = s2
  s3 = s3
  s4 = s4
SYMMETRY InboxSymmetry
INVARIANT TypeOK
INVARIANT IngestedOnce
INVARIANT ItemHasManifest
INVARIANT SerialContentRetained
INVARIANT SerialItemBacked
INVARIANT SerialQueuedOnce
INVARIANT SerialNothingSwallowed
CHECK_DEADLOCK FALSE
