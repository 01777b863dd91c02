SPECIFICATION FairSpec
CONSTANTS
  Steps = {1, 2, 3, 4}
  Depends <- ForkDepends
  NeedsApproval = {3, 4}
  SafeToRetry = {1, 2}
  MayLack = {2}
  MaxAttempts = 1
  Runs = {r1, r2}
  Approvals = {a1, a2}
  Denials = {d1}
  Overlap = FALSE
  MaxMishaps = 1
  NoTask = NoTask
  None = None
INVARIANT TypeOK
INVARIANT AtMostOnce
INVARIANT ApprovedFirst
INVARIANT DependenciesFirst
INVARIANT SuccessIsTrue
PROPERTY CallEnds
CHECK_DEADLOCK FALSE
