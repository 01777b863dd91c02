SPECIFICATION Spec
CONSTANTS
  Steps = {1, 2, 3}
  Depends <- ChainDepends
  NeedsApproval = {3}
  SafeToRetry = {1, 2}
  MayLack = {}
  MaxAttempts = 2
  Runs = {r1, r2}
  Approvals = {a1}
  Denials = {}
  Overlap = FALSE
  MaxMishaps = 1
  NoTask = NoTask
  None = None
INVARIANT SuccessIsComplete
CHECK_DEADLOCK FALSE
