SPECIFICATION ServicesSpec
CONSTANTS
  Jobs = {4101, 4102}
  Configs <- MCConfigs
  Drops = {d1, d2}
  Ticks = {t1, t2}
  MaxToolCalls = 2
  MaxRecoveries = 1
  MaxUpsets = 1
  Nil = Nil
  Blank = Blank
  Plugins = {p1, p2}
  MaxNamed = 2
  MaxInstalls = 3
  MaxReleases = 1
  MaxInstallFailures = 2
INVARIANT ServicesTypeOK
INVARIANT OverlayWhole
 
CHECK_DEADLOCK FALSE
