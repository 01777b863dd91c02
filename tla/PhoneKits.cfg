SPECIFICATION PhoneSpec
CONSTANTS
  Stack <- MCStack
  AppStates <- MCAppStates
  PlanTools = {"feasibility", "blueprint", "report", "capture", "uiAudit", "intents"}
  MaxPlanChanges = 1
  NoPlan = NoPlan
  Layout <- MCLayout
  ScreenCalls = {c1, c2}
  ScreenKit = {"find", "tap", "type", "key", "shot", "record"}
  Queries = {"name"}
  MaxMoves = 1
  MaxAdbFailures = 3
  Nowhere = Nowhere
  Sockets <- MCSockets
  FirstAdb = {"device"}
  FirstTabs <- MCFirstTabs
  Pages = {"p", "q"}
  WithElement = {"p"}
  Wanted = {"p"}
  Urls = {"q"}
  BrowserCalls = {b1, b2}
  BrowserKit = {"probe", "screenshot", "click", "test_element", "reconnect_quick", "wireless_helper"}
  MaxBrowserUpsets = 1
  Nothere = Nothere
  ActionCalls = {k1, k2}
  ActionKit = {"open_settings", "intent", "handoff_text", "handoff_file", "wifi_and_wireless", "capture_screen", "collect", "collect_and_share", "draft_and_share"}
  MaxSeconds = 1
  MaxActionUpsets = 1
  Unset = Unset
SYMMETRY KitsSymmetry
INVARIANT KitsTypeOK
INVARIANT PlansHold
INVARIANT ScreenSuccessIsTrue
INVARIANT OneTabPerCall
INVARIANT DryRunIsDry
INVARIANT SharesOwnBundle
CHECK_DEADLOCK FALSE
