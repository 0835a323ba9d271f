SPECIFICATION Spec
CONSTANTS
  Proc = {p1, p2, p3}
  NULL = NULL
  p1 = p1
  UserEvent = {"ev"}
  Posted <- BroadcastAndExit
  NUMEVENTS = 1
  MaxCalls = 1
  ExitOnStack = FALSE
SYMMETRY Symmetry
INVARIANTS ListOK NoReentry CurrentOK StateOK BroadcastComplete
VIEW View
