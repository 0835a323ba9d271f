SPECIFICATION FairSpec
CONSTANTS
  Proc = {p1, p2}
  NULL = NULL
  p1 = p1
  UserEvent = {"ev"}
  Posted <- BroadcastAndOne
  NUMEVENTS = 2
  MaxCalls = 2
  ExitOnStack = FALSE
PROPERTIES PollServed EventTaken FifoSpec
VIEW LiveView
