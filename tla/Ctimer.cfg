SPECIFICATION CFairSpec
CONSTANTS
  Timer = {c1, c2}
  Proc = {cp}
  ctimer_process = cp
  NULL = NULL
  Interval = {1}
  Adjustment = {}
  Wrap = 5
  NUMEVENTS = 1
  PollPeriod = 0
  Callers = {cp}
  MaxCalls = 3
  Prompt = TRUE
INVARIANT CallbackKept
PROPERTIES CallbackRuns TimerFires EarlyOnlyWhenSetAgain
CHECK_DEADLOCK FALSE
