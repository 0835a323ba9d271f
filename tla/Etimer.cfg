SPECIFICATION Spec
CONSTANTS
  Timer = {t1, t2}
  Proc = {p1, p2}
  NULL = NULL
  Interval = {1, 2}
  Adjustment <- BackAndForth
  Wrap = 6
  NUMEVENTS = 1
  PollPeriod = 2
  Callers = {p1, p2}
  MaxCalls = 3
  Prompt = TRUE
SYMMETRY Symmetry
INVARIANT PendingListed
PROPERTY NeverEarly
CHECK_DEADLOCK FALSE
