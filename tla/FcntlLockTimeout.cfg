SPECIFICATION FairSpec
CONSTANTS
  Procs = {p1, p2}
  Requests <- WaitingRequests
  Killable = {}
PROPERTY TimeoutLimitsWait
CHECK_DEADLOCK FALSE
