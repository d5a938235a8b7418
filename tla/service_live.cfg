\* Liveness: a RestartNode and a Stop that overlap, and one failure.
SPECIFICATION LiveSpec
CONSTANTS
  Callers = {c1, c2}
  Ops = {"Reconfig", "Stop"}
  Reports = {"Crash"}
  MaxAttempts = 3
  MaxCalls = 2
  MaxFaults = 1
  HealthCap = 1
PROPERTIES
  StopReturns
  InterceptorObtained
  RetryHonoured
  RestartBounces
\* The system rests when the calls are used up and the node runs or is held.
CHECK_DEADLOCK FALSE
