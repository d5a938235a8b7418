\* The code violates NoStaleSignal: the counterexample is the finding.
SPECIFICATION Spec
CONSTANTS
  Callers = {c1, c2}
  Ops = {"Restart", "Reconfig", "Rescan", "Recover", "Stop"}
  Reports = {"Live", "Down", "Crash", "Echo"}
  MaxAttempts = 3
  MaxCalls = 2
  MaxFaults = 1
  HealthCap = 1
PROPERTY NoStaleSignal
CHECK_DEADLOCK FALSE
