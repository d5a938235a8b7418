\* Every operation, two callers whose calls overlap with each other, with one
\* spontaneous failure and with the run loop.
SPECIFICATION Spec
CONSTANTS
  Callers = {c1, c2}
  Ops = {"Restart", "Reconfig", "Rescan", "Recover", "Stop"}
  Reports = {"Live", "Down", "Crash", "Echo"}
  MaxAttempts = 3
  MaxCalls = 2
  MaxFaults = 1
  HealthCap = 1
SYMMETRY CallerSymmetry
INVARIANTS
  TypeOK
  OneNode
  AttachedIsSupervised
  StopIsFinal
  InterceptorReturned
  SelfInducedDownHidden
  StartShown
PROPERTIES
  CrashHeld
  SupervisorSpec
\* The system rests when the calls are used up and the node runs or is held.
CHECK_DEADLOCK FALSE
