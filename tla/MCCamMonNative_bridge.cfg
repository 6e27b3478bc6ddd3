CONSTANTS
  Handles = {h1, h2, h3}
  good = good
  zero = zero
  missing = missing
  Files = {good, zero, missing}
  PortOf <- MCPortOf
  Failures = {"thread"}
  None = None
SPECIFICATION FairSpec
INVARIANT LogOnce PortIsConfigured ControllerIsHeld ExitLeavesNothing OnlySignalsReachDeleted
PROPERTY ShutdownEnds
CHECK_DEADLOCK FALSE
