CONSTANTS
  nullopt = nullopt
  CameraCalls <- MCCameraCalls
  ServoCalls <- MCServoCalls
  Focuses <- MCFocuses
  Reports <- MCReports
  Deltas <- MCDeltas
SPECIFICATION Spec
INVARIANT PositionsArrive
CHECK_DEADLOCK FALSE
