CONSTANTS
  nullopt = nullopt
  CameraCalls <- MCCameraCalls
  ServoCalls <- MCServoCalls
  Focuses <- MCFocuses
  Reports <- MCReports
  Deltas <- MCDeltas
SPECIFICATION Spec
INVARIANT JavaCommandsArrive
CHECK_DEADLOCK FALSE
