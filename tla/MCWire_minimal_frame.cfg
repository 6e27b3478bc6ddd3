CONSTANTS
  nullopt = nullopt
  CameraCalls <- MCCameraCalls
  ServoCalls <- MCServoCalls
  Focuses <- MCFocuses
  Reports <- MCReports
  Deltas <- MCDeltas
SPECIFICATION Spec
INVARIANT MinimalFrameAccepted
CHECK_DEADLOCK FALSE
