CONSTANTS
  nullopt = nullopt
  CameraCalls <- MCCameraCalls
  ServoCalls <- MCServoCalls
  Focuses <- MCFocuses
  Reports <- MCReports
  Deltas <- MCDeltas
SPECIFICATION Spec
INVARIANT ServoFieldsArrive CameraCommandsArrive StatusReadersAgree DamageIsSeen AnswerIsAFrame
CHECK_DEADLOCK FALSE
