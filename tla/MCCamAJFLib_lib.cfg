CONSTANTS
  None = None
  Listener = Listener
  t1 = t1
  t2 = t2
  Apps = {t1, t2}
  Owner = t1
  Senders = {t2}
  Readers = {t2}
  Reports = {r1}
  Levels <- SomeLevels
  Callbacks = {f1}
  Overloads = {"pan_tilt", "pan_tilt_zoom"}
  PacketCallbackReads = {FALSE, TRUE}
  Failures = {"socket", "bind", "thread", "send"}
SPECIFICATION FairSpec
INVARIANT TypeOK NothingLeftBehind ServoReported ZoomIsLastSent NoOtherCycle
PROPERTY StopReturns ReportsAreDealtWith ImplementsFeed SilentAfterStop
CHECK_DEADLOCK FALSE
