CONSTANTS
  Clients = {t1, t2}
  Servo = {s1}
  Camera = {c1}
  Odd = {}
  Ports = {p1, p2}
  None = None
  Mode = "ackAll"
  Limit = 1
  Flight = 2
  Fresh = FALSE
  Timeouts = {FALSE, TRUE}
  Failures = {"socket", "host", "sendto"}
SPECIFICATION FairSpec
INVARIANT SocketsAreReturned
PROPERTY ImplementsRequestReply TimedCallsReturn
CHECK_DEADLOCK FALSE
