CONSTANTS
  Fds = {0, 1}
  Reports = {r1, r2}
  Others = {o1}
  Empty = Empty
  None = None
  Limit = 2
  Failures = {"iface", "socket", "bind", "join", "thread"}
  Orders = {"restart"}
SPECIFICATION FairSpec
INVARIANT NoSocketLost ThreadUsesOwnSocket
PROPERTY ImplementsFeed StopReturns
