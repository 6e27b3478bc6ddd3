CONSTANTS
  c1 = c1
  c2 = c2
  t1 = t1
  t2 = t2
  None = None
  Controllers = {c1, c2}
  Threads = {t1}
  Sockets = {c1, c2, t1}
  OwnerOf <- OneOwner
  Readers = {}
  Senders = {}
  Hosts = {h1}
  Kinds = {"status"}
  McastArgs = {FALSE}
  Timeouts = {FALSE}
  Failures = {}
  MaxFd = 2
SPECIFICATION FairSpec
PROPERTY CallsReturn
CHECK_DEADLOCK FALSE
