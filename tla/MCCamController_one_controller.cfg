CONSTANTS
  c1 = c1
  c2 = c2
  t1 = t1
  t2 = t2
  None = None
  Controllers = {c1}
  Threads = {t1, t2}
  Sockets = {c1, t1, t2}
  OwnerOf <- OneOwner
  Readers = {t2}
  Senders = {t1}
  Hosts = {h1, h2}
  Kinds = {"status"}
  McastArgs = {FALSE, TRUE}
  Timeouts = {FALSE, TRUE}
  Failures = {"thread", "bind", "join", "send"}
  MaxFd = 2
SPECIFICATION FairSpec
INVARIANT TypeOK OwnSocketOnly McastMeansJoined NoSocketLeak ThreadJoined CachesAgree
PROPERTY FrozenAfterStop ImplementsCache CallsReturn StartListens
