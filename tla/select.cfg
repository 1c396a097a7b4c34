\* One cell server (two are in epoll_safety), three connections, two of them
\* under the limit at a time, and two descriptors that are used again.  When
\* every connection was used, or the thread has ended, the system stops.
CONSTANTS
  Clients = {c1, c2, c3}
  Fds = {f1, f2}
  NumServers = 1
  MaxClient = 2
  None = None
SPECIFICATION SelectSpec
INVARIANTS CopyFits VisitsLive
PROPERTY HungUpIsRemoved
CHECK_DEADLOCK FALSE
