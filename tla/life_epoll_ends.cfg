\* A server of CellEpollServers, whose sockets and polls do not fail by
\* themselves, is closed while it runs.
CONSTANTS
  Callers = {o1}
  Workers = {w1}
  CanExit = TRUE
  NoOne = NoOne
  Pollers = {"epoll"}
  PollFails = FALSE
  MaxClient = 1
  Accepters = {a1}
  AcceptFails = FALSE
  SocketFails = FALSE
SPECIFICATION Spec
PROPERTY CloseCompletes
CHECK_DEADLOCK FALSE
