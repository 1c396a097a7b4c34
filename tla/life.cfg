\* A server of either class, whose polls, socket, bind and listen may fail,
\* with two clients under its limit, is closed at any moment and opened once
\* again.  It stops when it has ended, or when Exit and Close block each
\* other.
CONSTANTS
  Callers = {o1}
  Workers = {w1}
  CanExit = TRUE
  NoOne = NoOne
  Pollers = {"select", "epoll"}
  PollFails = TRUE
  MaxClient = 2
  Accepters = {a1, a2}
  AcceptFails = TRUE
  SocketFails = TRUE
SPECIFICATION Spec
INVARIANTS StoppedBeforeFreed PlacesKept
PROPERTIES BufferServed ServerCloses
CHECK_DEADLOCK FALSE
