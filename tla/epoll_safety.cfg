\* Two cell servers, four connections, two of them under the limit at a
\* time, and three descriptors: one is used again while an entry filed under
\* it is being erased.  When every connection was used the system stops.
CONSTANTS
  Clients = {c1, c2, c3, c4}
  Fds = {f1, f2, f3}
  NumServers = 2
  MaxClient = 2
  None = None
SYMMETRY Symmetry
SPECIFICATION SafeSpec
INVARIANTS CountersExact LimitKept OneHolder KeysFit NoDangling
CHECK_DEADLOCK FALSE
