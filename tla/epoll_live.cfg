\* Two cell servers, two connections.  When every connection was used the system stops.
CONSTANTS
  Clients = {c1, c2}
  Fds = {f1, f2}
  NumServers = 2
  MaxClient = 2
  None = None
SPECIFICATION Spec
PROPERTIES AcceptedJoins HungUpLeaves
CHECK_DEADLOCK FALSE
