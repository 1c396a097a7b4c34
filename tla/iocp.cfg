\* Two clients, each with at most one message outstanding in buffers of two
\* bytes, one of whose peers answers; posts fail, peers hang up and heartbeats
\* expire.  When nobody is left the system stops.
CONSTANTS
  Clients = {c1, c2}
  MaxClient = 2
  BuffSize = 2
  Oversize = TRUE
  PostFails = TRUE
  Answered = {c1}
SPECIFICATION Spec
INVARIANTS OneRequest BuffersStill FreedUnposted
PROPERTIES ExpiredFreed
CHECK_DEADLOCK FALSE
