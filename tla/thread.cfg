\* Two owners and three starts, onRun may call Exit: workers of earlier
\* starts leave tokens and clear the flag late.  When the last worker has
\* ended and no start is left, the system stops; so it does when a worker in
\* Exit and an owner in Close wait for each other.
CONSTANTS
  Callers = {o1, o2}
  Workers = {w1, w2, w3}
  CanExit = TRUE
  NoOne = NoOne
SPECIFICATION ThreadSpec
INVARIANTS ThreadInv CloseHasAnswer
PROPERTIES CloseJoins CloseEnds
CHECK_DEADLOCK FALSE
