\* The main thread sets the path and ends the program, while other threads
\* log a message and an error at any time in between.  The program ends.
CONSTANTS
  Callers = {main}
  Workers = {w1}
  CanExit = FALSE
  NoOne = NoOne
  perror = perror
  line1 = line1
  line2 = line2
  Opened = opened
  Closing = closing
  Tasks = {a, perror, line1, line2, opened, closing}
  PErrors = {perror}
  Lines <- MCLines
SPECIFICATION LogSpec
INVARIANTS InOrder WritesOpen FileComplete
PROPERTIES IsTaskQueue
CHECK_DEADLOCK FALSE
