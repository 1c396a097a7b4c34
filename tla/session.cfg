\* The load client with two threads of one connection each, one of which may
\* break, and the test server, with three settings of their options.  A round
\* sends two logins at most and every buffer holds one, so that the second is
\* refused and sent in a later round.  When all threads have ended the system
\* stops.
CONSTANTS
  nThread = 2
  nClient = 1
  nMsg = 2
  Options <- MCOptions
  MaxLogins = 2
  CliSendCap = 1
  SrvSendCap = 1
  WireCap = 1
  Broken <- MCBroken
SPECIFICATION Spec
INVARIANTS IdsConsecutive OneUnanswered
PROPERTIES AnswerComes ThreadsEnd
CHECK_DEADLOCK FALSE
