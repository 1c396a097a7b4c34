\* Four callers and a token bound of three: a late wait() can overtake a
\* notified thread while another sleeps.
CONSTANTS
  Callers = {t1, t2, t3, t4}
  MaxTokens = 3
SPECIFICATION BoundedSpec
INVARIANT NoLostWakeup
PROPERTY IsSemaphore
