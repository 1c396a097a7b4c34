-------------------------- MODULE MCCellSemaphore --------------------------
(* The semaphore alone, with callers that wait and wakeups without end. *)
EXTENDS CellSemaphore

CONSTANT MaxTokens   \* bound: wakeup() is not called when _wait has reached it

BoundedNext ==
  \/ semWait < MaxTokens /\ Wakeup
  \/ \E t \in Callers : CallerNext(t)

BoundedSpec == SemInit /\ [][BoundedNext]_semVars /\ SemFairness
=============================================================================
