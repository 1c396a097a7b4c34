----------------------------- MODULE Semaphore -----------------------------
(***************************************************************************)
(* A counting semaphore, as its users think of it: a number of tokens, and *)
(* a set of threads that asked for one and have not got it.  CellSemaphore *)
(* is shown to implement it.                                               *)
(***************************************************************************)
EXTENDS Naturals

CONSTANT Threads

VARIABLES
  tokens,   \* tokens released and not yet taken
  waiting   \* threads blocked in wait()

vars == <<tokens, waiting>>

Init == tokens = 0 /\ waiting = {}

Release == tokens' = tokens + 1 /\ UNCHANGED waiting

\* wait() returns at once
TakeNow(t) ==
  /\ t \notin waiting
  /\ tokens > 0
  /\ tokens' = tokens - 1
  /\ UNCHANGED waiting

\* wait() blocks
Block(t) ==
  /\ t \notin waiting
  /\ waiting' = waiting \cup {t}
  /\ UNCHANGED tokens

\* a blocked wait() returns
Take(t) ==
  /\ t \in waiting
  /\ tokens > 0
  /\ tokens' = tokens - 1
  /\ waiting' = waiting \ {t}

Next == Release \/ \E t \in Threads : TakeNow(t) \/ Block(t) \/ Take(t)

Safe == Init /\ [][Next]_vars

\* As long as there is a token and a blocked thread, some blocked thread
\* gets a token: no wakeup is lost.
Spec == Safe /\ WF_vars(\E t \in Threads : Take(t))
=============================================================================
