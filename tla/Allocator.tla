----------------------------- MODULE Allocator -----------------------------
(***************************************************************************)
(* What `new' and `delete' promise: memory that somebody still uses is     *)
(* never given to anybody else, unless its user shares it.  CellObjectPool *)
(* on top of MemoryMgr is shown to implement it.                           *)
(***************************************************************************)
CONSTANTS Threads, Blocks

VARIABLES
  holds,   \* the blocks each thread uses
  shared   \* the blocks whose user let another thread use them too

vars == <<holds, shared>>

Init == holds = [t \in Threads |-> {}] /\ shared = {}

Users(b) == {t \in Threads : b \in holds[t]}

Give(t, b) ==
  /\ Users(b) = {}
  /\ holds' = [holds EXCEPT ![t] = @ \cup {b}]
  /\ UNCHANGED shared

\* The block's only user lets another use it too.
Share(t, u, b) ==
  /\ Users(b) = {t}
  /\ holds' = [holds EXCEPT ![u] = @ \cup {b}]
  /\ shared' = shared \cup {b}

Drop(t, b) ==
  /\ b \in holds[t]
  /\ holds' = [holds EXCEPT ![t] = @ \ {b}]
  /\ shared' = shared \ {b}

Next ==
  \E t \in Threads, b \in Blocks :
     Give(t, b) \/ Drop(t, b) \/ \E u \in Threads \ {t} : Share(t, u, b)

Safe == Init /\ [][Next]_vars
=============================================================================
