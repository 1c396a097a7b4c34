----------------------------- MODULE TaskQueue -----------------------------
(***************************************************************************)
(* What users of CellTaskServer expect: tasks are executed once each, in   *)
(* the order they were added, and every task added before the server was   *)
(* told to close is executed.  CellTask is shown to implement it.          *)
(***************************************************************************)
EXTENDS Naturals, Sequences

CONSTANT Tasks

VARIABLES
  added,      \* the tasks in the order they were added
  executed,   \* the tasks in the order they were executed
  due,        \* number of added tasks that must be executed
  open        \* is the server running, and not told to close?

vars == <<added, executed, due, open>>

Init ==
  /\ added = <<>>
  /\ executed = <<>>
  /\ due = 0
  /\ open = FALSE

\* Starting the server makes the waiting tasks due.
Start ==
  /\ ~open
  /\ open' = TRUE
  /\ due' = Len(added)
  /\ UNCHANGED <<added, executed>>

Add(t) ==
  /\ added' = Append(added, t)
  /\ due' = IF open THEN Len(added') ELSE due
  /\ UNCHANGED <<executed, open>>

\* Tasks added after the close may be executed, or not.
Execute ==
  /\ Len(executed) < Len(added)
  /\ executed' = Append(executed, added[Len(executed) + 1])
  /\ UNCHANGED <<added, due, open>>

Close ==
  /\ open
  /\ open' = FALSE
  /\ UNCHANGED <<added, executed, due>>

Next == Start \/ (\E t \in Tasks : Add(t)) \/ Execute \/ Close

Safe == Init /\ [][Next]_vars

Spec == Safe /\ WF_vars(Execute /\ Len(executed) < due)
=============================================================================
