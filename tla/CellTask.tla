------------------------------ MODULE CellTask ------------------------------
(***************************************************************************)
(* depends/include/CellTask.hpp: CellTaskServer, a CellThread whose onRun  *)
(* moves the tasks of a shared buffer to a private list and executes them. *)
(* addTask and the move hold the server's _mutex and are one step each;    *)
(* the emptiness test before the move, and the loop over the shared buffer *)
(* after onRun was told to end, hold no lock.                              *)
(***************************************************************************)
EXTENDS CellThread, Sequences

CONSTANT Tasks   \* bound: each of these tasks may be added once

ASSUME TasksFinite == IsFiniteSet(Tasks)

\* CellServer and CellLog start their task server once, and its onRun does
\* not call Exit.
ASSUME StartedOnceNoExit == (\A v, w \in Workers : v = w) /\ ~CanExit

VARIABLES
  tasksBuf,   \* _tasksBuf
  tasks,      \* _tasks
  at,         \* the position of the running for loop, over _tasks or _tasksBuf
  taskPc,     \* where the worker is in OnRun
  added,      \* history: tasks in the order addTask was called
  executed,   \* history: tasks in the order they were called
  due         \* history: how many added tasks preceded Close, or all before it

taskVars == <<tasksBuf, tasks, at, taskPc, added, executed, due>>
vars == <<threadVars, taskVars>>

Init ==
  /\ ThreadInit
  /\ tasksBuf = <<>> /\ tasks = <<>>
  /\ at = 0
  /\ taskPc = "test"
  /\ added = <<>> /\ executed = <<>>
  /\ due = 0
-----------------------------------------------------------------------------
AddTask(t) ==
  /\ \A i \in DOMAIN added : added[i] # t
  /\ tasksBuf' = Append(tasksBuf, t)
  /\ added' = Append(added, t)
  /\ due' = IF isRun THEN Len(added') ELSE due
  /\ UNCHANGED <<threadVars, tasks, at, taskPc, executed>>

\* CellTaskServer::Start and Close are those of its thread.
StartServer(o) ==
  /\ Start(o)
  /\ due' = Len(added)
  /\ UNCHANGED <<tasksBuf, tasks, at, taskPc, added, executed>>

CloseServer(o) ==
  /\ CallClose(o) \/ CloseStep(o) \/ CloseDozes(o)
  /\ UNCHANGED taskVars

OnWork(w) ==
  /\ OnWorkStep(w)
  /\ UNCHANGED taskVars
-----------------------------------------------------------------------------
At(w, from, to) ==
  /\ workerPc[w] = "run"
  /\ taskPc = from
  /\ taskPc' = to

\* while (pThread->isRun())
TestIsRun(w) ==
  /\ \/ isRun /\ At(w, "test", "look")
     \/ ~isRun /\ At(w, "test", "drain")
  /\ UNCHANGED <<threadVars, tasksBuf, tasks, at, added, executed, due>>

\* !_tasksBuf.empty(), without the lock; when nothing is moved _tasks is
\* empty too (the last round has cleared it), so sleep and test again
LookAtBuf(w) ==
  /\ \/ tasksBuf # <<>> /\ At(w, "look", "move")
     \/ tasksBuf = <<>> /\ At(w, "look", "test")
  /\ UNCHANGED <<threadVars, tasksBuf, tasks, at, added, executed, due>>

\* Mutant of MoveTasks: the shared buffer is not cleared.
CopyTasks(w) ==
  /\ At(w, "move", "execute")
  /\ tasks' = tasks \o tasksBuf
  /\ UNCHANGED <<threadVars, tasksBuf, at, added, executed, due>>

MoveTasks(w) ==
  /\ At(w, "move", "execute")
  /\ tasks' = tasks \o tasksBuf
  /\ tasksBuf' = <<>>
  /\ UNCHANGED <<threadVars, at, added, executed, due>>

Execute(w, list) ==
  /\ at < Len(list)
  /\ executed' = Append(executed, list[at + 1])
  /\ at' = at + 1
  /\ UNCHANGED <<threadVars, tasksBuf, tasks, added, due>>

ExecuteTask(w) == At(w, "execute", "execute") /\ Execute(w, tasks)

\* Mutant of ClearTasks: the executed tasks stay in the private list.
KeepTasks(w) ==
  /\ At(w, "execute", "test")
  /\ at = Len(tasks)
  /\ at' = 0
  /\ UNCHANGED <<threadVars, tasksBuf, tasks, added, executed, due>>

ClearTasks(w) ==
  /\ At(w, "execute", "test")
  /\ at = Len(tasks)
  /\ tasks' = <<>>
  /\ at' = 0
  /\ UNCHANGED <<threadVars, tasksBuf, added, executed, due>>

\* The loop over the shared buffer: a task that is appended before the loop
\* reaches the end of the list is still seen.
DrainTask(w) == At(w, "drain", "drain") /\ Execute(w, tasksBuf)

\* Mutant of ReturnFromOnRun: the buffered tasks are not waited for.
ReturnUndrained(w) ==
  /\ At(w, "drain", "done")
  /\ OnRun(w)
  /\ UNCHANGED <<tasksBuf, tasks, at, added, executed, due>>

ReturnFromOnRun(w) ==
  /\ At(w, "drain", "done")
  /\ at = Len(tasksBuf)
  /\ OnRun(w)
  /\ UNCHANGED <<tasksBuf, tasks, at, added, executed, due>>

OnRunStep(w) ==
  TestIsRun(w) \/ LookAtBuf(w) \/ MoveTasks(w) \/ ExecuteTask(w) \/ ClearTasks(w)
    \/ DrainTask(w) \/ ReturnFromOnRun(w)
-----------------------------------------------------------------------------
Next ==
  \/ \E t \in Tasks : AddTask(t)
  \/ \E o \in Callers : StartServer(o) \/ CloseServer(o)
  \/ \E w \in Workers : OnWork(w) \/ OnRunStep(w)

\* The threads are scheduled and tasks return; nobody has to add or close.
Fairness ==
  /\ \A o \in Callers : WF_vars(CloseServer(o) /\ (CloseWait(o) \/ CloseResume(o)))
  /\ \A w \in Workers : WF_vars(OnWork(w)) /\ WF_vars(OnRunStep(w))

SafeSpec == Init /\ [][Next]_vars
Spec == SafeSpec /\ Fairness
-----------------------------------------------------------------------------
TaskTypeOK ==
  /\ tasksBuf \in Seq(Tasks) /\ tasks \in Seq(Tasks)
  /\ added \in Seq(Tasks) /\ executed \in Seq(Tasks)
  /\ at \in Nat /\ due \in Nat
  /\ taskPc \in {"test", "look", "move", "execute", "drain", "done"}

\* The tasks that were added and have not been called, in order.
Rest(list) == SubSeq(list, at + 1, Len(list))

Pending ==
  IF taskPc \in {"drain", "done"} THEN Rest(tasksBuf) ELSE Rest(tasks) \o tasksBuf

\* Where the running loop may be, and that the private list is empty outside
\* it: the end of OnRun forgets nothing that it had moved.
LoopInRange ==
  /\ taskPc \in {"test", "look", "move"} => at = 0 /\ tasks = <<>>
  /\ taskPc = "execute" => at <= Len(tasks)
  /\ taskPc \in {"drain", "done"} => at <= Len(tasksBuf) /\ tasks = <<>>

\* Through the move, the clear and the unlocked loop, no task is lost,
\* duplicated or overtaken.
InOrder == executed \o Pending = added

\* The server is a task queue: FIFO, exactly once, and every task added
\* while it runs is executed in the end, whether or not it is then closed.
Queue == INSTANCE TaskQueue WITH open <- isRun

IsTaskQueue == Queue!Spec
=============================================================================
