---------------------------- MODULE CellLogProofs ----------------------------
(***************************************************************************)
(* A CellTaskServer is a CellThread, so what CellThreadProofs shows holds  *)
(* for it; it executes the tasks in the order they were added, once each,  *)
(* and implements the safety part of a task queue, for any set of tasks.   *)
(* Then the log, which uses its task server as CellTask allows: its        *)
(* messages are executed in order, no message is written to a file that is *)
(* not open, although nothing but the order of ~CellLog keeps the main     *)
(* thread from closing the file under the worker, and the file is complete *)
(* when it is closed.                                                      *)
(***************************************************************************)
EXTENDS CellLog, CellThreadProofs, SequenceTheorems

-----------------------------------------------------------------------------
(* The task server: its thread.                                            *)

\* Every step of the task server is a step of its thread, or leaves it alone.
LEMMA TaskStepIsThreadStep == [Next]_vars => [ThreadNext]_threadVars
<1> SUFFICES ASSUME [Next]_vars PROVE [ThreadNext]_threadVars
  OBVIOUS
<1>1. ASSUME NEW t \in Tasks, AddTask(t) PROVE UNCHANGED threadVars
  BY <1>1 DEF AddTask
<1>2. ASSUME NEW o \in Callers, StartServer(o) \/ CloseServer(o) PROVE ThreadNext
  BY <1>2 DEF StartServer, CloseServer, ThreadNext, OwnerNext
<1>3. ASSUME NEW w \in Workers, OnWork(w) PROVE ThreadNext
  BY <1>3 DEF OnWork, ThreadNext, WorkerNext
<1>4. ASSUME NEW w \in Workers, OnRunStep(w) PROVE [ThreadNext]_threadVars
  <2>1. CASE ReturnFromOnRun(w)
    BY <2>1 DEF ReturnFromOnRun, ThreadNext, WorkerNext
  <2>2. CASE ~ReturnFromOnRun(w)
    BY <1>4, <2>2 DEF OnRunStep, TestIsRun, LookAtBuf, MoveTasks, ExecuteTask, ClearTasks,
                      DrainTask, Execute
  <2> QED BY <2>1, <2>2
<1>5. CASE UNCHANGED vars
  BY <1>5 DEF vars
<1> QED BY <1>1, <1>2, <1>3, <1>4, <1>5 DEF Next

\* The task server uses its thread as CellThread allows, so every theorem
\* about the thread holds for it.
THEOREM TaskServerIsThread == SafeSpec => ThreadSafeSpec
<1>1. Init => ThreadInit
  BY DEF Init
<1> QED BY <1>1, TaskStepIsThreadStep, PTL DEF SafeSpec, ThreadSafeSpec
-----------------------------------------------------------------------------
(* Sequences.                                                              *)

\* The elements after position i.
After(list, i) == SubSeq(list, i + 1, Len(list))

LEMMA AfterProperties ==
  ASSUME NEW list \in Seq(Tasks), NEW i \in 0..Len(list)
  PROVE  /\ After(list, i) \in Seq(Tasks)
         /\ i = 0 => After(list, i) = list
         /\ i = Len(list) => After(list, i) = <<>>
         /\ i < Len(list) => After(list, i) = <<list[i + 1]>> \o After(list, i + 1)
<1>1. Len(list) \in Nat /\ \A k \in 1..Len(list) : list[k] \in Tasks
  BY LenProperties, ElementOfSeq
<1>2. After(list, i) \in Seq(Tasks)
  BY <1>1, SubSeqProperties DEF After
<1>3. i = 0 => After(list, i) = list
  BY SubSeqFull DEF After
<1>4. i = Len(list) => After(list, i) = <<>>
  BY <1>1, SubSeqEmpty DEF After
<1>5. ASSUME i < Len(list) PROVE After(list, i) = <<list[i + 1]>> \o After(list, i + 1)
  <2>1. i + 1 \in 1..Len(list) /\ Len(list) \in (i + 1)..Len(list)
    BY <1>1, <1>5
  <2> QED BY <2>1, SubSeqRecursiveFirst DEF After
<1> QED BY <1>2, <1>3, <1>4, <1>5

LEMMA AfterAppend ==
  ASSUME NEW list \in Seq(Tasks), NEW i \in 0..Len(list), NEW t \in Tasks
  PROVE  After(Append(list, t), i) = Append(After(list, i), t)
<1> DEFINE longer == Append(list, t)
<1>1. longer \in Seq(Tasks) /\ Len(longer) = Len(list) + 1 /\ longer[Len(list) + 1] = t
  BY AppendProperties
<1>2. Len(list) \in Nat /\ i \in 0..Len(longer)
  BY <1>1, LenProperties
<1>3. \A k \in 1..Len(list) : list[k] \in Tasks /\ longer[k] = list[k]
  BY ElementOfSeq, AppendProperties
<1>4. Append(list, t) = longer
  OBVIOUS
<1> HIDE DEF longer
<1>5. After(longer, i) \in Seq(Tasks) /\ After(list, i) \in Seq(Tasks)
  BY <1>1, <1>2, AfterProperties
<1>6. /\ Len(After(list, i)) = Len(list) - i
      /\ \A k \in 1..(Len(list) - i) : After(list, i)[k] = list[i + k]
  BY <1>2, <1>3, SubSeqProperties DEF After
<1>7. /\ Len(After(longer, i)) = Len(list) - i + 1
      /\ \A k \in 1..(Len(list) - i + 1) : After(longer, i)[k] = longer[i + k]
  <2>1. \A k \in (i + 1)..Len(longer) : longer[k] \in Tasks
    BY <1>1, <1>2, ElementOfSeq
  <2> QED BY <1>1, <1>2, <2>1, SubSeqProperties, SMTT(30) DEF After
<1>8. /\ Append(After(list, i), t) \in Seq(Tasks)
      /\ Len(Append(After(list, i), t)) = Len(list) - i + 1
      /\ \A k \in 1..(Len(list) - i) : Append(After(list, i), t)[k] = After(list, i)[k]
      /\ Append(After(list, i), t)[Len(list) - i + 1] = t
  <2> DEFINE front == After(list, i)
  <2>1. front \in Seq(Tasks) /\ Len(front) = Len(list) - i
    BY <1>5, <1>6
  <2> HIDE DEF front
  <2>2. /\ Append(front, t) \in Seq(Tasks)
        /\ Len(Append(front, t)) = Len(front) + 1
        /\ \A k \in 1..Len(front) : Append(front, t)[k] = front[k]
        /\ Append(front, t)[Len(front) + 1] = t
    BY <2>1, AppendProperties
  <2> QED BY <2>1, <2>2 DEF front
<1>9. ASSUME NEW k \in 1..(Len(list) - i + 1)
      PROVE  After(longer, i)[k] = Append(After(list, i), t)[k]
  <2>1. CASE k = Len(list) - i + 1
    <3>1. i + k = Len(list) + 1
      BY <1>2, <2>1
    <3> QED BY <1>1, <1>7, <1>8, <2>1, <3>1
  <2>2. CASE k # Len(list) - i + 1
    <3>1. k \in 1..(Len(list) - i) /\ i + k \in 1..Len(list)
      BY <1>2, <2>2
    <3> QED BY <1>3, <1>6, <1>7, <1>8, <3>1
  <2> QED BY <2>1, <2>2
<1>10. After(longer, i) = Append(After(list, i), t)
  BY <1>5, <1>7, <1>8, <1>9, SeqEqual
<1> QED BY <1>4, <1>10

LEMMA MoveFirst ==
  ASSUME NEW front \in Seq(Tasks), NEW t \in Tasks, NEW rest \in Seq(Tasks)
  PROVE  LET whole == front \o (<<t>> \o rest) IN
         /\ Append(front, t) \o rest = whole
         /\ Append(front, t) \in Seq(Tasks)
         /\ Len(front) < Len(whole)
         /\ whole[Len(front) + 1] = t
<1> DEFINE longer == Append(front, t)
<1>1. /\ longer \in Seq(Tasks) /\ Len(longer) = Len(front) + 1 /\ longer[Len(front) + 1] = t
      /\ longer = front \o <<t>>
  BY AppendProperties, AppendIsConcat
<1>2. <<t>> \in Seq(Tasks) /\ Len(front) \in Nat /\ Len(rest) \in Nat
  BY LenProperties
<1>3. (front \o <<t>>) \o rest = front \o (<<t>> \o rest)
  BY <1>2, ConcatAssociative
<1> HIDE DEF longer
<1>4. /\ Len(longer \o rest) = Len(longer) + Len(rest)
      /\ \A k \in 1..(Len(longer) + Len(rest)) :
            (longer \o rest)[k] = IF k <= Len(longer) THEN longer[k] ELSE rest[k - Len(longer)]
  BY <1>1, ConcatProperties
<1>5. Len(front) < Len(longer \o rest) /\ (longer \o rest)[Len(front) + 1] = t
  BY <1>1, <1>2, <1>4
<1> QED BY <1>1, <1>3, <1>5 DEF longer

LEMMA AddLast ==
  ASSUME NEW front \in Seq(Tasks), NEW rest \in Seq(Tasks), NEW t \in Tasks
  PROVE  Append(front \o rest, t) = front \o (rest \o <<t>>)
<1>1. <<t>> \in Seq(Tasks)
  OBVIOUS
<1>2. front \o rest \in Seq(Tasks)
  BY ConcatProperties
<1>3. Append(front \o rest, t) = (front \o rest) \o <<t>>
  BY <1>2, AppendIsConcat
<1>4. (front \o rest) \o <<t>> = front \o (rest \o <<t>>)
  BY <1>1, ConcatAssociative
<1> QED BY <1>3, <1>4

\* Pending, of given values of the variables.
PendingOf(pc, list, buf, i) ==
  IF pc \in {"drain", "done"} THEN After(buf, i) ELSE After(list, i) \o buf

LEMMA PendingIs ==
  /\ Pending = PendingOf(taskPc, tasks, tasksBuf, at)
  /\ Pending' = PendingOf(taskPc', tasks', tasksBuf', at')
BY DEF Pending, PendingOf, Rest, After

\* The list that the running loop goes over.
RunningOf(pc, list, buf) == IF pc \in {"drain", "done"} THEN buf ELSE list

LEMMA PendingAdd ==
  ASSUME NEW pc, NEW list \in Seq(Tasks), NEW buf \in Seq(Tasks), NEW i \in Nat, NEW t \in Tasks,
         IF pc \in {"drain", "done"} THEN i <= Len(buf) ELSE i <= Len(list)
  PROVE  /\ PendingOf(pc, list, buf, i) \in Seq(Tasks)
         /\ PendingOf(pc, list, Append(buf, t), i) = PendingOf(pc, list, buf, i) \o <<t>>
<1>1. CASE pc \in {"drain", "done"}
  <2> i \in 0..Len(buf)
    BY <1>1, LenProperties
  <2>1. After(buf, i) \in Seq(Tasks) /\ After(Append(buf, t), i) = Append(After(buf, i), t)
    BY AfterProperties, AfterAppend
  <2>2. Append(After(buf, i), t) = After(buf, i) \o <<t>>
    BY <2>1, AppendIsConcat
  <2> QED BY <1>1, <2>1, <2>2 DEF PendingOf
<1>2. CASE pc \notin {"drain", "done"}
  <2>1. After(list, i) \in Seq(Tasks)
    <3>1. i \in 0..Len(list)
      BY <1>2, LenProperties
    <3> QED BY <3>1, AfterProperties
  <2>2. <<t>> \in Seq(Tasks)
    OBVIOUS
  <2>3. Append(buf, t) = buf \o <<t>>
    BY AppendIsConcat
  <2>4. After(list, i) \o (buf \o <<t>>) = (After(list, i) \o buf) \o <<t>>
    BY <2>1, <2>2, ConcatAssociative
  <2>5. After(list, i) \o buf \in Seq(Tasks)
    BY <2>1, ConcatProperties
  <2> QED BY <1>2, <2>1, <2>3, <2>4, <2>5 DEF PendingOf
<1> QED BY <1>1, <1>2

LEMMA PendingExecute ==
  ASSUME NEW pc, NEW list \in Seq(Tasks), NEW buf \in Seq(Tasks), NEW i \in Nat,
         i < Len(RunningOf(pc, list, buf))
  PROVE  LET t == RunningOf(pc, list, buf)[i + 1] IN
         /\ t \in Tasks
         /\ PendingOf(pc, list, buf, i + 1) \in Seq(Tasks)
         /\ PendingOf(pc, list, buf, i) = <<t>> \o PendingOf(pc, list, buf, i + 1)
<1> DEFINE running == RunningOf(pc, list, buf)
           t == running[i + 1]
<1>1. /\ running \in Seq(Tasks) /\ i \in 0..Len(running) /\ i + 1 \in 0..Len(running)
      /\ i + 1 \in 1..Len(running)
  <2>1. running \in Seq(Tasks) /\ Len(running) \in Nat
    BY LenProperties DEF RunningOf
  <2> QED BY <2>1
<1>2. /\ t \in Tasks /\ <<t>> \in Seq(Tasks) /\ After(running, i + 1) \in Seq(Tasks)
      /\ After(running, i) = <<t>> \o After(running, i + 1)
  <2>1. t \in Tasks
    BY <1>1, ElementOfSeq
  <2>2. <<t>> \in Seq(Tasks)
    BY <2>1
  <2>3. After(running, i + 1) \in Seq(Tasks)
    BY <1>1, AfterProperties
  <2>4. After(running, i) = <<t>> \o After(running, i + 1)
    BY <1>1, AfterProperties
  <2> QED BY <2>1, <2>2, <2>3, <2>4
<1> HIDE DEF t
<1>3. CASE pc \in {"drain", "done"}
  BY <1>2, <1>3 DEF PendingOf, RunningOf, t
<1>4. CASE pc \notin {"drain", "done"}
  <2> running = list
    BY <1>4 DEF RunningOf
  <2>1. (<<t>> \o After(list, i + 1)) \o buf = <<t>> \o (After(list, i + 1) \o buf)
    BY <1>2, <1>4, ConcatAssociative
  <2>2. After(list, i + 1) \o buf \in Seq(Tasks)
    BY <1>2, <1>4, ConcatProperties
  <2> QED BY <1>2, <1>4, <2>1, <2>2 DEF PendingOf, t
<1> QED BY <1>3, <1>4

\* Outside the loops nothing is lost by moving, clearing, or turning to the
\* shared buffer.
LEMMA PendingOutside ==
  ASSUME NEW list \in Seq(Tasks), NEW buf \in Seq(Tasks)
  PROVE  /\ \A pc : PendingOf(pc, <<>>, buf, 0) = buf
         /\ <<>> \o buf = buf
         /\ PendingOf("execute", buf, <<>>, 0) = buf
         /\ PendingOf("execute", list, buf, Len(list)) = buf
<1>1. /\ <<>> \in Seq(Tasks) /\ Len(<<>>) = 0 /\ <<>> \o buf = buf /\ buf \o <<>> = buf
      /\ Len(buf) \in Nat /\ Len(list) \in Nat
  BY EmptySeq, ConcatEmptySeq, LenProperties
<1>2. After(<<>>, 0) = <<>> /\ After(buf, 0) = buf /\ After(list, Len(list)) = <<>>
  <2>1. 0 \in 0..Len(<<>>) /\ 0 \in 0..Len(buf) /\ Len(list) \in 0..Len(list)
    BY <1>1
  <2> QED BY <1>1, <2>1, AfterProperties
<1> QED BY <1>1, <1>2 DEF PendingOf
-----------------------------------------------------------------------------
(* The order of the tasks.                                                 *)

TaskInv == TaskTypeOK /\ LoopInRange /\ InOrder

LEMMA AddTaskStep ==
  ASSUME TaskInv, NEW t \in Tasks, AddTask(t)
  PROVE  TaskInv' /\ Queue!Add(t)
<1>1. /\ tasksBuf \in Seq(Tasks) /\ tasks \in Seq(Tasks) /\ executed \in Seq(Tasks)
      /\ added \in Seq(Tasks) /\ at \in Nat
  BY DEF TaskInv, TaskTypeOK
<1>2. /\ tasksBuf' = Append(tasksBuf, t) /\ tasksBuf' \in Seq(Tasks)
      /\ Len(tasksBuf') = Len(tasksBuf) + 1 /\ Len(tasksBuf) \in Nat
      /\ added' = Append(added, t) /\ added' \in Seq(Tasks) /\ Len(added') \in Nat
  BY <1>1, AppendProperties, LenProperties DEF AddTask
<1>3. TaskTypeOK' /\ LoopInRange'
  BY <1>2 DEF TaskInv, TaskTypeOK, LoopInRange, AddTask
<1>4. IF taskPc \in {"drain", "done"} THEN at <= Len(tasksBuf) ELSE at <= Len(tasks)
  <2>1. Len(tasks) \in Nat /\ Len(<<>>) = 0
    BY <1>1, LenProperties
  <2> QED BY <1>1, <1>2, <2>1 DEF TaskInv, TaskTypeOK, LoopInRange
<1>5. Pending \in Seq(Tasks) /\ Pending' = Pending \o <<t>>
  <2>1. /\ Pending = PendingOf(taskPc, tasks, tasksBuf, at)
        /\ Pending' = PendingOf(taskPc, tasks, Append(tasksBuf, t), at)
    BY PendingIs DEF AddTask
  <2> QED BY <1>1, <1>4, <2>1, PendingAdd, ZenonT(60)
<1>6. InOrder'
  <2>1. added' = Append(executed \o Pending, t)
    BY DEF TaskInv, InOrder, AddTask
  <2>2. added' = executed \o (Pending \o <<t>>)
    BY <1>1, <1>5, <2>1, AddLast
  <2> QED BY <1>5, <2>2 DEF AddTask, InOrder
<1>7. Queue!Add(t)
  BY DEF AddTask, Queue!Add, threadVars
<1> QED BY <1>3, <1>6, <1>7 DEF TaskInv

LEMMA ExecuteStep ==
  ASSUME TaskInv, NEW w \in Workers, ExecuteTask(w) \/ DrainTask(w)
  PROVE  TaskInv' /\ Queue!Execute
<1> DEFINE running == RunningOf(taskPc, tasks, tasksBuf)
           t == running[at + 1]
<1>1. /\ tasksBuf \in Seq(Tasks) /\ tasks \in Seq(Tasks) /\ executed \in Seq(Tasks)
      /\ at \in Nat
  BY DEF TaskInv, TaskTypeOK
<1>2. /\ at < Len(running) /\ executed' = Append(executed, t) /\ at' = at + 1
      /\ taskPc' = taskPc /\ taskPc \in {"execute", "drain"}
      /\ UNCHANGED <<threadVars, tasksBuf, tasks, added, due>>
  BY DEF ExecuteTask, DrainTask, Execute, At, RunningOf
<1>3. t \in Tasks /\ Pending' \in Seq(Tasks) /\ Pending = <<t>> \o Pending'
  <2>1. /\ Pending = PendingOf(taskPc, tasks, tasksBuf, at)
        /\ Pending' = PendingOf(taskPc, tasks, tasksBuf, at + 1)
    BY <1>2, PendingIs
  <2> QED BY <1>1, <1>2, <2>1, PendingExecute
<1> HIDE DEF t
<1>4. /\ executed' \o Pending' = added /\ executed' \in Seq(Tasks)
      /\ Len(executed) < Len(added) /\ added[Len(executed) + 1] = t
  <2>1. added = executed \o (<<t>> \o Pending')
    BY <1>3 DEF TaskInv, InOrder
  <2> QED BY <1>1, <1>2, <1>3, <2>1, MoveFirst
<1>5. TaskTypeOK' /\ LoopInRange'
  <2>1. Len(running) \in Nat
    BY <1>1, LenProperties DEF RunningOf
  <2> QED BY <1>1, <1>2, <1>4, <2>1 DEF TaskInv, TaskTypeOK, LoopInRange, RunningOf
<1>6. InOrder'
  BY <1>2, <1>4 DEF InOrder
<1>7. Queue!Execute
  BY <1>2, <1>4 DEF Queue!Execute, threadVars
<1> QED BY <1>5, <1>6, <1>7 DEF TaskInv

\* The other steps of OnRun change where the waiting tasks are, not which.
LEMMA OtherRunStep ==
  ASSUME TaskInv, NEW w \in Workers,
         \/ TestIsRun(w) \/ LookAtBuf(w) \/ MoveTasks(w) \/ ClearTasks(w)
         \/ ReturnFromOnRun(w)
  PROVE  TaskInv' /\ UNCHANGED Queue!vars
<1>1. /\ tasksBuf \in Seq(Tasks) /\ tasks \in Seq(Tasks) /\ <<>> \in Seq(Tasks)
      /\ Len(tasksBuf) \in Nat /\ Len(tasks) \in Nat /\ Len(<<>>) = 0
  BY EmptySeq, LenProperties DEF TaskInv, TaskTypeOK
<1>2. UNCHANGED <<isRun, added, executed, due>>
  BY DEF TestIsRun, LookAtBuf, MoveTasks, ClearTasks, ReturnFromOnRun, OnRun, LeaveOnRun,
         threadVars
<1>3. TaskTypeOK' /\ LoopInRange' /\ Pending' = Pending
  <2>1. CASE TestIsRun(w) \/ LookAtBuf(w)
    <3>1. /\ taskPc \in {"test", "look"} /\ taskPc' \in {"test", "look", "move", "drain"}
          /\ UNCHANGED <<tasksBuf, tasks, at, added, executed, due>>
      BY <2>1 DEF TestIsRun, LookAtBuf, At
    <3>2. at = 0 /\ tasks = <<>>
      BY <3>1 DEF TaskInv, LoopInRange
    <3>3. TaskTypeOK' /\ LoopInRange'
      BY <1>1, <3>1, <3>2 DEF TaskInv, TaskTypeOK, LoopInRange
    <3> QED BY <1>1, <3>1, <3>2, <3>3, PendingIs, PendingOutside
  <2>2. CASE MoveTasks(w)
    <3>1. /\ taskPc = "move" /\ taskPc' = "execute" /\ at = 0 /\ tasks = <<>>
          /\ tasks' = tasks \o tasksBuf /\ tasksBuf' = <<>>
          /\ UNCHANGED <<at, added, executed, due>>
      BY <2>2 DEF MoveTasks, At, TaskInv, LoopInRange
    <3>2. tasks' = tasksBuf
      BY <1>1, <3>1, PendingOutside
    <3>3. TaskTypeOK' /\ LoopInRange'
      BY <1>1, <3>1, <3>2 DEF TaskInv, TaskTypeOK, LoopInRange
    <3> QED BY <1>1, <3>1, <3>2, <3>3, PendingIs, PendingOutside
  <2>3. CASE ClearTasks(w)
    <3>1. /\ taskPc = "execute" /\ taskPc' = "test" /\ at = Len(tasks) /\ at' = 0
          /\ tasks' = <<>> /\ UNCHANGED <<tasksBuf, added, executed, due>>
      BY <2>3 DEF ClearTasks, At
    <3>2. TaskTypeOK' /\ LoopInRange'
      BY <1>1, <3>1 DEF TaskInv, TaskTypeOK, LoopInRange
    <3> QED BY <1>1, <3>1, <3>2, PendingIs, PendingOutside
  <2>4. CASE ReturnFromOnRun(w)
    <3>1. /\ taskPc = "drain" /\ taskPc' = "done"
          /\ UNCHANGED <<tasksBuf, tasks, at, added, executed, due>>
      BY <2>4 DEF ReturnFromOnRun, At
    <3>2. TaskTypeOK' /\ LoopInRange'
      BY <3>1 DEF TaskInv, TaskTypeOK, LoopInRange
    <3> QED BY <3>1, <3>2, PendingIs DEF PendingOf
  <2> QED BY <2>1, <2>2, <2>3, <2>4
<1> QED BY <1>2, <1>3 DEF TaskInv, InOrder, Queue!vars

\* What the owners and OnWork do opens or closes the queue, or nothing.
LEMMA ThreadStepOfQueue ==
  ASSUME TaskInv, isRun \in BOOLEAN,
         \/ \E o \in Callers : StartServer(o) \/ CloseServer(o)
         \/ \E w \in Workers : OnWork(w)
  PROVE  TaskInv' /\ [Queue!Next]_(Queue!vars)
<1>1. Len(added) \in Nat
  BY LenProperties DEF TaskInv, TaskTypeOK
<1>2. UNCHANGED <<tasksBuf, tasks, at, taskPc, added, executed>>
  BY DEF StartServer, CloseServer, OnWork, taskVars
<1>3. due' = due \/ due' = Len(added)
  BY DEF StartServer, CloseServer, OnWork, taskVars
<1>4. TaskInv'
  BY <1>1, <1>2, <1>3
     DEF TaskInv, TaskTypeOK, LoopInRange, InOrder, Pending, Rest
<1>5. CASE \E o \in Callers : StartServer(o)
  BY <1>2, <1>4, <1>5 DEF StartServer, Start, Queue!Next, Queue!Start
<1>6. ASSUME UNCHANGED due, isRun' = isRun \/ isRun' = FALSE PROVE [Queue!Next]_(Queue!vars)
  BY <1>2, <1>6 DEF Queue!Next, Queue!Close, Queue!vars
<1>7. ASSUME NEW o \in Callers, CloseServer(o) PROVE UNCHANGED due /\ (isRun' = isRun \/ isRun' = FALSE)
  BY <1>7 DEF CloseServer, taskVars, CallClose, CloseStep, CloseStopped, CloseRunning, CloseWait,
              CloseResume, CloseDozes
<1>8. ASSUME NEW w \in Workers, OnWork(w) PROVE UNCHANGED due /\ (isRun' = isRun \/ isRun' = FALSE)
  BY <1>8 DEF OnWork, taskVars, OnWorkStep, OnCreate, OnDestory, SignalEnd, ClearIsRun
<1> QED BY <1>4, <1>5, <1>6, <1>7, <1>8

LEMMA TaskStep ==
  ASSUME TaskInv, isRun \in BOOLEAN, [Next]_vars
  PROVE  TaskInv' /\ [Queue!Next]_(Queue!vars)
<1>1. ASSUME NEW t \in Tasks, AddTask(t) PROVE TaskInv' /\ Queue!Next
  BY <1>1, AddTaskStep DEF Queue!Next
<1>2. CASE \/ \E o \in Callers : StartServer(o) \/ CloseServer(o)
           \/ \E w \in Workers : OnWork(w)
  BY <1>2, ThreadStepOfQueue
<1>3. ASSUME NEW w \in Workers, OnRunStep(w) PROVE TaskInv' /\ [Queue!Next]_(Queue!vars)
  BY <1>3, ExecuteStep, OtherRunStep DEF OnRunStep, Queue!Next
<1>4. CASE UNCHANGED vars
  BY <1>4 DEF vars, taskVars, threadVars, Queue!vars, TaskInv, TaskTypeOK, LoopInRange, InOrder,
              Pending, Rest
<1> QED BY <1>1, <1>2, <1>3, <1>4 DEF Next

LEMMA InitTaskInv == Init => TaskInv /\ Queue!Init
<1> SUFFICES ASSUME Init PROVE TaskInv /\ Queue!Init
  OBVIOUS
<1>1. <<>> \in Seq(Tasks) /\ Len(<<>>) = 0
  BY EmptySeq
<1>2. TaskTypeOK /\ LoopInRange
  BY <1>1 DEF Init, TaskTypeOK, LoopInRange
<1>3. executed \o Pending = added
  <2>1. Pending = <<>>
    BY <1>1, PendingIs, PendingOutside DEF Init
  <2> QED BY <1>1, <2>1, PendingOutside DEF Init
<1> QED BY <1>2, <1>3 DEF TaskInv, InOrder, Queue!Init, Init, ThreadInit

\* No task is lost, repeated or overtaken on its way through the shared
\* buffer, the private list and the last loop of OnRun, whatever the thread
\* and its owners do meanwhile.
THEOREM TasksInOrder == SafeSpec => []InOrder
<1>1. ThreadTypeOK => isRun \in BOOLEAN
  BY DEF ThreadTypeOK
<1>2. TaskInv => InOrder
  BY DEF TaskInv
<1> QED BY <1>1, <1>2, InitTaskInv, TaskStep, TaskServerIsThread, TypeCorrect, PTL DEF SafeSpec

\* The safety part of the refinement: CellTaskServer implements the queue.
THEOREM ImplementsTaskQueue == SafeSpec => Queue!Safe
<1>1. ThreadTypeOK => isRun \in BOOLEAN
  BY DEF ThreadTypeOK
<1> QED BY <1>1, InitTaskInv, TaskStep, TaskServerIsThread, TypeCorrect, PTL
        DEF SafeSpec, Queue!Safe
-----------------------------------------------------------------------------
(* The log on its task server.                                             *)

LEMMA LinesAreTasks ==
  ASSUME NEW p \in PErrors
  PROVE  Lines[p][1] \in Tasks /\ Lines[p][2] \in Tasks
BY MessagesAreTasks

\* Every step of the log is a step of its task server, or leaves it alone.
LEMMA LogStepIsTaskStep == [LogNext]_logVars => [Next]_vars
<1> SUFFICES ASSUME [LogNext]_logVars PROVE [Next]_vars
  OBVIOUS
<1>1. ASSUME NEW o \in Callers, MainStep(o) PROVE [Next]_vars
  <2>1. CASE Create(o)
    BY <2>1 DEF Create, Next
  <2>2. CASE Destroy(o)
    BY <2>2 DEF Destroy, CloseServer, Next
  <2>3. CASE InClose(o)
    BY <2>3 DEF InClose, CloseServer, Next
  <2>4. CASE InfoOpened \/ InfoClosing(o)
    BY <2>4, MessagesAreTasks DEF InfoOpened, InfoClosing, Next
  <2>5. CASE OpenFile \/ CloseFile \/ Destroyed(o)
    BY <2>5 DEF OpenFile, CloseFile, Destroyed
  <2> QED BY <1>1, <2>1, <2>2, <2>3, <2>4, <2>5 DEF MainStep
<1>2. ASSUME NEW t \in Tasks, ThreadLogs(t) PROVE Next
  BY <1>2 DEF ThreadLogs, Next
<1>3. ASSUME NEW w \in Workers, WorkerLogs(w) PROVE [Next]_vars
  <2>1. ASSUME NEW p \in PErrors, EchoLines(w, p) PROVE Next
    BY <2>1, LinesAreTasks DEF EchoLines, Next
  <2>2. ASSUME NEW t \in Tasks, TestFile(w, t) \/ WriteFile(w, t) PROVE UNCHANGED vars
    BY <2>2 DEF TestFile, WriteFile
  <2>3. CASE TaskReturns(w)
    BY <2>3 DEF TaskReturns, OnRunStep, Next
  <2>4. CASE LoopStep(w)
    BY <2>4 DEF LoopStep, OnRunStep, Next
  <2> QED BY <1>3, <2>1, <2>2, <2>3, <2>4 DEF WorkerLogs
<1>4. CASE UNCHANGED logVars
  BY <1>4 DEF logVars
<1> QED BY <1>1, <1>2, <1>3, <1>4 DEF LogNext

\* The log uses the task server as CellTask allows.
THEOREM LogIsTaskServer == LogSpec => SafeSpec
<1>1. LogInit => Init
  BY DEF LogInit
<1> QED BY <1>1, LogStepIsTaskStep, PTL DEF LogSpec, SafeSpec

\* Messages are executed in the order they were logged, once each, the lines
\* that the worker logs for itself included.
THEOREM LogInOrder == LogSpec => []InOrder
BY LogIsTaskServer, TasksInOrder, PTL

\* What the log uses is a task queue.
THEOREM LogImplementsTaskQueue == LogSpec => Queue!Safe
BY LogIsTaskServer, ImplementsTaskQueue, PTL
-----------------------------------------------------------------------------
(* The file.                                                               *)

WorkersDone == \A w \in Workers : Ended(w)

\* The worker is in the task it has called.
InTask ==
  /\ \E w \in Workers : workerPc[w] = "run"
  /\ \/ taskPc = "execute" /\ at < Len(tasks)
     \/ taskPc = "drain" /\ at < Len(tasksBuf)

\* From the end of Close on nobody writes, which is what WritesOpen rests
\* on; that needs JoinInv, for which onRun must not have called Exit.
FileInv ==
  /\ logFile \in {"none", "open", "closed"}
  /\ mainPc \in {"new", "path"} => logFile = "none"
  /\ logFile = "closed" => mainPc = "null"
  /\ mainPc \in {"fclose", "null", "ended"} => WorkersDone
  /\ mainPc = "close" => \A o \in Callers : ownerPc[o] = "idle" => WorkersDone
  /\ echoPc # "called" => InTask
  /\ ~exited
  /\ WritesOpen

\* What is known of the thread and the task server in every state of the log.
Known == IInv /\ JoinInv /\ TaskInv

LEMMA KnownInvariant == LogSpec => []Known
<1>1. ThreadInit => JoinInv
  BY DEF ThreadInit, JoinInv, Ended
<1>2. ThreadSafeSpec => [](IInv /\ JoinInv)
  BY <1>1, JoinInvPreserved, IInvInvariant, PTL DEF ThreadSafeSpec
<1>3. IInv => isRun \in BOOLEAN
  BY DEF IInv, ThreadTypeOK
<1>4. SafeSpec => [](IInv /\ JoinInv /\ TaskInv)
  BY <1>2, <1>3, InitTaskInv, TaskStep, TaskServerIsThread, PTL DEF SafeSpec
<1>5. Known <=> IInv /\ JoinInv /\ TaskInv
  BY DEF Known
<1> QED BY <1>4, <1>5, LogIsTaskServer, PTL

\* A Close that ends has found the worker done.
LEMMA CloseEndsDone ==
  ASSUME Known, ~exited, NEW o \in Callers, CloseStep(o) \/ CloseDozes(o),
         ownerPc[o] # "idle", ownerPc'[o] = "idle"
  PROVE  WorkersDone'
<1>1. ThreadNext
  BY DEF ThreadNext, OwnerNext
<1>2. StartedOnce
  BY StartedOnceNoExit DEF StartedOnce
<1>3. \A w \in Workers : Ended(w)
  BY <1>1, <1>2, CloseJoinsStep DEF Known
<1>4. workerPc' = workerPc
  BY DEF CloseStep, CloseStopped, CloseRunning, CloseWait, CloseResume, CloseDozes
<1> QED BY <1>3, <1>4 DEF WorkersDone, Ended

\* The steps of other threads, as far as FileInv depends on them.
LEMMA AddKeepsTask ==
  ASSUME Known, NEW t \in Tasks, AddTask(t)
  PROVE  (InTask => InTask') /\ UNCHANGED <<exited, workerPc>>
<1>1. tasksBuf' = Append(tasksBuf, t) /\ Len(tasksBuf') = Len(tasksBuf) + 1
  BY AppendProperties DEF AddTask, Known, TaskInv, TaskTypeOK
<1>2. Len(tasksBuf) \in Nat /\ at \in Nat
  BY LenProperties DEF Known, TaskInv, TaskTypeOK
<1> QED BY <1>1, <1>2 DEF InTask, AddTask, threadVars

LEMMA MainKeeps ==
  ASSUME Known, FileInv, NEW o \in Callers, MainStep(o)
  PROVE  /\ InTask => InTask'
         /\ ~exited'
         /\ WorkersDone /\ mainPc # "new" => WorkersDone'
<1> USE DEF InTask, WorkersDone, Ended
<1>1. CASE Create(o)
  BY <1>1, StartedOnceNoExit
     DEF Create, StartServer, Start, Main, Known, IInv, ThreadTypeOK, FileInv
<1>2. CASE Destroy(o) \/ InClose(o)
  BY <1>2 DEF Destroy, InClose, taskVars, CallClose, CloseStep, CloseStopped, CloseRunning, CloseWait,
              CloseResume, CloseDozes, FileInv
<1>3. CASE InfoOpened \/ InfoClosing(o)
  BY <1>3, AddKeepsTask, MessagesAreTasks DEF InfoOpened, InfoClosing, FileInv
<1>4. CASE OpenFile \/ CloseFile \/ Destroyed(o)
  BY <1>4 DEF OpenFile, CloseFile, Destroyed, vars, taskVars, threadVars, FileInv
<1> QED BY <1>1, <1>2, <1>3, <1>4 DEF MainStep

LEMMA MainFileInv ==
  ASSUME Known, FileInv, NEW o \in Callers, MainStep(o)
  PROVE  FileInv'
<1>1. (InTask => InTask') /\ ~exited' /\ (WorkersDone /\ mainPc # "new" => WorkersDone')
  BY MainKeeps
<1>2. echoPc' = echoPc
  BY DEF MainStep, Create, OpenFile, InfoOpened, Destroy, InClose, fileVars, InfoClosing, CloseFile,
         Destroyed
<1>3. WorkersDone => echoPc = "called"
  BY DEF WorkersDone, Ended, FileInv, InTask
<1>4. CASE Create(o) \/ OpenFile \/ InfoOpened
  BY <1>1, <1>2, <1>4 DEF Create, OpenFile, InfoOpened, Main, FileInv, WritesOpen
<1>5. CASE Destroy(o)
  <2>1. ownerPc'[o] = "lock"
    BY <1>5 DEF Destroy, CallClose, Known, IInv, ThreadTypeOK
  <2>2. \A p \in Callers : p = o
    BY OneOwner
  <2> QED BY <1>1, <1>2, <1>5, <2>1, <2>2 DEF Destroy, Main, FileInv, WritesOpen
<1>6. CASE InClose(o)
  <2>1. UNCHANGED fileVars /\ mainPc = "close" /\ (CloseStep(o) \/ CloseDozes(o))
    BY <1>6 DEF InClose
  <2>2. ASSUME NEW p \in Callers, ownerPc'[p] = "idle" PROVE WorkersDone'
    <3>1. p = o
      BY OneOwner
    <3>2. CASE ownerPc[o] = "idle"
      BY <1>1, <2>1, <3>2 DEF FileInv
    <3>3. CASE ownerPc[o] # "idle"
      BY <2>1, <2>2, <3>1, <3>3, CloseEndsDone DEF FileInv
    <3> QED BY <3>2, <3>3
  <2> QED BY <1>1, <1>2, <2>1, <2>2 DEF fileVars, FileInv, WritesOpen
<1>7. CASE InfoClosing(o) \/ CloseFile \/ Destroyed(o)
  BY <1>1, <1>2, <1>3, <1>7 DEF InfoClosing, CloseFile, Destroyed, Main, FileInv, WritesOpen
<1> QED BY <1>4, <1>5, <1>6, <1>7 DEF MainStep

LEMMA WorkerFileInv ==
  ASSUME Known, FileInv, NEW w \in Workers, WorkerLogs(w)
  PROVE  FileInv'
<1>1. logFile' = logFile /\ mainPc' = mainPc /\ ownerPc' = ownerPc
  BY DEF WorkerLogs, EchoLines, TestFile, WriteFile, TaskReturns, LoopStep, fileVars, vars, threadVars,
         AddTask, ExecuteTask, DrainTask, Execute, OnWork, OnWorkStep, OnCreate, OnDestory, SignalEnd,
         ClearIsRun, TestIsRun, LookAtBuf, MoveTasks, ClearTasks, ReturnFromOnRun, OnRun, LeaveOnRun
<1>2. exited' = exited
  BY DEF WorkerLogs, EchoLines, TestFile, WriteFile, TaskReturns, LoopStep, fileVars, vars, threadVars,
         AddTask, ExecuteTask, DrainTask, Execute, OnWork, OnWorkStep, OnCreate, OnDestory, SignalEnd,
         ClearIsRun, TestIsRun, LookAtBuf, MoveTasks, ClearTasks, ReturnFromOnRun, OnRun, LeaveOnRun
<1>3. ASSUME workerPc' = workerPc, echoPc' # "called" => InTask', WritesOpen' PROVE FileInv'
  BY <1>1, <1>2, <1>3 DEF FileInv, WorkersDone, Ended
<1>4. ASSUME NEW p \in PErrors, EchoLines(w, p) PROVE FileInv'
  <2>1. InTask
    BY <1>4 DEF EchoLines, Calls, InTask
  <2>2. \E t \in Tasks : AddTask(t)
    BY <1>4, LinesAreTasks DEF EchoLines
  <2>3. InTask' /\ workerPc' = workerPc
    BY <2>1, <2>2, AddKeepsTask
  <2>4. echoPc' \in {"second", "return"}
    BY <1>4 DEF EchoLines, Echo
  <2> QED BY <1>3, <2>3, <2>4 DEF WritesOpen
<1>5. ASSUME NEW t \in Tasks, TestFile(w, t) \/ WriteFile(w, t) PROVE FileInv'
  <2>1. InTask /\ workerPc[w] = "run"
    BY <1>5 DEF TestFile, WriteFile, Calls, InTask
  <2>2. workerPc' = workerPc /\ InTask'
    BY <1>5, <2>1 DEF TestFile, WriteFile, vars, threadVars, taskVars, InTask
  <2>3. logFile # "closed"
    BY <2>1 DEF FileInv, WorkersDone, Ended
  <2>4. WritesOpen'
    BY <1>1, <1>5, <2>3 DEF TestFile, WriteFile, Echo, WritesOpen, FileInv
  <2> QED BY <1>3, <2>2, <2>4
<1>6. CASE TaskReturns(w)
  <2>1. workerPc' = workerPc /\ echoPc' = "called"
    BY <1>6 DEF TaskReturns, Echo, ExecuteTask, DrainTask, Execute, threadVars
  <2> QED BY <1>3, <2>1 DEF WritesOpen
<1>7. CASE LoopStep(w)
  <2>1. echoPc' = echoPc /\ WritesOpen'
    BY <1>7 DEF LoopStep, fileVars, FileInv, WritesOpen
  <2>2. CASE OnWork(w)
    <3>1. /\ workerPc[w] \in {"create", "destory", "wakeup", "clear"}
          /\ workerPc' = [workerPc EXCEPT ![w] = workerPc'[w]]
          /\ workerPc[w] = "clear" => workerPc'[w] = "gone"
          /\ UNCHANGED taskVars
      BY <2>2 DEF OnWork, OnWorkStep, OnCreate, OnDestory, SignalEnd, ClearIsRun, WorkerAt, Known, IInv,
                  ThreadTypeOK
    <3>2. ~InTask
      BY <3>1, StartedOnceNoExit DEF InTask
    <3>3. WorkersDone => WorkersDone'
      BY <3>1 DEF WorkersDone, Ended, Known, IInv, ThreadTypeOK
    <3> QED BY <1>1, <1>2, <2>1, <3>2, <3>3 DEF FileInv
  <2>3. CASE \/ TestIsRun(w) \/ LookAtBuf(w) \/ MoveTasks(w) \/ ClearTasks(w)
             \/ ReturnFromOnRun(w)
    <3>1. ~InTask /\ workerPc[w] = "run"
      BY <2>3 DEF TestIsRun, LookAtBuf, MoveTasks, ClearTasks, ReturnFromOnRun, At, InTask,
                  Known, TaskInv, TaskTypeOK
    <3>2. ~WorkersDone
      BY <3>1 DEF WorkersDone, Ended
    <3> QED BY <1>1, <1>2, <2>1, <3>1, <3>2 DEF FileInv
  <2> QED BY <1>7, <2>2, <2>3 DEF LoopStep
<1> QED BY <1>4, <1>5, <1>6, <1>7 DEF WorkerLogs

LEMMA FileInvPreserved ==
  ASSUME Known, FileInv, [LogNext]_logVars
  PROVE  FileInv'
<1>1. ASSUME NEW t \in Tasks, ThreadLogs(t) PROVE FileInv'
  BY <1>1, AddKeepsTask DEF ThreadLogs, fileVars, AddTask, threadVars, FileInv, WorkersDone, Ended,
                            WritesOpen
<1>2. CASE UNCHANGED logVars
  BY <1>2 DEF logVars, vars, threadVars, taskVars, fileVars, FileInv, WorkersDone, Ended, InTask,
              WritesOpen
<1> QED BY <1>1, <1>2, MainFileInv, WorkerFileInv DEF LogNext

\* The worker never writes to a file that the main thread has closed or has
\* not opened, although the test before the write is not protected.
THEOREM WritesOpenCorrect == LogSpec => []WritesOpen
<1>1. LogInit => FileInv
  BY DEF LogInit, Init, ThreadInit, FileInv, WritesOpen
<1>2. FileInv => WritesOpen
  BY DEF FileInv
<1> QED BY <1>1, <1>2, KnownInvariant, FileInvPreserved, PTL DEF LogSpec
-----------------------------------------------------------------------------
(* What is in the file when it is closed.                                  *)

Executed == {executed[i] : i \in DOMAIN executed}

\* The task that the worker is in.
Called == RunningOf(taskPc, tasks, tasksBuf)[at + 1]

LinesOf(p) == {Lines[p][1], Lines[p][2]}

\* The main thread starts the worker first, and lets it go on until Close;
\* it closes only a file that it has opened.
PhaseInv ==
  /\ mainPc = "new" => taskPc = "test" /\ \A w \in Workers : workerPc[w] = "none"
  /\ mainPc # "new" => \E w \in Workers : workerPc[w] # "none"
  /\ mainPc \in {"path", "info", "use"} => isRun
  /\ mainPc = "fclose" => logFile # "none"
  /\ taskPc \in {"drain", "done"} => ~isRun
  /\ \A w \in Workers : workerPc[w] \notin {"none", "create", "run"} => taskPc = "done"

\* What the task of t has to have done when it returns.
Handled(t) == IF t \in PErrors THEN LinesOf(t) \subseteq Added \ opened ELSE t \in written

\* Once the file is open, a task that was added since leaves what it has to;
\* and the last loop of the worker leaves nothing that was logged before
\* ~CellLog, or by a task that it has executed.
RecordInv ==
  /\ opened \cup closing \subseteq Added
  /\ echoPc = "write" => Called \notin PErrors
  /\ logFile # "none" =>
       /\ \A t \in Executed \ opened : Handled(t)
       /\ echoPc = "return" /\ Called \notin opened => Handled(Called)
       /\ echoPc = "second" /\ Called \notin opened => Lines[Called][1] \in Added \ opened
  /\ taskPc = "done" =>
       /\ closing \subseteq Executed
       /\ logFile # "none" => \A p \in (PErrors \cap Executed) \ opened : LinesOf(p) \subseteq Executed

LEMMA CalledTask ==
  ASSUME Known, InTask
  PROVE  Called \in Tasks /\ Called \in Added
<1> DEFINE t == Called
<1>1. /\ tasksBuf \in Seq(Tasks) /\ tasks \in Seq(Tasks) /\ executed \in Seq(Tasks) /\ at \in Nat
      /\ added \in Seq(Tasks) /\ executed \o Pending = added
  BY DEF Known, TaskInv, TaskTypeOK, InOrder
<1>2. at < Len(RunningOf(taskPc, tasks, tasksBuf))
  BY DEF InTask, RunningOf
<1> DEFINE rest == PendingOf(taskPc, tasks, tasksBuf, at + 1)
<1>3. t \in Tasks /\ rest \in Seq(Tasks) /\ Pending = <<t>> \o rest
  <2>1. Pending = PendingOf(taskPc, tasks, tasksBuf, at)
    BY PendingIs
  <2>2. /\ t \in Tasks /\ rest \in Seq(Tasks)
        /\ PendingOf(taskPc, tasks, tasksBuf, at) = <<t>> \o rest
    BY <1>1, <1>2, PendingExecute DEF Called
  <2> QED BY <2>1, <2>2
<1> HIDE DEF t, rest
<1>4. Len(executed) < Len(added) /\ added[Len(executed) + 1] = t
  BY <1>1, <1>3, MoveFirst
<1>5. Len(executed) + 1 \in DOMAIN added
  BY <1>1, <1>4, LenProperties
<1> QED BY <1>3, <1>4, <1>5 DEF Added, t

LEMMA AddRecords ==
  ASSUME Known, NEW t \in Tasks, AddTask(t)
  PROVE  /\ Added' = Added \cup {t} /\ t \notin Added /\ Executed' = Executed
         /\ InTask => Called' = Called
<1>1. /\ tasksBuf \in Seq(Tasks) /\ tasks \in Seq(Tasks) /\ at \in Nat /\ added \in Seq(Tasks)
  BY DEF Known, TaskInv, TaskTypeOK
<1>2. /\ added' = Append(added, t) /\ tasksBuf' = Append(tasksBuf, t)
      /\ UNCHANGED <<executed, tasks, at, taskPc>>
  BY DEF AddTask
<1>3. /\ DOMAIN added' = DOMAIN added \cup {Len(added) + 1} /\ added'[Len(added) + 1] = t
      /\ \A i \in DOMAIN added : added'[i] = added[i]
  BY <1>1, <1>2, AppendProperties, LenProperties
<1>4. Added' = Added \cup {t}
  BY <1>3 DEF Added
<1>5. t \notin Added
  BY DEF AddTask, Added
<1>6. ASSUME InTask PROVE Called' = Called
  <2>1. \A i \in 1..Len(tasksBuf) : tasksBuf'[i] = tasksBuf[i]
    BY <1>1, <1>2, AppendProperties
  <2>2. taskPc \in {"drain", "done"} => at + 1 \in 1..Len(tasksBuf)
    BY <1>1, <1>6, LenProperties DEF InTask
  <2> QED BY <1>2, <2>1, <2>2 DEF Called, RunningOf
<1> QED BY <1>2, <1>4, <1>5, <1>6 DEF Executed

LEMMA ExecuteRecords ==
  ASSUME Known, NEW w \in Workers, ExecuteTask(w) \/ DrainTask(w)
  PROVE  InTask /\ Executed' = Executed \cup {Called} /\ added' = added /\ taskPc' = taskPc
<1>1. /\ executed' = Append(executed, Called) /\ added' = added /\ taskPc' = taskPc
      /\ workerPc[w] = "run" /\ InTask
  BY DEF ExecuteTask, DrainTask, Execute, At, Called, RunningOf, InTask
<1>2. executed \in Seq(Tasks) /\ Called \in Tasks
  BY <1>1, CalledTask DEF Known, TaskInv, TaskTypeOK
<1> HIDE DEF Called
<1>3. /\ DOMAIN executed' = DOMAIN executed \cup {Len(executed) + 1}
      /\ executed'[Len(executed) + 1] = Called
      /\ \A i \in DOMAIN executed : executed'[i] = executed[i]
  BY <1>1, <1>2, AppendProperties, LenProperties
<1>4. Executed' = Executed \cup {Called}
  BY <1>3 DEF Executed
<1> QED BY <1>1, <1>4

\* When OnRun returns every task that was added has been executed.
LEMMA ReturnRecords ==
  ASSUME Known, NEW w \in Workers, ReturnFromOnRun(w)
  PROVE  Executed' = Added'
<1>1. taskPc = "drain" /\ at = Len(tasksBuf) /\ UNCHANGED <<added, executed>>
  BY DEF ReturnFromOnRun, At
<1>2. tasksBuf \in Seq(Tasks) /\ executed \in Seq(Tasks) /\ executed \o Pending = added
  BY DEF Known, TaskInv, TaskTypeOK, InOrder
<1>3. Pending = <<>>
  <2>1. Len(tasksBuf) \in 0..Len(tasksBuf)
    BY <1>2, LenProperties
  <2> QED BY <1>1, <1>2, <2>1, AfterProperties DEF Pending, Rest, After
<1>4. executed = added
  BY <1>2, <1>3, ConcatEmptySeq
<1> QED BY <1>1, <1>4 DEF Executed, Added

LEMMA ExecutedAdded == Known => Executed \subseteq Added
<1> SUFFICES ASSUME Known, NEW i \in DOMAIN executed PROVE executed[i] \in Added
  BY DEF Executed
<1>1. /\ tasksBuf \in Seq(Tasks) /\ tasks \in Seq(Tasks) /\ executed \in Seq(Tasks) /\ at \in Nat
      /\ executed \o Pending = added /\ Len(<<>>) = 0
  BY EmptySeq DEF Known, TaskInv, TaskTypeOK, InOrder
<1>2. IF taskPc \in {"drain", "done"} THEN at <= Len(tasksBuf) ELSE at <= Len(tasks)
  BY <1>1, LenProperties DEF Known, TaskInv, TaskTypeOK, LoopInRange
<1>3. i \in 1..Len(executed) /\ executed[i] \in Tasks
  BY <1>1, LenProperties, ElementOfSeq
<1>4. PendingOf(taskPc, tasks, tasksBuf, at) \in Seq(Tasks)
  BY <1>1, <1>2, <1>3, PendingAdd
<1>5. Pending \in Seq(Tasks)
  BY <1>4, PendingIs
<1>6. i \in DOMAIN added /\ added[i] = executed[i]
  BY <1>1, <1>3, <1>5, ConcatProperties, LenProperties
<1> QED BY <1>6 DEF Added

LEMMA PhaseStep ==
  ASSUME Known, FileInv, PhaseInv, [LogNext]_logVars
  PROVE  PhaseInv'
<1>1. ASSUME UNCHANGED <<workerPc, taskPc, isRun>>, mainPc' = "new" <=> mainPc = "new",
             mainPc' \in {"path", "info", "use"} => mainPc \in {"path", "info", "use"},
             mainPc' = "fclose" => logFile' # "none"
      PROVE  PhaseInv'
  BY <1>1 DEF PhaseInv
<1>2. ASSUME NEW o \in Callers, MainStep(o) PROVE PhaseInv'
  <2> USE DEF Main
  <2>1. CASE Create(o)
    <3>1. PICK w \in Workers : workerPc[w] = "none" /\ workerPc' = [workerPc EXCEPT ![w] = "create"]
      BY <2>1 DEF Create, StartServer, Start
    <3>2. \A v \in Workers : v = w /\ workerPc'[v] = "create"
      BY <3>1, StartedOnceNoExit DEF Known, IInv, ThreadTypeOK
    <3> QED BY <2>1, <3>2 DEF Create, StartServer, Start, PhaseInv
  <2>2. CASE OpenFile \/ CloseFile \/ Destroyed(o)
    BY <1>1, <2>2 DEF OpenFile, CloseFile, Destroyed, vars, threadVars, taskVars
  <2>3. CASE InfoOpened \/ InfoClosing(o)
    BY <1>1, <2>3 DEF InfoOpened, InfoClosing, AddTask, threadVars
  <2>4. CASE Destroy(o)
    BY <1>1, <2>4 DEF Destroy, CallClose, taskVars
  <2>5. CASE InClose(o)
    <3>1. /\ mainPc' = mainPc /\ mainPc = "close" /\ workerPc' = workerPc /\ taskPc' = taskPc
          /\ isRun' = isRun \/ isRun' = FALSE
      BY <2>5 DEF InClose, fileVars, taskVars, CloseStep, CloseStopped, CloseRunning, CloseWait,
                  CloseResume, CloseDozes
    <3>2. ~isRun => ~isRun'
      BY <3>1
    <3> QED BY <3>1, <3>2 DEF PhaseInv
  <2> QED BY <1>2, <2>1, <2>2, <2>3, <2>4, <2>5 DEF MainStep
<1>3. ASSUME NEW t \in Tasks, ThreadLogs(t) PROVE PhaseInv'
  BY <1>3 DEF ThreadLogs, AddTask, threadVars, fileVars, PhaseInv
<1>4. ASSUME NEW w \in Workers, WorkerLogs(w) PROVE PhaseInv'
  <2>1. mainPc' = mainPc /\ logFile' = logFile
    BY <1>4 DEF WorkerLogs, EchoLines, TestFile, WriteFile, TaskReturns, LoopStep, fileVars
  <2>2. CASE (\E p \in PErrors : EchoLines(w, p)) \/ \E t \in Tasks : TestFile(w, t) \/ WriteFile(w, t)
    BY <2>1, <2>2 DEF EchoLines, TestFile, WriteFile, AddTask, vars, threadVars, taskVars, PhaseInv
  <2>3. CASE TaskReturns(w)
    BY <2>1, <2>3 DEF TaskReturns, ExecuteTask, DrainTask, Execute, At, threadVars, PhaseInv
  <2>4. CASE LoopStep(w)
    <3>1. CASE OnWork(w)
      <4>1. workerPc \in [Workers -> {"none", "create", "run", "exit", "destory", "wakeup", "clear", "gone"}]
        BY DEF Known, IInv, ThreadTypeOK
      <4>5. /\ workerPc[w] \in {"create", "destory", "wakeup", "clear"}
            /\ workerPc[w] = "create" <=> workerPc'[w] = "run"
            /\ workerPc'[w] \in {"run", "wakeup", "clear", "gone"}
        BY <3>1, <4>1 DEF OnWork, OnWorkStep, OnCreate, OnDestory, SignalEnd, ClearIsRun, WorkerAt
      <4>6. isRun' = isRun \/ (workerPc[w] = "clear" /\ isRun' = FALSE)
        BY <3>1 DEF OnWork, OnWorkStep, OnCreate, OnDestory, SignalEnd, ClearIsRun, WorkerAt
      <4>7. taskPc' = taskPc
        BY <3>1 DEF OnWork, taskVars
      <4>2. \A v \in Workers : v = w
        BY StartedOnceNoExit
      <4>3. isRun' <=> isRun
        BY <4>5, <4>6 DEF PhaseInv
      <4>4. mainPc # "new"
        BY <4>5 DEF PhaseInv
      <4> QED BY <2>1, <4>2, <4>3, <4>4, <4>5, <4>7 DEF PhaseInv
    <3>2. CASE TestIsRun(w) \/ LookAtBuf(w) \/ MoveTasks(w) \/ ClearTasks(w)
      <4>1. /\ workerPc[w] = "run" /\ UNCHANGED <<workerPc, isRun>> /\ taskPc # "done"
            /\ taskPc' \in {"drain", "done"} => ~isRun
        BY <3>2 DEF TestIsRun, LookAtBuf, MoveTasks, ClearTasks, At, threadVars
      <4>2. \A v \in Workers : workerPc[v] = "run"
        BY <4>1, StartedOnceNoExit
      <4> QED BY <2>1, <4>1, <4>2 DEF PhaseInv
    <3>3. CASE ReturnFromOnRun(w)
      <4>1. /\ workerPc[w] = "run" /\ workerPc' = [workerPc EXCEPT ![w] = "destory"]
            /\ taskPc = "drain" /\ taskPc' = "done" /\ isRun' = isRun
        BY <3>3 DEF ReturnFromOnRun, OnRun, LeaveOnRun, WorkerAt, At
      <4>2. workerPc'[w] = "destory"
        BY <4>1 DEF Known, IInv, ThreadTypeOK
      <4> QED BY <2>1, <4>1, <4>2 DEF PhaseInv
    <3> QED BY <2>4, <3>1, <3>2, <3>3 DEF LoopStep
  <2> QED BY <1>4, <2>2, <2>3, <2>4 DEF WorkerLogs
<1>5. CASE UNCHANGED logVars
  BY <1>5 DEF logVars, vars, threadVars, taskVars, fileVars, PhaseInv
<1> QED BY <1>2, <1>3, <1>4, <1>5 DEF LogNext

\* Steps that execute and write nothing.
LEMMA RecordKept ==
  ASSUME RecordInv, UNCHANGED <<added, executed, written, opened, closing>>,
         logFile' # "none" => logFile # "none", taskPc' = "done" => taskPc = "done",
         echoPc' = "called" \/ (echoPc' = echoPc /\ Called' = Called)
  PROVE  RecordInv'
BY DEF RecordInv, Handled, Executed, Added

LEMMA RecordAdd ==
  ASSUME Known, FileInv, RecordInv, NEW t \in Tasks, AddTask(t),
         UNCHANGED <<logFile, echoPc, written, opened, closing>>
  PROVE  RecordInv'
<1>1. /\ Added' = Added \cup {t} /\ Executed' = Executed /\ taskPc' = taskPc
      /\ echoPc # "called" => Called' = Called
  BY AddRecords DEF AddTask, FileInv
<1>2. \A u : Handled(u) => Handled(u)'
  BY <1>1 DEF Handled
<1> QED BY <1>1, <1>2 DEF RecordInv

LEMMA MainRecords ==
  ASSUME Known, FileInv, PhaseInv, RecordInv, NEW o \in Callers, MainStep(o)
  PROVE  RecordInv'
<1> USE DEF Main
<1>1. CASE Create(o)
  BY <1>1, RecordKept DEF Create, StartServer, Called
<1>2. CASE OpenFile
  <2>1. /\ opened' = Added /\ UNCHANGED <<added, executed, closing, written, taskPc, echoPc>>
        /\ taskPc # "done" /\ Called' = Called
    BY <1>2 DEF OpenFile, vars, taskVars, PhaseInv, Called
  <2>2. Executed \subseteq Added
    BY ExecutedAdded
  <2>3. echoPc # "called" => Called \in Added
    BY CalledTask DEF FileInv
  <2> QED BY <2>1, <2>2, <2>3 DEF RecordInv, Executed, Added
<1>3. CASE InfoOpened \/ InfoClosing(o)
  BY <1>3, RecordAdd, MessagesAreTasks DEF InfoOpened, InfoClosing
<1>4. CASE Destroy(o)
  <2>1. /\ closing' = Added /\ UNCHANGED <<added, executed, opened, written, taskPc, echoPc, logFile>>
        /\ taskPc # "done" /\ Called' = Called
    BY <1>4 DEF Destroy, taskVars, PhaseInv, Called
  <2> QED BY <2>1 DEF RecordInv, Handled, Executed, Added
<1>5. CASE InClose(o)
  BY <1>5, RecordKept DEF InClose, taskVars, fileVars, Called
<1>6. CASE CloseFile \/ Destroyed(o)
  BY <1>6, RecordKept DEF CloseFile, Destroyed, vars, taskVars, Called, PhaseInv
<1> QED BY <1>1, <1>2, <1>3, <1>4, <1>5, <1>6 DEF MainStep

LEMMA WorkerRecords ==
  ASSUME Known, FileInv, PhaseInv, RecordInv, NEW w \in Workers, WorkerLogs(w)
  PROVE  RecordInv'
<1>1. ASSUME NEW p \in PErrors, EchoLines(w, p) PROVE RecordInv'
  <2>1. InTask /\ Called = p /\ UNCHANGED <<logFile, written, opened, closing>>
    BY <1>1 DEF EchoLines, Calls, InTask, Called, RunningOf
  <2>2. PICK t \in LinesOf(p) :
           /\ AddTask(t) /\ t \in Tasks
           /\ \/ echoPc' = "second" /\ t = Lines[p][1]
              \/ echoPc = "second" /\ echoPc' = "return" /\ t = Lines[p][2]
    BY <1>1, LinesAreTasks DEF EchoLines, Echo, LinesOf
  <2>3. /\ Added' = Added \cup {t} /\ t \notin Added /\ Executed' = Executed /\ Called' = Called
        /\ taskPc' = taskPc
    BY <2>1, <2>2, AddRecords DEF AddTask
  <2>4. \A u : Handled(u) => Handled(u)'
    BY <2>1, <2>3 DEF Handled
  <2>5. t \in Added' \ opened
    BY <2>3 DEF RecordInv
  <2>6. ASSUME logFile # "none", Called \notin opened, echoPc' = "return" PROVE Handled(Called)'
    BY <2>1, <2>2, <2>3, <2>5, <2>6 DEF RecordInv, Handled, LinesOf
  <2>7. echoPc' = "second" /\ Called \notin opened => Lines[Called'][1] \in Added' \ opened
    BY <2>1, <2>2, <2>3, <2>5
  <2>8. echoPc' \in {"second", "return"}
    BY <2>2
  <2> QED BY <2>1, <2>3, <2>4, <2>6, <2>7, <2>8 DEF RecordInv
<1>2. ASSUME NEW t \in Tasks, TestFile(w, t) \/ WriteFile(w, t) PROVE RecordInv'
  <2>1. Calls(w, t) /\ UNCHANGED <<vars, logFile, opened, closing>>
    BY <1>2 DEF TestFile, WriteFile
  <2>2. UNCHANGED <<tasks, tasksBuf, at, added, executed, taskPc>>
    BY <2>1 DEF vars, taskVars
  <2>3. Called = t /\ Called' = Called /\ t \notin PErrors
    BY <1>2, <2>1, <2>2 DEF Calls, Called, RunningOf, TestFile, WriteFile, Echo, RecordInv
  <2>4. CASE TestFile(w, t)
    <3>1. written' = written /\ (echoPc' = "write" \/ (echoPc' = "return" /\ logFile = "none"))
      BY <2>4 DEF TestFile, Echo
    <3> QED BY <2>1, <2>2, <2>3, <3>1 DEF RecordInv, Handled, Executed, Added
  <2>5. CASE WriteFile(w, t)
    <3>1. written' = written \cup {t} /\ echoPc' = "return"
      BY <2>5 DEF WriteFile, Echo, FileInv, WritesOpen
    <3>2. \A u : Handled(u) => Handled(u)'
      BY <2>1, <2>2, <2>3, <3>1 DEF Handled, Added
    <3>3. Handled(Called)'
      BY <2>1, <2>2, <2>3, <3>1 DEF Handled
    <3> QED BY <2>1, <2>2, <2>3, <3>1, <3>2, <3>3 DEF RecordInv, Executed, Added
  <2> QED BY <1>2, <2>4, <2>5
<1>3. CASE TaskReturns(w)
  <2>1. /\ Executed' = Executed \cup {Called} /\ added' = added /\ taskPc' = taskPc /\ taskPc # "done"
        /\ echoPc = "return" /\ echoPc' = "called" /\ UNCHANGED <<logFile, written, opened, closing>>
    BY <1>3, ExecuteRecords DEF TaskReturns, Echo, ExecuteTask, DrainTask, At
  <2> QED BY <2>1 DEF RecordInv, Handled, Added
<1>4. CASE LoopStep(w)
  <2>1. UNCHANGED fileVars
    BY <1>4 DEF LoopStep
  <2>2. CASE OnWork(w)
    BY <2>1, <2>2, RecordKept DEF OnWork, taskVars, fileVars, Called
  <2>3. CASE TestIsRun(w) \/ LookAtBuf(w) \/ MoveTasks(w) \/ ClearTasks(w)
    <3>1. /\ taskPc \in {"test", "look", "move"} \/ (taskPc = "execute" /\ at = Len(tasks))
          /\ taskPc' # "done" /\ UNCHANGED <<added, executed>>
      BY <2>3 DEF TestIsRun, LookAtBuf, MoveTasks, ClearTasks, At
    <3>2. echoPc = "called"
      BY <3>1 DEF FileInv, InTask, Known, TaskInv, TaskTypeOK
    <3> QED BY <2>1, <3>1, <3>2, RecordKept DEF fileVars
  <2>4. CASE ReturnFromOnRun(w)
    <3>1. Executed' = Added' /\ UNCHANGED <<added, executed, Added, Executed>> /\ Called' = Called
      BY <2>4, ReturnRecords DEF ReturnFromOnRun, At, Executed, Added, Called, RunningOf
    <3>2. \A u : Handled(u) <=> Handled(u)'
      BY <2>1, <3>1 DEF Handled, fileVars
    <3>3. logFile # "none" => \A p \in (PErrors \cap Executed) \ opened : LinesOf(p) \subseteq Executed
      BY <3>1 DEF RecordInv, Handled
    <3> QED BY <2>1, <3>1, <3>2, <3>3 DEF RecordInv, fileVars
  <2> QED BY <1>4, <2>2, <2>3, <2>4 DEF LoopStep
<1> QED BY <1>1, <1>2, <1>3, <1>4 DEF WorkerLogs

LEMMA RecordStep ==
  ASSUME Known, FileInv, PhaseInv, RecordInv, [LogNext]_logVars
  PROVE  RecordInv'
<1>1. ASSUME NEW t \in Tasks, ThreadLogs(t) PROVE RecordInv'
  BY <1>1, RecordAdd DEF ThreadLogs, fileVars
<1>2. CASE UNCHANGED logVars
  BY <1>2, RecordKept DEF logVars, vars, taskVars, fileVars, Called
<1> QED BY <1>1, <1>2, MainRecords, WorkerRecords DEF LogNext

LEMMA ClosedIsComplete ==
  ASSUME FileInv, PhaseInv, RecordInv
  PROVE  FileComplete
<1> SUFFICES ASSUME logFile = "closed", NEW t \in closing \ opened
             PROVE  IF t \in PErrors THEN LinesOf(t) \subseteq written ELSE t \in written
  BY DEF FileComplete, LinesOf
<1>1. mainPc = "null" /\ \A w \in Workers : Ended(w)
  BY DEF FileInv, WorkersDone
<1>2. taskPc = "done"
  BY <1>1 DEF PhaseInv, Ended
<1>3. t \in Executed /\ Handled(t)
  BY <1>2 DEF RecordInv
<1>4. ASSUME t \in PErrors, NEW l \in LinesOf(t) PROVE l \in written
  <2>1. l \in Executed \ opened
    BY <1>2, <1>3, <1>4 DEF RecordInv, Handled
  <2>2. l \notin PErrors
    BY <1>4, MessagesAreTasks DEF LinesOf
  <2> QED BY <2>1, <2>2 DEF RecordInv, Handled
<1> QED BY <1>3, <1>4 DEF Handled

\* When the log closes its file, the file has every message that was logged
\* after it was opened and before the destructor began, and both lines of
\* every error among them: also those that the worker itself logged while it
\* was draining the buffer.
THEOREM FileCompleteCorrect == LogSpec => []FileComplete
<1>1. LogInit => FileInv /\ PhaseInv /\ RecordInv
  BY DEF LogInit, Init, ThreadInit, FileInv, WritesOpen, PhaseInv, RecordInv, Added
<1> QED BY <1>1, KnownInvariant, FileInvPreserved, PhaseStep, RecordStep, ClosedIsComplete, PTL
        DEF LogSpec
=============================================================================
