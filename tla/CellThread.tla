----------------------------- MODULE CellThread -----------------------------
(***************************************************************************)
(* depends/include/CellThread.hpp: one CellThread object, the threads that *)
(* own it (they call Start and Close) and the detached worker threads that *)
(* Start creates, one incarnation per effective Start.  _mutex is held     *)
(* across Close, its wait on the semaphore included, so it is a variable;  *)
(* Start and Exit take and release it in one step.  isRun() and the last   *)
(* store of OnWork use no lock.  The Callers of its semaphore _sem are the *)
(* owners.                                                                 *)
(***************************************************************************)
EXTENDS CellSemaphore

CONSTANTS
  Workers,   \* bound: the worker threads that Start may create
  CanExit,   \* may onRun call Exit()? (a failed poll does, a task loop never)
  NoOne      \* no thread holds _mutex

ASSUME WorkersFinite == IsFiniteSet(Workers)
ASSUME NoOneIsNoCaller == NoOne \notin Callers
ASSUME CanExitBool == CanExit \in BOOLEAN

VARIABLES
  isRun,      \* _isRun
  mutex,      \* the owner inside Close that holds _mutex, or NoOne
  ownerPc,    \* where each owner is in Close
  workerPc,   \* where each worker is in OnWork
  joins,      \* history: Close calls that have returned from _sem.wait()
  exited      \* history: has an onRun called Exit?

threadVars == <<isRun, mutex, ownerPc, workerPc, semVars, joins, exited>>

ThreadInit ==
  /\ isRun = FALSE
  /\ mutex = NoOne
  /\ ownerPc = [o \in Callers |-> "idle"]
  /\ workerPc = [w \in Workers |-> "none"]
  /\ SemInit
  /\ joins = 0
  /\ exited = FALSE
-----------------------------------------------------------------------------
\* Start on a thread that does not run.  (On a running one it does nothing.)
Start(o) ==
  /\ ownerPc[o] = "idle"
  /\ mutex = NoOne
  /\ ~isRun
  /\ isRun' = TRUE
  /\ \E w \in Workers : /\ workerPc[w] = "none"
                        /\ workerPc' = [workerPc EXCEPT ![w] = "create"]
  /\ UNCHANGED <<mutex, ownerPc, semVars, joins, exited>>

\* An owner calls Close and asks for _mutex.
CallClose(o) ==
  /\ ownerPc[o] = "idle"
  /\ ownerPc' = [ownerPc EXCEPT ![o] = "lock"]
  /\ UNCHANGED <<isRun, mutex, workerPc, semVars, joins, exited>>

\* Close gets _mutex and finds _isRun false: nothing to stop.
CloseStopped(o) ==
  /\ ownerPc[o] = "lock"
  /\ mutex = NoOne
  /\ ~isRun
  /\ ownerPc' = [ownerPc EXCEPT ![o] = "idle"]
  /\ UNCHANGED <<isRun, mutex, workerPc, semVars, joins, exited>>

\* Mutant of CloseRunning: _mutex is released before the wait.
CloseUnlocked(o) ==
  /\ ownerPc[o] = "lock"
  /\ mutex = NoOne
  /\ isRun
  /\ isRun' = FALSE
  /\ ownerPc' = [ownerPc EXCEPT ![o] = "flagged"]
  /\ UNCHANGED <<mutex, workerPc, semVars, joins, exited>>

\* Close gets _mutex, finds _isRun true and clears it.
CloseRunning(o) ==
  /\ ownerPc[o] = "lock"
  /\ mutex = NoOne
  /\ isRun
  /\ isRun' = FALSE
  /\ mutex' = o
  /\ ownerPc' = [ownerPc EXCEPT ![o] = "flagged"]
  /\ UNCHANGED <<workerPc, semVars, joins, exited>>

CloseReturns(o) ==
  /\ ownerPc' = [ownerPc EXCEPT ![o] = "idle"]
  /\ mutex' = NoOne
  /\ joins' = joins + 1

\* Close calls _sem.wait(): it returns at once, or blocks with _mutex held.
CloseWait(o) ==
  /\ ownerPc[o] = "flagged"
  /\ Wait(o)
  /\ \/ o \notin asleep' /\ CloseReturns(o)
     \/ /\ o \in asleep'
        /\ ownerPc' = [ownerPc EXCEPT ![o] = "blocked"]
        /\ UNCHANGED <<mutex, joins>>
  /\ UNCHANGED <<isRun, workerPc, exited>>

\* The blocked _sem.wait() is notified and returns, and so does Close.
CloseResume(o) ==
  /\ ownerPc[o] = "blocked"
  /\ Resume(o)
  /\ CloseReturns(o)
  /\ UNCHANGED <<isRun, workerPc, exited>>

\* The condition variable of _sem wakes a blocked Close for nothing.
CloseDozes(o) ==
  /\ SpuriousWakeup(o) \/ SleepAgain(o)
  /\ UNCHANGED <<isRun, mutex, ownerPc, workerPc, joins, exited>>
-----------------------------------------------------------------------------
WorkerAt(w, from, to) ==
  /\ workerPc[w] = from
  /\ workerPc' = [workerPc EXCEPT ![w] = to]

\* OnWork: onCreate returns.
OnCreate(w) ==
  /\ WorkerAt(w, "create", "run")
  /\ UNCHANGED <<isRun, mutex, ownerPc, semVars, joins, exited>>

\* OnWork: onRun returns.
LeaveOnRun(w) ==
  /\ WorkerAt(w, "run", "destory")
  /\ UNCHANGED <<isRun, mutex, ownerPc, semVars, joins, exited>>

\* Mutant of OnRun: it returns by itself without calling Exit.
OnRunReturns(w) == LeaveOnRun(w)

\* Every onRun of the program loops while isRun(), read without the lock.
OnRun(w) == ~isRun /\ LeaveOnRun(w)

\* onRun decides to end by itself and calls Exit, which asks for _mutex ...
CallExit(w) ==
  /\ CanExit
  /\ WorkerAt(w, "run", "exit")
  /\ exited' = TRUE
  /\ UNCHANGED <<isRun, mutex, ownerPc, semVars, joins>>

\* ... gets it, clears _isRun, and onRun returns.
Exit(w) ==
  /\ mutex = NoOne
  /\ WorkerAt(w, "exit", "destory")
  /\ isRun' = FALSE
  /\ UNCHANGED <<mutex, ownerPc, semVars, joins, exited>>

\* OnWork: onDestory returns.
OnDestory(w) ==
  /\ WorkerAt(w, "destory", "wakeup")
  /\ UNCHANGED <<isRun, mutex, ownerPc, semVars, joins, exited>>

\* Mutant of SignalEnd: the worker ends without _sem.wakeup().
EndUnsignalled(w) ==
  /\ WorkerAt(w, "wakeup", "clear")
  /\ UNCHANGED <<isRun, mutex, ownerPc, semVars, joins, exited>>

\* OnWork: _sem.wakeup().
SignalEnd(w) ==
  /\ WorkerAt(w, "wakeup", "clear")
  /\ Wakeup
  /\ UNCHANGED <<isRun, mutex, ownerPc, joins, exited>>

\* OnWork: the store _isRun = false that follows, without the lock.
ClearIsRun(w) ==
  /\ WorkerAt(w, "clear", "gone")
  /\ isRun' = FALSE
  /\ UNCHANGED <<mutex, ownerPc, semVars, joins, exited>>
-----------------------------------------------------------------------------
CloseStep(o) == CloseStopped(o) \/ CloseRunning(o) \/ CloseWait(o) \/ CloseResume(o)

OwnerNext(o) == Start(o) \/ CallClose(o) \/ CloseStep(o) \/ CloseDozes(o)

\* OnWork outside onRun
OnWorkStep(w) == OnCreate(w) \/ OnDestory(w) \/ SignalEnd(w) \/ ClearIsRun(w)

WorkerNext(w) == OnWorkStep(w) \/ OnRun(w) \/ CallExit(w) \/ Exit(w)

ThreadNext ==
  \/ \E o \in Callers : OwnerNext(o)
  \/ \E w \in Workers : WorkerNext(w)

\* Every created thread is scheduled, tests isRun() again and again in
\* onRun, and gets a free _mutex; so does the owner inside Close.  No owner
\* has to call anything and no onRun has to call Exit.
ThreadFairness ==
  /\ \A o \in Callers : /\ WF_threadVars(CloseWait(o))
                       /\ WF_threadVars(CloseResume(o))
  /\ \A w \in Workers : /\ WF_threadVars(OnWorkStep(w))
                        /\ WF_threadVars(OnRun(w) \/ Exit(w))

ThreadSafeSpec == ThreadInit /\ [][ThreadNext]_threadVars
ThreadSpec == ThreadSafeSpec /\ ThreadFairness
-----------------------------------------------------------------------------
ThreadTypeOK ==
  /\ isRun \in BOOLEAN
  /\ mutex \in Callers \cup {NoOne}
  /\ ownerPc \in [Callers -> {"idle", "lock", "flagged", "blocked"}]
  /\ workerPc \in [Workers -> {"none", "create", "run", "exit", "destory",
                               "wakeup", "clear", "gone"}]
  /\ SemTypeOK
  /\ joins \in Nat
  /\ exited \in BOOLEAN

\* _mutex is held exactly by the owner that is stopping the thread.
MutexHeld ==
  \A o \in Callers : ownerPc[o] \in {"flagged", "blocked"} <=> mutex = o

\* Only the owner blocked in Close is known to the semaphore.
SemHeld ==
  \A o \in Callers : ownerPc[o] = "blocked" <=> o \in Blocked

InOnRun(w) == workerPc[w] \in {"create", "run", "exit"}
Signalled == {w \in Workers : workerPc[w] \in {"clear", "gone"}}

\* Whenever _isRun is set some worker has not left onRun yet, whatever
\* stale workers of earlier starts do: a Close that clears the flag has
\* somebody to wait for.
RunningHasWorker == isRun => \E w \in Workers : InOnRun(w)

\* _wait is the number of workers that signalled minus the Close calls that
\* were answered or are blocked: no Close returns on a signal nobody sent,
\* and no signal is used twice.
JoinsCounted ==
  semWait = Cardinality(Signalled) - joins - Cardinality(Blocked)

\* The inductive invariant of the module.
ThreadInv == MutexHeld /\ SemHeld /\ RunningHasWorker /\ JoinsCounted

\* A Close that waited returns at most once per worker that finished.
NoUnearnedJoin == joins <= Cardinality(Signalled)

\* A Close that holds _mutex still has an answer coming: a token, or a
\* worker that has not signalled.
CloseHasAnswer ==
  mutex # NoOne =>
    \/ semWait > 0 \/ semWakeup > 0
    \/ \E w \in Workers : workerPc[w] \notin {"none", "clear", "gone"}

\* The thread was started at most once so far.
StartedOnce ==
  \A v, w \in Workers : workerPc[v] # "none" /\ workerPc[w] # "none" => v = w

\* What owners rely on when they free what the thread uses after Close: an
\* owner whose Close ended (whether it stopped the thread, or found another
\* owner had) finds the worker done with onRun and onDestory.  It holds for
\* a thread that was started once and whose onRun has not called Exit.
CloseJoins ==
  [][\A o \in Callers :
        ownerPc[o] # "idle" /\ ownerPc'[o] = "idle" /\ StartedOnce /\ ~exited =>
           \A w \in Workers : workerPc[w] \in {"none", "clear", "gone"}]_threadVars

\* A Close that has cleared _isRun returns, however often the thread was
\* started before, unless a worker's Exit waits for the same lock.
CloseEnds ==
  \A o \in Callers : mutex = o ~> mutex # o \/ \E w \in Workers : workerPc[w] = "exit"
=============================================================================
