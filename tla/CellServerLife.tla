--------------------------- MODULE CellServerLife ---------------------------
(***************************************************************************)
(* The life of one cell server: CellServer::Start and OnRun, and the       *)
(* destructors that EasyTcpServer::Close runs with `delete cs'.  Deleting  *)
(* a derived object runs its own destructor first, while the thread still  *)
(* runs; then the object is a plain CellServer, whose DoNetEvent returns   *)
(* false, until ~CellServer has closed the thread.  Clients are only       *)
(* counted.  EasyTcpServerLife puts the steps together.                    *)
(***************************************************************************)
EXTENDS CellThread

CONSTANTS
  Pollers,    \* "select" (CellSelectServer), "epoll" (CellEpollServer), or both
  PollFails,  \* may select or epoll_wait fail on an open poller?
  MaxClient   \* _nMaxClient

ASSUME PollersKnown == Pollers \subseteq {"select", "epoll"}
ASSUME PollFailsBool == PollFails \in BOOLEAN
ASSUME MaxClientNat == MaxClient \in Nat

\* One owner deletes an object that it started once; Start makes a thread.
ASSUME OneOwner ==
  (\A o, p \in Callers : o = p) /\ Workers # {} /\ (\A v, w \in Workers : v = w)

VARIABLES
  poller,       \* the class that EasyTcpServer::Start was instantiated with
  deletePc,     \* where the owner is in `delete cs'
  pollerOpen,   \* the epoll object and its event array, or the fd sets, exist
  class,        \* dynamic type of the object: "derived", "base" or "freed"
  loopPc,       \* where the worker is in OnRun
  waiting,      \* how many clients are in _clientsBuff
  joined,       \* ... and in _clients
  clientAccept, \* _clientAccept of EasyTcpServer
  cleared       \* history: clients that went without OnNetLeave

clientVars == <<waiting, joined, clientAccept, cleared>>
objectVars == <<poller, deletePc, pollerOpen, class>>
lifeVars == <<objectVars, loopPc, clientVars>>

LifeInit ==
  /\ ThreadInit
  /\ poller \in Pollers
  /\ deletePc = "none"
  /\ pollerOpen = TRUE
  /\ class = "derived"
  /\ loopPc = "test"
  /\ waiting = 0 /\ joined = 0 /\ clientAccept = 0 /\ cleared = 0
-----------------------------------------------------------------------------
\* EasyTcpServer::Start: new, and CellServer::Start of the new object.
\* (setClientNum opens the poller.)
StartServer ==
  /\ deletePc' = "none" /\ pollerOpen' = TRUE /\ class' = "derived"
  /\ loopPc' = "test"
  /\ workerPc' = [w \in Workers |-> "create"]
  /\ isRun' = TRUE /\ mutex' = NoOne /\ ownerPc' = [o \in Callers |-> "idle"]
  /\ semWait' = 0 /\ semWakeup' = 0 /\ asleep' = {} /\ notified' = {}
  /\ joins' = 0 /\ exited' = FALSE
  /\ UNCHANGED <<poller, clientVars>>

\* Accpet, then addClient: the limit is looked at, but not whether the
\* server has a thread.
AddClient ==
  /\ clientAccept < MaxClient
  /\ clientAccept' = clientAccept + 1
  /\ waiting' = waiting + 1
  /\ UNCHANGED <<threadVars, objectVars, loopPc, joined, cleared>>

\* `delete cs': ~CellEpollServer destroys its epoll object; ~CellSelectServer
\* calls Close.
Delete(o) ==
  /\ deletePc = "none"
  /\ IF poller = "epoll"
     THEN /\ pollerOpen' = FALSE
          /\ deletePc' = "derived"
          /\ UNCHANGED threadVars
     ELSE /\ CallClose(o)
          /\ deletePc' = "close"
          /\ UNCHANGED pollerOpen
  /\ UNCHANGED <<poller, class, loopPc, clientVars>>

\* CellServer::Close goes on, or ends.
CloseServer(o) ==
  /\ deletePc \in {"close", "baseClose"}
  /\ CloseStep(o) \/ CloseDozes(o)
  /\ deletePc' = IF ownerPc'[o] # "idle" THEN deletePc
                 ELSE IF deletePc = "close" THEN "derived" ELSE "members"
  /\ UNCHANGED <<poller, pollerOpen, class, loopPc, clientVars>>

\* The derived destructor ends, its members go, and ~CellServer calls Close.
DeleteBase(o) ==
  /\ deletePc = "derived"
  /\ CallClose(o)
  /\ deletePc' = "baseClose"
  /\ class' = "base"
  /\ pollerOpen' = FALSE
  /\ UNCHANGED <<poller, loopPc, clientVars>>

\* The members of CellServer go, and the memory.
Free ==
  /\ deletePc = "members"
  /\ deletePc' = "done"
  /\ class' = "freed"
  /\ cleared' = cleared + waiting + joined
  /\ waiting' = 0 /\ joined' = 0
  /\ UNCHANGED <<threadVars, poller, pollerOpen, loopPc, clientAccept>>
-----------------------------------------------------------------------------
Loop(w, from, to) ==
  /\ workerPc[w] = "run"
  /\ loopPc = from
  /\ loopPc' = to

\* while (pThread->isRun())
TestIsRun(w) ==
  /\ isRun
  /\ Loop(w, "test", "merge")
  /\ UNCHANGED <<threadVars, objectVars, clientVars>>

LeaveLoop(w) ==
  /\ OnRun(w)
  /\ Loop(w, "test", "left")
  /\ UNCHANGED <<objectVars, clientVars>>

\* Mutant of Merge: a server whose map is empty sleeps before it merges.
MergeLate(w) ==
  /\ \/ joined = 0 /\ Loop(w, "merge", "test") /\ UNCHANGED clientVars
     \/ /\ joined > 0 /\ Loop(w, "merge", "check")
        /\ joined' = joined + waiting /\ waiting' = 0
        /\ UNCHANGED <<clientAccept, cleared>>
  /\ UNCHANGED <<threadVars, objectVars>>

\* Merge the buffer; without clients in the map, sleep and test again.
Merge(w) ==
  /\ joined' = joined + waiting
  /\ waiting' = 0
  /\ Loop(w, "merge", IF joined' = 0 THEN "test" ELSE "check")
  /\ UNCHANGED <<threadVars, objectVars, clientAccept, cleared>>

\* Mutant of SomeLeave: OnNetLeave is called for one of them only.
LeaveOnce ==
  \E n \in 0..joined :
     /\ joined' = joined - n
     /\ clientAccept' = IF n = 0 THEN clientAccept ELSE clientAccept - 1
     /\ UNCHANGED <<waiting, cleared>>

\* CheckTime, DoNetEvent and DoMsg may see clients leave: OnNetLeave counts
\* them out.
SomeLeave ==
  \E n \in 0..joined :
     /\ joined' = joined - n
     /\ clientAccept' = clientAccept - n
     /\ UNCHANGED <<waiting, cleared>>

CheckTime(w) ==
  /\ Loop(w, "check", "poll")
  /\ SomeLeave
  /\ UNCHANGED <<threadVars, objectVars>>

\* The virtual call of DoNetEvent, to the class the object has by then.
CallDoNetEvent(w) ==
  /\ \/ class = "derived" /\ Loop(w, "poll", "wait")
     \/ class # "derived" /\ Loop(w, "poll", "failed")
  /\ UNCHANGED <<threadVars, objectVars, clientVars>>

\* select or epoll_wait returns and its events are handled; a wait that had
\* begun may still time out on a poller that was closed.
WaitReturns(w) ==
  /\ Loop(w, "wait", "test")
  /\ SomeLeave
  /\ UNCHANGED <<threadVars, objectVars>>

\* It fails, always in the end on a closed poller.
WaitFails(w) ==
  /\ ~pollerOpen \/ PollFails
  /\ Loop(w, "wait", "failed")
  /\ UNCHANGED <<threadVars, objectVars, clientVars>>

\* DoNetEvent returned false: Exit, and leave the loop.
ExitLoop(w) ==
  /\ CallExit(w)
  /\ Loop(w, "failed", "exited")
  /\ UNCHANGED <<objectVars, clientVars>>

\* onDestory: the clients are freed, but not counted out.
Clearclients ==
  /\ cleared' = cleared + waiting + joined
  /\ waiting' = 0 /\ joined' = 0
  /\ UNCHANGED clientAccept

\* Exit gets the lock; onDestory; the end of OnWork.
EndOfWork(w) ==
  /\ Exit(w) \/ OnWorkStep(w)
  /\ IF workerPc[w] = "destory" THEN Clearclients ELSE UNCHANGED clientVars
  /\ UNCHANGED <<objectVars, loopPc>>

WorkerStep(w) ==
  \/ TestIsRun(w) \/ LeaveLoop(w) \/ Merge(w) \/ CheckTime(w) \/ CallDoNetEvent(w)
  \/ WaitReturns(w) \/ WaitFails(w) \/ ExitLoop(w) \/ EndOfWork(w)

DeleteStep(o) == Delete(o) \/ CloseServer(o) \/ DeleteBase(o) \/ Free
-----------------------------------------------------------------------------
\* The loop ended, or is about to, because DoNetEvent returned false.
PollFailed == loopPc \in {"failed", "exited"}

\* ~CellSelectServer closes the thread before its fd sets go: the thread of
\* a select server polls only while they exist.  (~CellEpollServer does not:
\* its poller goes while its thread runs.)
WaitHasPoller ==
  \A w \in Workers :
     poller = "select" /\ workerPc[w] = "run" /\ loopPc = "wait" => pollerOpen

\* Unless its poll failed, the thread is past onRun and Clearclients when
\* the base destructor is through: none of them touches a freed map.
FreedAfterWork ==
  deletePc = "members" /\ ~PollFailed => \A w \in Workers : workerPc[w] \in {"clear", "gone"}

\* Then Clearclients has freed all the clients of the server.
FreedEmpty == deletePc = "members" /\ ~PollFailed => waiting + joined = 0

\* Even when polls fail, or the object changes its class under the thread,
\* no round of the loop of OnRun runs on freed memory.
FreedAfterLoop == class = "freed" => loopPc \in {"left", "exited"}
=============================================================================
