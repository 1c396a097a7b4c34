-------------------------- MODULE EasyTcpServerLife --------------------------
(***************************************************************************)
(* The life of a whole server: EasyTcpServer.hpp with the accept loops of  *)
(* EasyEpollServer.hpp and EasySelectServer.hpp, driven as by the main of  *)
(* server.cpp.  One owner opens the socket, starts a cell server and the   *)
(* accept thread, and closes everything at any moment; a closed server may *)
(* be opened again.  The accept thread is a second CellThread, that of the *)
(* server object, which is started again, while each opening makes a new   *)
(* cell server.                                                            *)
(***************************************************************************)
EXTENDS CellServerLife

CONSTANTS
  Accepters,     \* bound: the accept threads, one for each opening
  AcceptFails,   \* may the accept thread's poll fail?
  SocketFails    \* may socket, bind or listen fail?

ASSUME AcceptersFinite == IsFiniteSet(Accepters)
ASSUME FailuresBool == {AcceptFails, SocketFails} \subseteq BOOLEAN

VARIABLES
  sock,        \* _sock is a socket
  listening,   \* bind and listen have succeeded
  serverPc,    \* where the owner is
  stale,       \* history: the accept thread was started again though its
               \* predecessor had still to clear _isRun, or had left a token
  \* the CellThread _thread
  accIsRun, accMutex, accOwnerPc, accWorkerPc, accSemWait, accSemWakeup,
  accAsleep, accNotified, accJoins, accExited

accSemVars == <<accSemWait, accSemWakeup, accAsleep, accNotified>>
accVars == <<accIsRun, accMutex, accOwnerPc, accWorkerPc, accSemVars, accJoins, accExited>>
serverVars == <<sock, listening, serverPc, stale>>
vars == <<threadVars, lifeVars, serverVars, accVars>>

Thread == INSTANCE CellThread WITH
  Workers <- Accepters, CanExit <- AcceptFails,
  isRun <- accIsRun, mutex <- accMutex, ownerPc <- accOwnerPc, workerPc <- accWorkerPc,
  semWait <- accSemWait, semWakeup <- accSemWakeup, asleep <- accAsleep,
  notified <- accNotified, joins <- accJoins, exited <- accExited

Init ==
  /\ LifeInit
  /\ Thread!ThreadInit
  /\ sock = FALSE /\ listening = FALSE
  /\ serverPc = "init"
  /\ stale = FALSE
-----------------------------------------------------------------------------
(* The owner.                                                              *)

Goto(from, to) == serverPc = from /\ serverPc' = to

NewSocket == sock' \in {TRUE, ~SocketFails}

InitSocket ==
  /\ Goto("init", "bind")
  /\ NewSocket
  /\ UNCHANGED <<threadVars, lifeVars, accVars, listening, stale>>

\* Bind, which tries InitSocket again, and Listen.  The program looks at
\* none of the results.
BindListen ==
  /\ Goto("bind", "start")
  /\ IF sock THEN UNCHANGED sock ELSE NewSocket
  /\ listening' \in {sock', sock' /\ ~SocketFails}
  /\ UNCHANGED <<threadVars, lifeVars, accVars, stale>>

StartCellServers ==
  /\ Goto("start", "startThread")
  /\ StartServer
  /\ UNCHANGED <<accVars, sock, listening, stale>>

StartThread(o) ==
  /\ Goto("startThread", "serve")
  /\ Thread!Start(o)
  /\ stale' = (stale \/ accSemWait > 0 \/ \E a \in Accepters : accWorkerPc[a] \notin {"none", "gone"})
  /\ UNCHANGED <<threadVars, lifeVars, sock, listening>>

\* Mutant of Close: the cell servers go before the accept thread.
CloseServersFirst(o) ==
  /\ Goto("serve", "delete")
  /\ sock
  /\ UNCHANGED <<accVars, threadVars, lifeVars, sock, listening, stale>>

\* Close, and the destructor: without a socket it does nothing.
Close(o) ==
  /\ \/ sock /\ Goto("serve", "closeThread") /\ Thread!CallClose(o)
     \/ ~sock /\ Goto("serve", "ended") /\ UNCHANGED accVars
  /\ UNCHANGED <<threadVars, lifeVars, sock, listening, stale>>

CloseThread(o) ==
  /\ Thread!CloseStep(o) \/ Thread!CloseDozes(o)
  /\ Goto("closeThread", IF accOwnerPc'[o] = "idle" THEN "delete" ELSE "closeThread")
  /\ UNCHANGED <<threadVars, lifeVars, sock, listening, stale>>

\* for (auto cs : _cellServers) delete cs
DeleteServers(o) ==
  /\ serverPc = "delete"
  /\ DeleteStep(o)
  /\ UNCHANGED <<accVars, serverVars>>

CloseSocket ==
  /\ deletePc = "done"
  /\ Goto("delete", "closed")
  /\ sock' = FALSE /\ listening' = FALSE
  /\ UNCHANGED <<threadVars, lifeVars, accVars, stale>>

\* The owner opens the server again, or its destructor ends.
Reopen ==
  /\ Goto("closed", "init")
  /\ \E a \in Accepters : accWorkerPc[a] = "none"
  /\ UNCHANGED <<threadVars, lifeVars, accVars, sock, listening, stale>>

End ==
  /\ Goto("closed", "ended")
  /\ UNCHANGED <<threadVars, lifeVars, accVars, sock, listening, stale>>

Closing(o) == CloseThread(o) \/ DeleteServers(o) \/ CloseSocket
-----------------------------------------------------------------------------
(* The accept thread: OnRun                                                *)

Accpet(a) ==
  /\ accWorkerPc[a] = "run"
  /\ listening
  /\ AddClient
  /\ UNCHANGED <<accVars, serverVars>>

\* The loop ends when isRun() is false, or with Exit when the poll fails.
AcceptThread(a) ==
  /\ Thread!WorkerNext(a)
  /\ UNCHANGED <<threadVars, lifeVars, serverVars>>

CellServerThread(w) ==
  /\ WorkerStep(w)
  /\ UNCHANGED <<accVars, serverVars>>

Next ==
  \/ InitSocket \/ BindListen \/ StartCellServers \/ Reopen \/ End
  \/ \E o \in Callers : StartThread(o) \/ Close(o) \/ Closing(o)
  \/ \E a \in Accepters : Accpet(a) \/ AcceptThread(a)
  \/ \E w \in Workers : CellServerThread(w)

\* All threads are scheduled, and polls return (they time out after 1 ms);
\* nobody has to connect or to close, and no poll has to fail.
Fairness ==
  /\ \A o \in Callers : /\ WF_vars(CloseThread(o) /\ Thread!CloseStep(o))
                       /\ WF_vars(DeleteServers(o) /\ ~CloseDozes(o))
  /\ WF_vars(CloseSocket)
  /\ \A a \in Accepters : WF_vars(AcceptThread(a) /\ ~Thread!CallExit(a))
  /\ \A w \in Workers : WF_vars(CellServerThread(w))

Spec == Init /\ [][Next]_vars /\ Fairness
-----------------------------------------------------------------------------
\* Close has stopped the accept thread when it deletes the cell servers, so
\* that it adds no client to a server that is going.
AcceptEndsFirst == serverPc = "delete" => \A a \in Accepters : accWorkerPc[a] # "run"

\* What a server that closes has waited for when it frees something:
\*  - the thread of a cell server is past its loop and Clearclients when
\*    ~CellServer is through, unless its poll failed, and then too it is out
\*    of the rounds of its loop when the memory goes;
\*  - the accept thread has left its loop before a cell server is deleted,
\*    and no client is left in one: in a server opened again only if its
\*    accept thread was not started over what a predecessor left in _thread;
\*  - a select server's thread is past its last poll when the fd sets go.
\* Not so the poller of an epoll server, which goes before its thread is
\* closed, and after a failed poll Clearclients, which Close may not wait for.
StoppedBeforeFreed ==
  /\ FreedAfterWork /\ FreedAfterLoop
  /\ ~stale => AcceptEndsFirst /\ FreedEmpty
  /\ WaitHasPoller

\* A place under the limit that is not free stands for a client that the
\* server has, or for one that Clearclients freed when a poll failed or the
\* server closed: those places stay lost when the server is opened again.
PlacesKept == clientAccept = waiting + joined + cleared

\* A client that was added is taken out of the buffer, or freed with the
\* server, unless the server's poll failed; for a server that was opened
\* again see StoppedBeforeFreed.
BufferServed == waiting > 0 ~> waiting = 0 \/ PollFailed \/ stale

\* A Close that has begun ends, unless a poll failed: with a socket, and
\* also of a server that was opened again at once.
ServerCloses ==
  serverPc = "closeThread" ~>
    serverPc = "closed" \/ PollFailed \/ \E a \in Accepters : accWorkerPc[a] = "exit"

\* EasyTcpServer.hpp:202 reports the end of Close ("EasyTcpServer.Close
\* end"): a Close ends when no poll fails by itself.
CloseCompletes == serverPc = "closeThread" ~> serverPc = "closed"
=============================================================================
