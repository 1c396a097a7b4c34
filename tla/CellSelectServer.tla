--------------------------- MODULE CellSelectServer ---------------------------
(***************************************************************************)
(* depends/include/CellSelectServer.hpp, the branches for Linux: the cell  *)
(* servers of EasyTcpServer poll with select.  The set of descriptors to   *)
(* read from is built anew only when _clients_change is set; otherwise     *)
(* the copy made for an earlier poll is used again.  A poll that fails     *)
(* ends the thread ("ended"); CellServerLife follows that.                 *)
(***************************************************************************)
EXTENDS EasyTcpServer

VARIABLES
  fdRead_bak,   \* _fdRead_bak: the descriptors that were last put together
  fdRead,       \* reported readable, and not yet visited by ReadData
  fdWrite       \* reported writable, and not yet visited by WriteData

fdVars == <<fdRead_bak, fdRead, fdWrite>>
selectVars == <<serverVars, fdVars>>

SelectInit ==
  /\ ServerInit
  /\ fdRead_bak = [s \in Servers |-> {}]
  /\ fdRead = [s \in Servers |-> {}]
  /\ fdWrite = [s \in Servers |-> {}]

\* What DoNetEvent gives select to read from.
Watched(s) == IF clients_change[s] THEN DOMAIN clients[s] ELSE fdRead_bak[s]

\* DoNetEvent up to its call of select.
Prepare(s) ==
  /\ clients_change' = [clients_change EXCEPT ![s] = FALSE]
  /\ fdRead_bak' = [fdRead_bak EXCEPT ![s] = Watched(s)]
  /\ UNCHANGED <<netVars, countVars, acceptVars, clientsBuff, clients, mergeAt, victim>>

\* select returns what is ready: a peer that hung up is readable, and a
\* client is writable only if it has something to write.  (Nothing ready is
\* a return value of 0, after which the two loops would find nothing.)
SelectReturns(s) ==
  /\ Goto(s, "poll", "read")
  /\ Watched(s) \subseteq Range(sock)
  /\ \E r \in SUBSET Watched(s), w \in SUBSET DOMAIN clients[s] :
        /\ {f \in Watched(s) \cap DOMAIN clients[s] : clients[s][f] \in hungUp} \subseteq r
        /\ fdRead' = [fdRead EXCEPT ![s] = r]
        /\ fdWrite' = [fdWrite EXCEPT ![s] = w]
  /\ Prepare(s)

\* select is interrupted (EINTR).
SelectInterrupted(s) ==
  /\ Goto(s, "poll", "msg")
  /\ Prepare(s)
  /\ UNCHANGED <<fdRead, fdWrite>>

\* select fails when a descriptor it is given is closed (EBADF), or may fail
\* when _maxSock was read through begin() of an empty map, which is
\* undefined: the build may also go on with whatever was read, or crash.
SelectFails(s) ==
  /\ Goto(s, "poll", "ended")
  /\ \/ ~(Watched(s) \subseteq Range(sock))
     \/ clients_change[s] /\ clients[s] = EmptyMap
  /\ Prepare(s)
  /\ UNCHANGED <<fdRead, fdWrite>>
-----------------------------------------------------------------------------
\* Mutant of ReadVisit: the result of RecvData is ignored.
ReadAnyway(s, f) ==
  /\ pc[s] = "read"
  /\ f \in fdRead[s] \cap DOMAIN clients[s]
  /\ fdRead' = [fdRead EXCEPT ![s] = @ \ {f}]
  /\ UNCHANGED <<serverVars, fdRead_bak, fdWrite>>

\* ReadData comes to a client whose descriptor is set, and RecvData succeeds ...
ReadVisit(s, f) ==
  /\ pc[s] = "read"
  /\ f \in fdRead[s] \cap DOMAIN clients[s]
  /\ clients[s][f] \notin hungUp
  /\ fdRead' = [fdRead EXCEPT ![s] = @ \ {f}]
  /\ UNCHANGED <<serverVars, fdRead_bak, fdWrite>>

\* ... or fails, as it always does when the peer hung up.
ReadLeave(s, f) ==
  /\ f \in fdRead[s] \cap DOMAIN clients[s]
  /\ Leave(s, "read", "readLeaving", clients[s][f])
  /\ fdRead' = [fdRead EXCEPT ![s] = @ \ {f}]
  /\ UNCHANGED <<fdRead_bak, fdWrite>>

ReadEnds(s) ==
  /\ \/ LeaveJoined(s, "readLeaving", "readLeft")
     \/ LeaveDelete(s, "readLeft", "readErase")
     \/ LeaveErase(s, "readErase", "read")
  /\ UNCHANGED fdVars

ReadDone(s) ==
  /\ Goto(s, "read", "write")
  /\ fdRead[s] \cap DOMAIN clients[s] = {}
  /\ fdRead' = [fdRead EXCEPT ![s] = {}]
  /\ UNCHANGED <<netVars, countVars, acceptVars, clientsBuff, clients, mergeAt, victim,
                 clients_change, fdRead_bak, fdWrite>>

\* WriteData: SendDataReal succeeds, or fails.
WriteVisit(s, f) ==
  /\ pc[s] = "write"
  /\ f \in fdWrite[s] \cap DOMAIN clients[s]
  /\ fdWrite' = [fdWrite EXCEPT ![s] = @ \ {f}]
  /\ UNCHANGED <<serverVars, fdRead_bak, fdRead>>

WriteLeave(s, f) ==
  /\ f \in fdWrite[s] \cap DOMAIN clients[s]
  /\ Leave(s, "write", "writeLeaving", clients[s][f])
  /\ fdWrite' = [fdWrite EXCEPT ![s] = @ \ {f}]
  /\ UNCHANGED <<fdRead_bak, fdRead>>

WriteEnds(s) ==
  /\ \/ LeaveJoined(s, "writeLeaving", "writeLeft")
     \/ LeaveDelete(s, "writeLeft", "writeErase")
     \/ LeaveErase(s, "writeErase", "write")
  /\ UNCHANGED fdVars

WriteDone(s) ==
  /\ Goto(s, "write", "msg")
  /\ fdWrite[s] \cap DOMAIN clients[s] = {}
  /\ fdWrite' = [fdWrite EXCEPT ![s] = {}]
  /\ UNCHANGED <<netVars, countVars, acceptVars, clientsBuff, clients, mergeAt, victim,
                 clients_change, fdRead_bak, fdRead>>
-----------------------------------------------------------------------------
Select(s) == SelectReturns(s) \/ SelectInterrupted(s) \/ SelectFails(s)

ReadData(s) ==
  \/ \E f \in Fds : ReadVisit(s, f) \/ ReadLeave(s, f)
  \/ ReadEnds(s) \/ ReadDone(s)

WriteData(s) ==
  \/ \E f \in Fds : WriteVisit(s, f) \/ WriteLeave(s, f)
  \/ WriteEnds(s) \/ WriteDone(s)

SelectPoll(s) == Select(s) \/ ReadData(s) \/ WriteData(s)

SelectNext ==
  \/ ServerStep /\ UNCHANGED fdVars
  \/ \E s \in Servers : SelectPoll(s)

\* The threads are scheduled, and select is not interrupted for ever.
SelectFairness ==
  /\ WF_selectVars(AcceptThread /\ UNCHANGED fdVars)
  /\ \A s \in Servers :
       /\ WF_selectVars(CellStep(s) /\ ~Expire(s) /\ UNCHANGED fdVars)
       /\ WF_selectVars(SelectPoll(s))
       /\ SF_selectVars(SelectReturns(s))

SelectSafeSpec == SelectInit /\ [][SelectNext]_selectVars
SelectSpec == SelectSafeSpec /\ SelectFairness
-----------------------------------------------------------------------------
\* Whenever a poll may use the copy of an earlier one, it holds exactly the
\* descriptors of the clients in the map, each of them open: none of a
\* client that left (select would fail, or watch a connection of another
\* cell server that got the descriptor), and none missing.
CopyFits ==
  \A s \in Servers :
    pc[s] \notin Merging /\ ~clients_change[s] =>
      /\ fdRead_bak[s] = DOMAIN clients[s]
      /\ \A f \in fdRead_bak[s] : sock[clients[s][f]] = f

\* The loops visit only live clients, whatever ReadData removed before
\* WriteData uses the report of the same select.
VisitsLive ==
  \A s \in Servers :
    /\ pc[s] \in {"check", "poll", "read", "write", "msg"} => Range(clients[s]) \subseteq Live
    /\ pc[s] \in HalfOut \cup CountedOut => victim[s] \in Live

\* A client whose peer hung up is removed, unless the poll of its server
\* failed.
HungUpIsRemoved ==
  \A c \in Clients : c \in hungUp ~> object[c] = "freed" \/ \E s \in Servers : pc[s] = "ended"
=============================================================================
