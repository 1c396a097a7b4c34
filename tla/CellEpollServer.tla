--------------------------- MODULE CellEpollServer ---------------------------
(***************************************************************************)
(* depends/include/CellEpollServer.hpp: the cell servers of EasyTcpServer  *)
(* poll with epoll.  The kernel reports pointers to client objects, which  *)
(* the thread follows after other clients of the same report were removed. *)
(***************************************************************************)
EXTENDS EasyTcpServer

VARIABLE events   \* per cell server: the clients of the report not yet handled

vars == <<serverVars, events>>

Init == ServerInit /\ events = [s \in Servers |-> {}]

\* setClientNum((_nMaxClient / nCellServer) + 1) is the size of the report.
MaxEvents == (MaxClient \div NumServers) + 1

\* DoNetEvent: re-register every client of the map, then wait.  The epoll
\* object knows exactly the clients of the map (added when they joined,
\* forgotten by the kernel when their socket is closed); those that hung up
\* are readable.
Wait(s) ==
  /\ Goto(s, "poll", "event")
  /\ \E ready \in SUBSET Range(clients[s]) :
        /\ Cardinality(ready) <= MaxEvents
        /\ events' = [events EXCEPT ![s] = ready]
  /\ UNCHANGED <<netVars, countVars, acceptVars, clientsBuff, clients, mergeAt, victim, clients_change>>

\* Mutant of ServeClient: the result of RecvData is ignored.
ServeFailed(s, c) ==
  /\ pc[s] = "event"
  /\ c \in events[s]
  /\ events' = [events EXCEPT ![s] = @ \ {c}]
  /\ UNCHANGED serverVars

\* RecvData and SendDataReal succeed, or the event has neither flag.
ServeClient(s, c) ==
  /\ pc[s] = "event"
  /\ c \in events[s] \ hungUp
  /\ events' = [events EXCEPT ![s] = @ \ {c}]
  /\ UNCHANGED serverVars

\* Mutant of RemoveClient: the map keeps the client.
RemoveUnfiled(s, c) ==
  /\ Goto(s, "event", "remove")
  /\ c \in events[s]
  /\ events' = [events EXCEPT ![s] = @ \ {c}]
  /\ victim' = [victim EXCEPT ![s] = c]
  /\ UNCHANGED <<netVars, countVars, acceptVars, clientsBuff, clients, mergeAt, clients_change>>

\* RecvData or SendDataReal fails (a peer that hung up always does; a full
\* receive buffer or a reset connection may): rmClient looks the client up
\* by its descriptor and erases the entry first, then OnClientLeave.
RemoveClient(s, c) ==
  /\ Goto(s, "event", "remove")
  /\ c \in events[s]
  /\ events' = [events EXCEPT ![s] = @ \ {c}]
  /\ clients' = [clients EXCEPT ![s] = Restrict(@, DOMAIN @ \ {sock[c]})]
  /\ victim' = [victim EXCEPT ![s] = c]
  /\ UNCHANGED <<netVars, countVars, acceptVars, clientsBuff, mergeAt, clients_change>>

RemoveNotify(s) ==
  /\ \/ Leave(s, "remove", "removing", victim[s])
     \/ LeaveJoined(s, "removing", "delete")
  /\ UNCHANGED events

RemoveDelete(s) ==
  /\ Goto(s, "delete", "event")
  /\ DeleteVictim(s)
  /\ victim' = [victim EXCEPT ![s] = None]
  /\ UNCHANGED <<countVars, acceptVars, clientsBuff, clients, mergeAt, events>>

EventsDone(s) ==
  /\ Goto(s, "event", "msg")
  /\ events[s] = {}
  /\ UNCHANGED <<netVars, countVars, acceptVars, clientsBuff, clients, mergeAt, victim, clients_change, events>>

PollStep(s) ==
  \/ Wait(s) \/ EventsDone(s) \/ RemoveNotify(s) \/ RemoveDelete(s)
  \/ \E c \in Clients : ServeClient(s, c) \/ RemoveClient(s, c)

Next ==
  \/ ServerStep /\ UNCHANGED events
  \/ \E s \in Servers : PollStep(s)

\* The threads are scheduled.  epoll is level-triggered and rotates its
\* ready list, so a client that stays readable is reported in the end even
\* when the report is too small for all.  CheckTime runs through a finite
\* map, so it ends, and nobody has to expire.
Fairness ==
  /\ WF_vars(AcceptThread /\ UNCHANGED events)
  /\ \A s \in Servers :
       /\ WF_vars(CellStep(s) /\ ~Expire(s) /\ UNCHANGED events)
       /\ WF_vars(PollStep(s))
       /\ \A c \in Clients : SF_vars(Wait(s) /\ c \in hungUp /\ c \in events'[s])

SafeSpec == Init /\ [][Next]_vars
Spec == SafeSpec /\ Fairness
-----------------------------------------------------------------------------
\* No thread follows a pointer to a freed client: neither the loops over
\* the map, nor the events that are left in a report, nor a removal.
NoDangling ==
  \A s \in Servers :
    /\ pc[s] \in {"check", "poll", "msg"} => Range(clients[s]) \subseteq Live
    /\ pc[s] = "event" => events[s] \subseteq Live
    /\ pc[s] \in HalfOut \cup CountedOut \cup OutOfMap => victim[s] \in Live

\* A client that was accepted joins the map of a cell server.
AcceptedJoins ==
  \A c \in Clients :
     c = hand \/ (\E s \in Servers : c \in Waiting(s))
        ~> \E s \in Servers : c \in Range(clients[s])

\* A client whose peer hung up is removed, and its place under the limit is
\* given back.
HungUpLeaves ==
  \A c \in Clients : c \in hungUp ~> object[c] = "freed"
=============================================================================
