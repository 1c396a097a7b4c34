--------------------------- MODULE CellIOCPServer ---------------------------
(***************************************************************************)
(* depends/include/CellIOCPServer.hpp, CellIOCP.hpp and EasyIOCPServer.hpp *)
(* with the completion port half of CellClient.hpp and CellBuffer.hpp: a   *)
(* cell server posts a receive, and a send when there is something to      *)
(* send, for each client.  The kernel answers each request later with a    *)
(* completion, which points to the client object and to its buffer,        *)
(* whatever became of the client since.  A buffer is known by the number   *)
(* of its bytes.  A completion of a freed client leaves the thread         *)
(* "wild"; the model says nothing of what it does then.                    *)
(***************************************************************************)
EXTENDS Naturals, Sequences, FiniteSets, FiniteSetsExt

CONSTANTS
  Clients,     \* bound: the connections that may arrive, each of them once
  MaxClient,   \* _nMaxClient
  BuffSize,    \* _nSize of the buffers
  Oversize,    \* do peers send messages that do not fit the buffer?
  PostFails,   \* may WSARecv, WSASend or AcceptEx fail?
  Answered     \* the clients to which the server sends

ASSUME ClientsFinite == IsFiniteSet(Clients)
ASSUME SizesPos == MaxClient \in Nat /\ BuffSize \in Nat \ {0}
ASSUME SwitchesBool == {Oversize, PostFails} \subseteq BOOLEAN
ASSUME AnsweredClients == Answered \subseteq Clients

VARIABLES
  \* EasyIOCPServer
  acceptPosted,  \* an AcceptEx is outstanding
  clientAccept,  \* _clientAccept
  \* CellClient
  object,        \* client -> "none", "live", "freed" or "refused"
  open,          \* clients whose socket is open
  isPostRecv, isPostSend,   \* clients whose flag is set
  recvLast, sendLast,       \* client -> _nLast of its buffers
  unread,        \* clients with bytes that DoMsg has not looked at
  \* the kernel
  posted,        \* client -> its requests: [io, at], where the receive is to
                 \* be put, or how many bytes are to be sent
  queue,         \* the completions: [client, io, at, bytes]
  hungUp,        \* clients whose peer has closed
  \* CellIOCPServer
  clientsBuff, clients,     \* _clientsBuff and _clients, as sets
  todo,          \* clients that the running loop over _clients has yet to visit
  pc,            \* where the thread is
  sending        \* history: clients with a send under way: posted and not
                 \* completed, or its post failed; freed ones as they were then

objVars == <<object, open>>
flagVars == <<isPostRecv, isPostSend>>
buffVars == <<recvLast, sendLast, unread>>
netVars == <<posted, queue, hungUp>>
vars == <<acceptPosted, clientAccept, objVars, flagVars, buffVars, netVars,
          clientsBuff, clients, todo, pc, sending>>

Init ==
  /\ acceptPosted = TRUE
  /\ clientAccept = 0
  /\ object = [c \in Clients |-> "none"]
  /\ open = {}
  /\ isPostRecv = {} /\ isPostSend = {}
  /\ recvLast = [c \in Clients |-> 0] /\ sendLast = [c \in Clients |-> 0]
  /\ unread = {}
  /\ posted = [c \in Clients |-> {}]
  /\ queue = <<>>
  /\ hungUp = {}
  /\ clientsBuff = {} /\ clients = {} /\ todo = {}
  /\ pc = "loop"
  /\ sending = {}
-----------------------------------------------------------------------------
(* The accept thread: OnRun of EasyIOCPServer *)

\* Whether postAccept succeeds is not looked at.
PostAccept == acceptPosted' \in {TRUE, ~PostFails}

\* IOCPAccept, then postAccept again
IOCPAccept(c) ==
  /\ acceptPosted
  /\ object[c] = "none"
  /\ \/ /\ clientAccept < MaxClient
        /\ clientAccept' = clientAccept + 1
        /\ object' = [object EXCEPT ![c] = "live"]
        /\ open' = open \cup {c}
        /\ clientsBuff' = clientsBuff \cup {c}
     \/ /\ clientAccept >= MaxClient
        /\ object' = [object EXCEPT ![c] = "refused"]
        /\ UNCHANGED <<clientAccept, open, clientsBuff>>
  /\ PostAccept
  /\ UNCHANGED <<flagVars, buffVars, netVars, clients, todo, pc, sending>>
-----------------------------------------------------------------------------
(* The kernel *)

\* A request of an open socket ends with some bytes, or none after the peer
\* has closed; one of a closed socket is aborted.
Complete(c, r) ==
  /\ r \in posted[c]
  /\ posted' = [posted EXCEPT ![c] = @ \ {r}]
  /\ \E n \in 0..BuffSize :
        /\ n <= IF r.io = "recv" THEN BuffSize - r.at ELSE r.at
        /\ c \notin open => n = 0
        /\ c \in open /\ c \notin hungUp => n > 0
        /\ c \in hungUp /\ r.io = "recv" => n = 0
        /\ queue' = Append(queue, [client |-> c, io |-> r.io, at |-> r.at, bytes |-> n])
  /\ UNCHANGED <<acceptPosted, clientAccept, objVars, flagVars, buffVars, hungUp,
                 clientsBuff, clients, todo, pc, sending>>

HangUp(c) ==
  /\ c \in open
  /\ hungUp' = hungUp \cup {c}
  /\ UNCHANGED <<acceptPosted, clientAccept, objVars, flagVars, buffVars, posted, queue,
                 clientsBuff, clients, todo, pc, sending>>
-----------------------------------------------------------------------------
(* The cell server's thread *)

Goto(from, to) == pc = from /\ pc' = to

\* A loop over _clients visits it in the order of its keys.
Visits(c) == c \in todo /\ c = CHOOSE d \in todo : TRUE

\* OnClientLeave: OnNetLeave, then delete, which closes the socket.  What
\* the object held is gone with it.
OnClientLeave(c) ==
  /\ clientAccept' = clientAccept - 1
  /\ object' = [object EXCEPT ![c] = "freed"]
  /\ open' = open \ {c}
  /\ isPostRecv' = isPostRecv \ {c} /\ isPostSend' = isPostSend \ {c}
  /\ recvLast' = [recvLast EXCEPT ![c] = 0] /\ sendLast' = [sendLast EXCEPT ![c] = 0]
  /\ unread' = unread \ {c}

\* makeRecvIoData, which sets the flag first; there may be no room to post.
RecvRequest(c) ==
  IF recvLast[c] < BuffSize THEN {[io |-> "recv", at |-> recvLast[c]]} ELSE {}

\* OnRun merges the buffer: OnClientJoin posts the first receive, and does
\* not look at the result.
Merge ==
  /\ Goto("loop", "check")
  /\ clientsBuff # {}
  /\ clients' = clients \cup clientsBuff
  /\ clientsBuff' = {}
  /\ isPostRecv' = isPostRecv \cup clientsBuff
  /\ \E ok \in SUBSET clientsBuff :
        /\ ok = clientsBuff \/ PostFails
        /\ posted' = [c \in Clients |-> posted[c] \cup (IF c \in ok THEN RecvRequest(c) ELSE {})]
  /\ UNCHANGED <<acceptPosted, clientAccept, objVars, isPostSend, buffVars, queue, hungUp, todo, sending>>

\* A server whose map is empty sleeps and does not poll.
NothingToMerge ==
  /\ Goto("loop", "check")
  /\ clientsBuff = {} /\ clients # {}
  /\ UNCHANGED <<acceptPosted, clientAccept, objVars, flagVars, buffVars, netVars,
                 clientsBuff, clients, todo, sending>>

\* Mutant of Expire: the client is deleted whatever is posted.
ExpireDelete(c) ==
  /\ pc = "check" /\ c \in clients
  /\ clients' = clients \ {c}
  /\ OnClientLeave(c)
  /\ UNCHANGED <<acceptPosted, netVars, clientsBuff, todo, pc, sending>>

\* CheckTime: a silent client with a request posted is only closed; the
\* completion of the request is to delete it.
Expire(c) ==
  /\ pc = "check" /\ c \in clients
  /\ clients' = clients \ {c}
  /\ IF c \in isPostRecv \cup isPostSend
     THEN open' = open \ {c} /\ UNCHANGED <<clientAccept, object, flagVars, buffVars>>
     ELSE OnClientLeave(c)
  /\ UNCHANGED <<acceptPosted, netVars, clientsBuff, todo, pc, sending>>

CheckTimeDone ==
  /\ Goto("check", "send")
  /\ todo' = clients
  /\ UNCHANGED <<acceptPosted, clientAccept, objVars, flagVars, buffVars, netVars,
                 clientsBuff, clients, sending>>
-----------------------------------------------------------------------------
(* DoNetEvent: post a send and a receive for each client that needs them *)

Post(c, requests) ==
  /\ posted' = [posted EXCEPT ![c] = @ \cup requests]
  /\ UNCHANGED <<objVars, clientAccept, clients, buffVars>>

PostFailed(c) ==
  /\ PostFails
  /\ OnClientLeave(c)
  /\ clients' = clients \ {c}
  /\ UNCHANGED posted

PostSend(c) ==
  /\ pc = "send" /\ Visits(c)
  /\ sendLast[c] > 0 /\ c \notin isPostSend
  /\ sending' = sending \cup {c}
  /\ \/ /\ Post(c, {[io |-> "send", at |-> sendLast[c]]})
        /\ isPostSend' = isPostSend \cup {c}
        /\ UNCHANGED <<isPostRecv, todo>>
     \/ PostFailed(c) /\ todo' = todo \ {c}
  /\ UNCHANGED <<acceptPosted, queue, hungUp, clientsBuff, pc>>

\* Mutant of PostRecv: the flag is not tested.
PostRecvAgain(c) ==
  /\ pc = "send" /\ Visits(c)
  /\ sendLast[c] = 0 \/ c \in isPostSend
  /\ todo' = todo \ {c}
  /\ \/ Post(c, RecvRequest(c)) /\ isPostRecv' = isPostRecv \cup {c} /\ UNCHANGED isPostSend
     \/ RecvRequest(c) # {} /\ PostFailed(c)
  /\ UNCHANGED <<acceptPosted, queue, hungUp, clientsBuff, pc, sending>>

PostRecv(c) ==
  /\ pc = "send" /\ Visits(c)
  /\ sendLast[c] = 0 \/ c \in isPostSend
  /\ c \notin isPostRecv
  /\ todo' = todo \ {c}
  /\ \/ Post(c, RecvRequest(c)) /\ isPostRecv' = isPostRecv \cup {c} /\ UNCHANGED isPostSend
     \/ RecvRequest(c) # {} /\ PostFailed(c)
  /\ UNCHANGED <<acceptPosted, queue, hungUp, clientsBuff, pc, sending>>

PostNothing(c) ==
  /\ pc = "send" /\ Visits(c)
  /\ sendLast[c] = 0 \/ c \in isPostSend
  /\ c \in isPostRecv
  /\ todo' = todo \ {c}
  /\ UNCHANGED <<acceptPosted, clientAccept, objVars, flagVars, buffVars, netVars,
                 clientsBuff, clients, pc, sending>>

PostsDone ==
  /\ todo = {}
  /\ Goto("send", "event")
  /\ UNCHANGED <<acceptPosted, clientAccept, objVars, flagVars, buffVars, netVars,
                 clientsBuff, clients, todo, sending>>
-----------------------------------------------------------------------------
(* DoIOCPNetEvent: one completion at a time, until there is none *)

\* recv4Iocp
Received(c, n) ==
  /\ isPostRecv' = isPostRecv \ {c}
  /\ recvLast' = [recvLast EXCEPT ![c] = @ + n]
  /\ unread' = unread \cup {c}
  /\ UNCHANGED <<isPostSend, sendLast, clientAccept, objVars, clients, sending>>

\* send2Iocp
Sent(c, n) ==
  /\ isPostSend' = isPostSend \ {c}
  /\ sendLast' = [sendLast EXCEPT ![c] = @ - n]
  /\ sending' = sending \ {c}
  /\ UNCHANGED <<isPostRecv, recvLast, unread, clientAccept, objVars, clients>>

\* Mutant of RemoveClient: only a client of the map is deleted.
RemoveFound(c) ==
  /\ clients' = clients \ {c}
  /\ IF c \in clients THEN OnClientLeave(c) ELSE UNCHANGED <<clientAccept, objVars, flagVars, buffVars>>
  /\ UNCHANGED sending

\* rmClient: the map entry goes, if CheckTime has not erased it before; the
\* client is deleted in any case.
RemoveClient(c) ==
  /\ clients' = clients \ {c}
  /\ OnClientLeave(c)
  /\ UNCHANGED sending

NetEvent ==
  /\ pc = "event" /\ queue # <<>>
  /\ LET e == Head(queue) IN
     /\ queue' = Tail(queue)
     /\ \/ /\ object[e.client] = "freed"
           /\ pc' = "wild"
           /\ UNCHANGED <<clientAccept, objVars, flagVars, buffVars, clients, sending>>
        \/ /\ object[e.client] = "live"
           /\ \/ e.bytes = 0 /\ RemoveClient(e.client)
              \/ e.bytes > 0 /\ e.io = "recv" /\ Received(e.client, e.bytes)
              \/ e.bytes > 0 /\ e.io = "send" /\ Sent(e.client, e.bytes)
           /\ UNCHANGED pc
  /\ UNCHANGED <<acceptPosted, posted, hungUp, clientsBuff, todo>>

\* Mutant of NoMoreEvents: requests are posted again before the messages
\* were handled.
PostBeforeDoMsg ==
  /\ queue = <<>>
  /\ pc = "event" /\ pc' \in {"send", "msg"}
  /\ todo' = clients
  /\ UNCHANGED <<acceptPosted, clientAccept, objVars, flagVars, buffVars, netVars,
                 clientsBuff, clients, sending>>

NoMoreEvents ==
  /\ queue = <<>>
  /\ Goto("event", "msg")
  /\ todo' = clients
  /\ UNCHANGED <<acceptPosted, clientAccept, objVars, flagVars, buffVars, netVars,
                 clientsBuff, clients, sending>>

\* DoMsg: the whole messages leave the buffer.  What stays is a part of a
\* message, and fills the buffer only when the message can never fit.
\* OnNetMsg may send.
DoMsg(c) ==
  /\ pc = "msg" /\ Visits(c)
  /\ todo' = todo \ {c}
  /\ IF c \in unread
     THEN /\ \E rest \in 0..recvLast[c] :
                /\ rest < BuffSize \/ Oversize
                /\ recvLast' = [recvLast EXCEPT ![c] = rest]
          /\ \E n \in 0..(IF c \in Answered THEN BuffSize - sendLast[c] ELSE 0) :
                sendLast' = [sendLast EXCEPT ![c] = @ + n]
     ELSE UNCHANGED <<recvLast, sendLast>>
  /\ unread' = unread \ {c}
  /\ UNCHANGED <<acceptPosted, clientAccept, objVars, flagVars, netVars, clientsBuff, clients, pc, sending>>

DoMsgDone ==
  /\ todo = {}
  /\ Goto("msg", "loop")
  /\ UNCHANGED <<acceptPosted, clientAccept, objVars, flagVars, buffVars, netVars,
                 clientsBuff, clients, todo, sending>>
-----------------------------------------------------------------------------
CheckTime == (\E c \in Clients : Expire(c)) \/ CheckTimeDone

\* The thread goes on; whether a client is found silent is not its choice.
OnRun ==
  \/ Merge \/ NothingToMerge \/ CheckTimeDone
  \/ \E c \in Clients : PostSend(c) \/ PostRecv(c) \/ PostNothing(c) \/ DoMsg(c)
  \/ PostsDone \/ NetEvent \/ NoMoreEvents \/ DoMsgDone

Aborts(c) == \E r \in posted[c] : (c \notin open \/ c \in hungUp) /\ Complete(c, r)

Next ==
  \/ \E c \in Clients : IOCPAccept(c) \/ HangUp(c) \/ \E r \in posted[c] : Complete(c, r)
  \/ CheckTime \/ OnRun

\* The thread is scheduled; the kernel answers what is posted on a socket
\* that is closed at either end.  Peers need not send anything.
Fairness == WF_vars(OnRun) /\ \A c \in Clients : WF_vars(Aborts(c))

SafeSpec == Init /\ [][Next]_vars
Spec == SafeSpec /\ Fairness
-----------------------------------------------------------------------------
\* What the kernel still has to say of a client: requests and completions.
Queued(c) == {i \in DOMAIN queue : queue[i].client = c}
Outstanding(c, io) ==
  Cardinality({r \in posted[c] : r.io = io}) + Cardinality({i \in Queued(c) : queue[i].io = io})

\* Each buffer has one OVERLAPPED: a client never has two requests of a
\* kind, and a flag that is not set means that nothing is outstanding.
OneRequest ==
  \A c \in Clients : object[c] = "live" =>
     /\ Outstanding(c, "recv") <= IF c \in isPostRecv THEN 1 ELSE 0
     /\ Outstanding(c, "send") <= IF c \in isPostSend THEN 1 ELSE 0

\* While a receive is outstanding the tail of the buffer, where the kernel
\* writes, does not move: DoMsg never shifts the buffer under it.  While a
\* send is, its bytes stay at the front of the send buffer.
BuffersStill ==
  \A c \in Clients : object[c] = "live" =>
     /\ \A r \in posted[c] : r.at = recvLast[c] \/ (r.io = "send" /\ r.at <= sendLast[c])
     /\ \A i \in Queued(c) : queue[i].at = recvLast[c] \/ (queue[i].io = "send" /\ queue[i].at <= sendLast[c])

\* A freed client leaves the kernel at most one request, or completion to
\* come, and that only if a send of it was under way when it was freed: then
\* the other request may be left, whose completion makes the thread wild.
\* With no send under way neither the heartbeat, nor the peer's hanging up,
\* nor a post that fails frees it under a request.
FreedUnposted ==
  \A c \in Clients : object[c] = "freed" =>
     Outstanding(c, "recv") + Outstanding(c, "send") <= IF c \in sending THEN 1 ELSE 0

\* An expired client, closed and out of the map, waits for its completion.
Expired(c) == object[c] = "live" /\ c \notin clients \cup clientsBuff

\* An expired client whose request is still in the kernel is counted out and
\* freed, by the completion of that request, unless the last client of the
\* map has left and nobody polls.  (One whose request had just completed
\* with data, or whose flag stands for no request, is never freed.)
ExpiredFreed ==
  \A c \in Clients :
     Expired(c) /\ posted[c] # {} ~> object[c] = "freed" \/ clients = {} \/ pc = "wild"
=============================================================================
