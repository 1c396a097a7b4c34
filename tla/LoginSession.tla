---------------------------- MODULE LoginSession ----------------------------
(***************************************************************************)
(* The load client EasyTcpClient/client.cpp with the client classes of     *)
(* EasyTcpClient.hpp, EasyEpollClient.hpp and EasySelectClient.hpp, against *)
(* the test server EasyTcpServer/server.cpp with -checkMsgID.  Each thread *)
(* of the load client creates and connects its clients, waits for the      *)
(* other threads, and then sends numbered logins and takes numbered        *)
(* replies until main closes it.  What Connection shows of the bytes is    *)
(* used here: a connection is a queue of whole messages, and a message is  *)
(* the number it carries.  One cell server serves each connection, so its  *)
(* work on different clients is independent.                               *)
(***************************************************************************)
EXTENDS Integers, Sequences

CONSTANTS
  nThread, nClient, nMsg,
  Options,        \* the command lines: records [client, checkSendBack, sendBack]
  MaxLogins,      \* bound: logins that a client sends
  CliSendCap,     \* logins that the send buffer of a client holds
  SrvSendCap,     \* replies that the send buffer of the server holds
  WireCap,        \* messages the kernel keeps in one direction
  Broken          \* the clients whose connection may break or fail

ASSUME SessionBounds ==
  {nThread, nClient, nMsg, MaxLogins, CliSendCap, SrvSendCap, WireCap} \subseteq Nat \ {0}
ASSUME OptionsOK ==
  Options \subseteq [client : {"epoll", "select"}, checkSendBack : BOOLEAN, sendBack : BOOLEAN]

Threads == 1..nThread
Clients == Threads \X (1..nClient)

VARIABLES
  opt,         \* what the programs were started with
  mainPc,      \* 0: running; t: in Close of thread t; after the last: ended
  isRun,       \* CellThread::isRun of the threads
  pc,          \* where each thread is in WorkThread
  pos,         \* its loop index, from 1
  readyCount, nConnect,
  cli,         \* the MyClient objects
  srv,         \* what the server keeps for each connection
  net          \* the connections

vars == <<opt, mainPc, isRun, pc, pos, readyCount, nConnect, cli, srv, net>>

Init ==
  /\ opt \in Options
  /\ mainPc = 0
  /\ isRun = [t \in Threads |-> TRUE]
  /\ pc = [t \in Threads |-> "create"] /\ pos = [t \in Threads |-> 1]
  /\ readyCount = 0 /\ nConnect = 0
  /\ cli = [c \in Clients |-> [made |-> FALSE, run |-> FALSE, sendBuff |-> <<>>,
                               sendCount |-> 0, bSend |-> FALSE, sendID |-> 1, recvID |-> 1]]
  /\ srv = [c \in Clients |-> [recvID |-> 1, sendID |-> 1, sendBuff |-> <<>>]]
  /\ net = [c \in Clients |-> [link |-> "none", up |-> <<>>, down |-> <<>>]]

\* A loop over n elements that goes to next after the last.
Advance(t, n, next) ==
  IF pos[t] < n THEN pos' = [pos EXCEPT ![t] = @ + 1] /\ UNCHANGED pc
  ELSE pos' = [pos EXCEPT ![t] = 1] /\ pc' = [pc EXCEPT ![t] = next]

Goto(t, next) == pc' = [pc EXCEPT ![t] = next] /\ pos' = [pos EXCEPT ![t] = 1]

Mine(t) == <<t, ((pos[t] - 1) % nClient) + 1>>   \* clients[n]
-----------------------------------------------------------------------------
(* The start of WorkThread.                                                *)

Create(t) ==
  /\ pc[t] = "create"
  /\ \/ /\ isRun[t]
        /\ cli' = [cli EXCEPT ![Mine(t)].made = TRUE]
        /\ Advance(t, nClient, "connect")
     \/ /\ ~isRun[t]
        /\ Goto(t, "connect") /\ UNCHANGED cli
  /\ UNCHANGED <<opt, mainPc, isRun, readyCount, nConnect, srv, net>>

\* InitSocket and Connect; the loop ends with the first that fails.
Connect(t) ==
  /\ pc[t] = "connect"
  /\ \/ /\ isRun[t]
        /\ cli' = [cli EXCEPT ![Mine(t)].run = TRUE]
        /\ net' = [net EXCEPT ![Mine(t)].link = "up"]
        /\ nConnect' = nConnect + 1
        /\ Advance(t, nClient, "connected")
     \/ /\ isRun[t] => Mine(t) \in Broken
        /\ Goto(t, "connected")
        /\ UNCHANGED <<cli, net, nConnect>>
  /\ UNCHANGED <<opt, mainPc, isRun, readyCount, srv>>

Ready(t) ==
  /\ pc[t] = "connected"
  /\ readyCount' = readyCount + 1
  /\ Goto(t, "wait")
  /\ UNCHANGED <<opt, mainPc, isRun, nConnect, cli, srv, net>>

\* Mutant of WaitOthers: a thread that waits is not told of the end.
WaitOthersOnly(t) ==
  /\ pc[t] = "wait"
  /\ readyCount >= nThread
  /\ Goto(t, "loop")
  /\ UNCHANGED <<opt, mainPc, isRun, readyCount, nConnect, cli, srv, net>>

WaitOthers(t) ==
  /\ pc[t] = "wait"
  /\ readyCount >= nThread \/ ~isRun[t]
  /\ Goto(t, "loop")
  /\ UNCHANGED <<opt, mainPc, isRun, readyCount, nConnect, cli, srv, net>>
-----------------------------------------------------------------------------
(* A round of the loop: SendTest for every client, nMsg times, then OnRun  *)
(* and checkSend for every client.                                         *)

LoopTop(t) ==
  /\ pc[t] = "loop"
  /\ Goto(t, IF isRun[t] THEN "send" ELSE "close")
  /\ UNCHANGED <<opt, mainPc, isRun, readyCount, nConnect, cli, srv, net>>

\* Mutant of SendTest: a login is sent before the last one was answered.
SendTestAgain(t) ==
  LET c == Mine(t)
      me == cli[c]
      sends == /\ me.run /\ me.sendCount > 0
               /\ Len(me.sendBuff) < CliSendCap
               /\ me.sendID <= MaxLogins
  IN
  /\ pc[t] = "send"
  /\ cli' = IF sends
            THEN [cli EXCEPT ![c].sendBuff = Append(@, me.sendID),
                             ![c].bSend = opt.checkSendBack,
                             ![c].sendID = @ + 1,
                             ![c].sendCount = @ - 1]
            ELSE cli
  /\ Advance(t, nMsg * nClient, "run")
  /\ UNCHANGED <<opt, mainPc, isRun, readyCount, nConnect, srv, net>>

\* A login that the send buffer refuses is tried again in the next round.
SendTest(t) ==
  LET c == Mine(t)
      me == cli[c]
      sends == /\ me.run /\ me.sendCount > 0 /\ ~me.bSend
               /\ Len(me.sendBuff) < CliSendCap
               /\ me.sendID <= MaxLogins
  IN
  /\ pc[t] = "send"
  /\ cli' = IF sends
            THEN [cli EXCEPT ![c].sendBuff = Append(@, me.sendID),
                             ![c].bSend = opt.checkSendBack,
                             ![c].sendID = @ + 1,
                             ![c].sendCount = @ - 1]
            ELSE cli
  /\ Advance(t, nMsg * nClient, "run")
  /\ UNCHANGED <<opt, mainPc, isRun, readyCount, nConnect, srv, net>>

\* OnNetMsg for the first k messages that arrived; any message is an answer.
TakeReplies(me, k) ==
  IF k = 0 THEN me ELSE [me EXCEPT !.bSend = FALSE, !.recvID = @ + k]

\* checkSend: the time for the next messages has come, or not.  (After the
\* last login that the bound allows it makes no difference, and is left out.)
CheckSend(me) == IF me.sendID <= MaxLogins THEN {me, [me EXCEPT !.sendCount = nMsg]} ELSE {me}

\* OnRun finds the connection well: it takes some of what arrived and hands
\* some of what is to be sent to the kernel.
Exchange(c) ==
  LET me == cli[c]
      canRead == net[c].down # <<>>
      canWrite == me.sendBuff # <<>> /\ Len(net[c].up) < WireCap
  IN
  /\ net[c].link = "up" \/ (canRead /\ me.sendBuff = <<>>)
  /\ \E k \in IF canRead THEN 1..Len(net[c].down) ELSE {0},
        j \in IF canWrite THEN 1..(WireCap - Len(net[c].up)) ELSE {0} :
       /\ j <= Len(me.sendBuff)
       /\ \E next \in CheckSend(TakeReplies(me, k)) :
            cli' = [cli EXCEPT ![c] = [next EXCEPT !.sendBuff = SubSeq(@, j + 1, Len(@))]]
       /\ net' = [net EXCEPT ![c].down = SubSeq(@, k + 1, Len(@)),
                             ![c].up = @ \o SubSeq(me.sendBuff, 1, j)]
  /\ UNCHANGED nConnect

Closed(me) == [me EXCEPT !.run = FALSE, !.sendBuff = <<>>]

\* The connection has failed: RecvData of a connection without data, or
\* SendDataReal, returns SOCKET_ERROR and Close follows.  The epoll client
\* returns true all the same, so the loss is not counted and checkSend is
\* called for the closed client.
Lose(c) ==
  LET me == TakeReplies(cli[c], Len(net[c].down)) IN
  /\ net[c].link = "broken"
  /\ net[c].down = <<>> \/ cli[c].sendBuff # <<>>
  /\ net' = [net EXCEPT ![c].down = <<>>]
  /\ \/ /\ opt.client = "epoll"
        /\ \E next \in CheckSend(Closed(me)) : cli' = [cli EXCEPT ![c] = next]
        /\ UNCHANGED nConnect
     \/ /\ opt.client = "select"
        /\ cli' = [cli EXCEPT ![c] = Closed(me)]
        /\ nConnect' = nConnect - 1

\* The poll itself fails: Close, and both classes return false.
PollFails(c) ==
  /\ c \in Broken
  /\ cli' = [cli EXCEPT ![c] = Closed(@)]
  /\ net' = [net EXCEPT ![c].link = "broken"]
  /\ nConnect' = nConnect - 1

\* Mutant of OnRun: a client is not polled while nothing is to be sent.
OnRunToSend(t) ==
  LET c == Mine(t) IN
  /\ pc[t] = "run"
  /\ \/ cli[c].sendBuff # <<>> /\ (Exchange(c) \/ Lose(c))
     \/ /\ cli[c].sendBuff = <<>>
        /\ \E next \in CheckSend(cli[c]) : cli' = [cli EXCEPT ![c] = next]
        /\ UNCHANGED <<net, nConnect>>
  /\ Advance(t, nClient, "loop")
  /\ UNCHANGED <<opt, mainPc, isRun, readyCount, srv>>

OnRun(t) ==
  LET c == Mine(t) IN
  /\ pc[t] = "run"
  /\ \/ cli[c].run /\ (Exchange(c) \/ Lose(c) \/ PollFails(c))
     \/ ~cli[c].run /\ UNCHANGED <<cli, net, nConnect>>
  /\ Advance(t, nClient, "loop")
  /\ UNCHANGED <<opt, mainPc, isRun, readyCount, srv>>

\* The end of WorkThread: every client is closed and deleted.  A client that
\* was never created is a null pointer, and the program ends there.
CloseClients(t) ==
  LET c == Mine(t) IN
  /\ pc[t] = "close"
  /\ \/ /\ cli[c].made
        /\ cli' = [cli EXCEPT ![c] = Closed(@)]
        /\ net' = [net EXCEPT ![c].link = IF @ = "up" THEN "broken" ELSE @]
        /\ Advance(t, nClient, "exit")
     \/ /\ ~cli[c].made
        /\ Goto(t, "crashed")
        /\ UNCHANGED <<cli, net>>
  /\ UNCHANGED <<opt, mainPc, isRun, readyCount, nConnect, srv>>

Exit(t) ==
  /\ pc[t] = "exit"
  /\ readyCount' = readyCount - 1
  /\ Goto(t, "done")
  /\ UNCHANGED <<opt, mainPc, isRun, nConnect, cli, srv, net>>

Crashed == \E t \in Threads : pc[t] = "crashed"

WorkThread(t) ==
  /\ ~Crashed
  /\ \/ Create(t) \/ Connect(t) \/ Ready(t) \/ WaitOthers(t) \/ LoopTop(t)
     \/ SendTest(t) \/ OnRun(t) \/ CloseClients(t) \/ Exit(t)

\* main: after `exit' it closes the threads one after the other.  Close
\* clears the flag and returns when the thread has ended (module CellThread).
Main ==
  /\ ~Crashed
  /\ mainPc <= nThread
  /\ mainPc > 0 => pc[mainPc] = "done"
  /\ mainPc' = mainPc + 1
  /\ isRun' = [t \in Threads |-> isRun[t] /\ t # mainPc + 1]
  /\ UNCHANGED <<opt, pc, pos, readyCount, nConnect, cli, srv, net>>
-----------------------------------------------------------------------------
(* The server.                                                             *)

\* Mutant of OnNetMsg: a refused reply uses up its number.
OnNetMsgCounts(c) ==
  LET me == srv[c]
      fits == Len(me.sendBuff) < SrvSendCap
  IN
  /\ net[c].link = "up" /\ net[c].up # <<>>
  /\ net' = [net EXCEPT ![c].up = Tail(@)]
  /\ srv' = [srv EXCEPT ![c] =
       [recvID |-> me.recvID + 1,
        sendID |-> IF opt.sendBack THEN me.sendID + 1 ELSE me.sendID,
        sendBuff |-> IF opt.sendBack /\ fits THEN Append(me.sendBuff, me.sendID) ELSE me.sendBuff]]
  /\ UNCHANGED <<opt, mainPc, isRun, pc, pos, readyCount, nConnect, cli>>

\* MyServer::OnNetMsg of a login; a reply that the send buffer refuses is
\* dropped and its number kept.
OnNetMsg(c) ==
  LET me == srv[c]
      replies == opt.sendBack /\ Len(me.sendBuff) < SrvSendCap
  IN
  /\ net[c].link = "up" /\ net[c].up # <<>>
  /\ net' = [net EXCEPT ![c].up = Tail(@)]
  /\ srv' = [srv EXCEPT ![c] =
       IF replies THEN [recvID |-> me.recvID + 1, sendID |-> me.sendID + 1,
                        sendBuff |-> Append(me.sendBuff, me.sendID)]
       ELSE [me EXCEPT !.recvID = @ + 1]]
  /\ UNCHANGED <<opt, mainPc, isRun, pc, pos, readyCount, nConnect, cli>>

SendDataReal(c) ==
  /\ net[c].link = "up"
  /\ srv[c].sendBuff # <<>> /\ Len(net[c].down) < WireCap
  /\ net' = [net EXCEPT ![c].down = Append(@, Head(srv[c].sendBuff))]
  /\ srv' = [srv EXCEPT ![c].sendBuff = Tail(@)]
  /\ UNCHANGED <<opt, mainPc, isRun, pc, pos, readyCount, nConnect, cli>>

Server(c) == OnNetMsg(c) \/ SendDataReal(c)

\* The connection breaks, or the server closes it (its heartbeat expired);
\* what had arrived at the client may still be read.
Break(c) ==
  /\ c \in Broken /\ net[c].link = "up"
  /\ \E down \in {net[c].down, <<>>} :
       net' = [net EXCEPT ![c] = [link |-> "broken", up |-> <<>>, down |-> down]]
  /\ UNCHANGED <<opt, mainPc, isRun, pc, pos, readyCount, nConnect, cli, srv>>

Next ==
  \/ Main
  \/ \E t \in Threads : WorkThread(t)
  \/ \E c \in Clients : Server(c) \/ Break(c)

\* Nobody has to type `exit', and no connection has to break; a thread that
\* is scheduled makes its rounds, and epoll reports what is ready.
Fairness ==
  /\ WF_vars(mainPc > 0 /\ Main)
  /\ \A t \in Threads : WF_vars(WorkThread(t))
  /\ \A c \in Clients : WF_vars(OnNetMsg(c)) /\ WF_vars(SendDataReal(c))

Spec == Init /\ [][Next]_vars /\ Fairness
-----------------------------------------------------------------------------
Consecutive(ids, from) == \A k \in DOMAIN ids : ids[k] = from + k - 1

\* On a connection that stands, the messages under way carry, one after the
\* other, the numbers that their receiver counts: whatever is refused for
\* want of room on either side, the comparison of -checkMsgID never fails.
IdsConsecutive ==
  \A c \in Clients :
     LET logins == net[c].up \o cli[c].sendBuff
         replies == net[c].down \o srv[c].sendBuff
     IN  cli[c].run /\ net[c].link = "up" =>
           /\ Consecutive(logins, srv[c].recvID)
           /\ cli[c].sendID = srv[c].recvID + Len(logins)
           /\ Consecutive(replies, cli[c].recvID)
           /\ srv[c].sendID = cli[c].recvID + Len(replies)

\* With -checkSendBack a client waits for an answer exactly as long as its
\* login or the reply to it is under way; so there is never a second one, and
\* the server never finds its send buffer full.
OneUnanswered ==
  opt.checkSendBack /\ opt.sendBack =>
    \A c \in Clients : cli[c].run /\ net[c].link = "up" =>
       Len(cli[c].sendBuff) + Len(net[c].up) + Len(srv[c].sendBuff) + Len(net[c].down)
         = IF cli[c].bSend THEN 1 ELSE 0

\* A login is answered, unless its connection breaks or the program ends.
AnswerComes ==
  opt.sendBack => \A c \in Clients :
     cli[c].bSend ~> ~cli[c].bSend \/ net[c].link = "broken" \/ mainPc > 0

\* Once main closes its threads it ends, also when they wait for each other
\* or for the server; the exception is a thread that was closed before it
\* had created all its clients, which calls Close on a null pointer.
ThreadsEnd ==
  mainPc > 0 ~> mainPc > nThread \/ \E t \in Threads, n \in 1..nClient :
                                      pc[t] = "crashed" /\ ~cli[<<t, n>>].made
=============================================================================
