----------------------------- MODULE Connection -----------------------------
(***************************************************************************)
(* One direction of a connection between two CellClient objects (a client  *)
(* and the object a cell server keeps for it, or back): CellClient.hpp     *)
(* with its two CellBuffers, and the receiving loop, which receives once   *)
(* for a readable socket and then handles every whole message (DoMsg)      *)
(* before it receives again.  The loop is CellServer.hpp's when the server *)
(* receives, and EasyTcpClient.hpp's when the client does; they differ in  *)
(* what they make of a full receive buffer.                                *)
(***************************************************************************)
EXTENDS CellBuffer

CONSTANTS
  SendSize,    \* size of the sender's _sendBuff
  RecvSize,    \* size of the receiver's _recvBuff
  WireSize,    \* bytes the kernel keeps between the two
  Lengths,     \* lengths of the messages that are sent
  MaxMsgs,     \* bound: number of SendData calls
  CanReset     \* may the connection break?

ASSUME SizesPos == {SendSize, RecvSize, WireSize, MaxMsgs} \subseteq Nat \ {0}

\* Every message has a header; it may be longer than the receiver's buffer.
ASSUME LengthsHold == Lengths \subseteq {len \in Nat : len >= HeaderLen}
\* The buffers of the program hold thousands of headers.
ASSUME BufferHoldsHeader == RecvSize >= HeaderLen
ASSUME CanResetBool == CanReset \in BOOLEAN

VARIABLES
  receiver,   \* whose loop receives, "server" or "client"; it stays
  sendBuff,   \* the sender's _sendBuff
  wire,       \* bytes in the kernel's socket buffers
  recvBuff,   \* the receiver's _recvBuff
  phase,      \* the receiver is in DoNetEvent ("net") or in DoMsg ("msg")
  link,       \* "up", "reset" (by the network), or "dropped" (by the receiver)
  calls,      \* number of SendData calls
  accepted,   \* history: messages that SendData accepted
  delivered   \* history: messages given to OnNetMsg

vars == <<receiver, sendBuff, wire, recvBuff, phase, link, calls, accepted, delivered>>

Init ==
  /\ receiver \in {"server", "client"}
  /\ sendBuff = <<>> /\ wire = <<>> /\ recvBuff = <<>>
  /\ phase = "net"
  /\ link = "up"
  /\ calls = 0
  /\ accepted = <<>> /\ delivered = <<>>

\* SendData of len bytes, in whose header dataLength stands: they enter the
\* send buffer whole, or the call returns SOCKET_ERROR and changes nothing.
SendData(len, dataLength) ==
  LET bytes == MsgBytes(calls + 1, len, dataLength) IN
  /\ calls < MaxMsgs
  /\ calls' = calls + 1
  /\ \/ /\ Fits(sendBuff, SendSize, bytes)
        /\ sendBuff' = Push(sendBuff, bytes)
        /\ accepted' = Append(accepted, [msg |-> calls + 1, len |-> len])
     \/ /\ ~Fits(sendBuff, SendSize, bytes)
        /\ UNCHANGED <<sendBuff, accepted>>
  /\ UNCHANGED <<receiver, wire, recvBuff, phase, link, delivered>>

\* SendDataReal / write2socket: send() takes at least one byte of a
\* non-empty buffer, and possibly not all.
SendDataReal(n) ==
  /\ link = "up"
  /\ n <= Len(sendBuff)
  /\ Len(wire) + n <= WireSize
  /\ wire' = wire \o Front(sendBuff, n)
  /\ sendBuff' = DropFront(sendBuff, n)
  /\ UNCHANGED <<receiver, recvBuff, phase, link, calls, accepted, delivered>>

\* RecvData / read4socket: recv() returns some of the bytes that arrived.
RecvData(n) ==
  /\ phase = "net" /\ link = "up"
  /\ n <= Len(wire)
  /\ n <= RecvSize - Len(recvBuff)
  /\ recvBuff' = recvBuff \o Front(wire, n)
  /\ wire' = DropFront(wire, n)
  /\ phase' = "msg"
  /\ UNCHANGED <<receiver, sendBuff, link, calls, accepted, delivered>>

\* With a full buffer read4socket returns 0, which CellServer::RecvData
\* turns into SOCKET_ERROR.  A client's loop asks for SOCKET_ERROR only: it
\* takes the 0 for nothing received and comes back to it at every poll.
RecvFull ==
  /\ receiver = "server"
  /\ phase = "net" /\ link = "up"
  /\ wire # <<>>
  /\ Len(recvBuff) = RecvSize
  /\ link' = "dropped"
  /\ UNCHANGED <<receiver, sendBuff, wire, recvBuff, phase, calls, accepted, delivered>>

\* One round of the loop of DoMsg: OnNetMsg, then pop_front_msg.
HandleMsg ==
  /\ phase = "msg"
  /\ HasMsg(recvBuff)
  /\ delivered' = Append(delivered, [msg |-> recvBuff[1].msg, len |-> DataLength(recvBuff)])
  /\ recvBuff' = DropFront(recvBuff, DataLength(recvBuff))
  /\ UNCHANGED <<receiver, sendBuff, wire, phase, link, calls, accepted>>

\* Mutant of DoMsgDone: an if in place of the while.
DoMsgOnce ==
  /\ phase = "msg"
  /\ phase' = "net"
  /\ UNCHANGED <<receiver, sendBuff, wire, recvBuff, link, calls, accepted, delivered>>

DoMsgDone ==
  /\ phase = "msg"
  /\ ~HasMsg(recvBuff)
  /\ phase' = "net"
  /\ UNCHANGED <<receiver, sendBuff, wire, recvBuff, link, calls, accepted, delivered>>

\* The network breaks the connection and what it held is lost.
Reset ==
  /\ CanReset /\ link = "up"
  /\ link' = "reset"
  /\ wire' = <<>>
  /\ UNCHANGED <<receiver, sendBuff, recvBuff, phase, calls, accepted, delivered>>

Transfer ==
  \/ \E n \in 1..SendSize : SendDataReal(n)
  \/ \E n \in 1..RecvSize : RecvData(n)

\* Both ends poll again and again and find the socket writable or readable;
\* nobody has to send.
Fairness ==
  /\ WF_vars(\E n \in 1..SendSize : SendDataReal(n))
  /\ WF_vars((\E n \in 1..RecvSize : RecvData(n)) \/ RecvFull)
  /\ WF_vars(HandleMsg \/ DoMsgDone)

-----------------------------------------------------------------------------
Msg == [msg : 1..MaxMsgs, len : Lengths]

\* A receiver that handles all whole messages between two receives has room
\* for the next byte unless the header at the front promises more than its
\* buffer holds: a peer that sends messages of legal length is never taken
\* for a broken socket by the server, and never stops the client.
Full == phase = "net" /\ Len(recvBuff) = RecvSize

OnlyOversizeStops ==
  Full \/ link = "dropped" => recvBuff # <<>> /\ DataLength(recvBuff) > RecvSize

\* The connection is a message channel: no message is lost, torn, repeated
\* or overtaken, and a refused one leaves no trace.
Channel == INSTANCE MsgChannel WITH Message <- Msg

IsChannel == Channel!Safe

\* Every accepted message is delivered, without waiting for another to push
\* it through, unless the connection breaks or the message at the front of a
\* client's buffer can never fit.
DeliversAll ==
  \A k \in 1..MaxMsgs :
    Len(accepted) >= k ~> \/ Len(delivered) >= k
                          \/ link # "up"
                          \/ receiver = "client" /\ Full
=============================================================================
