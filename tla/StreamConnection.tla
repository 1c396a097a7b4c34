-------------------------- MODULE StreamConnection --------------------------
(***************************************************************************)
(* Messages written with CellWriteStream, sent over a Connection in        *)
(* whatever pieces the network makes of them, and read with CellReadStream *)
(* from the receive buffer: what the test server does with CMD_LOGOUT and  *)
(* what the users of the CppNet100 library do.                             *)
(***************************************************************************)
EXTENDS Connection, CellMsgStream

CONSTANTS
  StreamSize,   \* the size of the sender's stream
  Contents,     \* the lists of fields that are sent
  ArrayCap      \* the elements the reader has room for

ASSUME HeaderIsLenCmd == HeaderLen = LenSize + CmdSize
ASSUME StreamHoldsHeader == StreamSize >= HeaderLen

\* A field is an array of values of one size, or a single one.
ASSUME ContentsTyped ==
  \A fields \in Contents :
    /\ fields \in Seq([size : Nat \ {0}, vals : Seq(Int), array : BOOLEAN])
    /\ \A i \in DOMAIN fields : fields[i].array \/ Len(fields[i].vals) = 1

ASSUME ReaderSizes == StreamSize \in Nat /\ ArrayCap \in Nat

\* The lengths that are sent fit the field that holds them.
ASSUME LengthsFit == StreamSize < LengthMod
ASSUME LengthsCover ==
  \A cmd \in 1..MaxMsgs, fields \in Contents : Len(Written(StreamSize, cmd, fields).bytes) \in Lengths

VARIABLES
  contents,   \* the fields of every message that was sent
  streams,    \* the bytes of every message that was sent
  got         \* history: what the reader got from every message delivered

streamVars == <<contents, streams, got>>
allVars == <<vars, streamVars>>

StreamInit == Init /\ contents = <<>> /\ streams = <<>> /\ got = <<>>

\* CellClient_SendWriteStream: finish, then SendData of the whole stream, in
\* whose first bytes finish put the length that the receiver will go by.
\* The command is the number of the call.
SendWriteStream(fields) ==
  LET s == Written(StreamSize, calls + 1, fields) IN
  /\ SendData(Len(s.bytes), Decode(Front(s.bytes, LenSize)))
  /\ contents' = Append(contents, fields)
  /\ streams' = Append(streams, s.bytes)
  /\ UNCHANGED got

\* OnNetMsg of a message at the front of the receive buffer: the bytes that
\* lie there are read, whatever message they are of.
ReadMsg ==
  /\ HandleMsg
  /\ LET bytes == [k \in 1..DataLength(recvBuff) |-> streams[recvBuff[k].msg][recvBuff[k].pos]]
         fields == contents[recvBuff[1].msg]
     IN  got' = Append(got, ReadAll(bytes, fields, ArrayCap))
  /\ UNCHANGED <<contents, streams>>

StreamNext ==
  \/ \E fields \in Contents : SendWriteStream(fields)
  \/ ReadMsg
  \/ (Transfer \/ RecvFull \/ DoMsgDone \/ Reset) /\ UNCHANGED streamVars

StreamSpec == StreamInit /\ [][StreamNext]_allVars /\ Fairness
-----------------------------------------------------------------------------
\* The fields before the first that the reader has no room for.
Readable(fields) ==
  {i \in DOMAIN fields : \A j \in 1..i : fields[j].array => Len(fields[j].vals) <= ArrayCap}

\* What is read from a delivered message is what was written into it, field
\* by field up to the first array that is too long for the reader, unless
\* the writer overlooked that a field did not fit its stream.
FieldsRead ==
  \A k \in DOMAIN delivered :
     LET fields == contents[delivered[k].msg] IN
     AllWritten(StreamSize, fields) => \A i \in Readable(fields) : got[k][i] = fields[i].vals
=============================================================================
