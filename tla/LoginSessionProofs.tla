------------------------- MODULE LoginSessionProofs -------------------------
(***************************************************************************)
(* The numbers that the load client and the test server put into their     *)
(* messages never come apart, and with -checkSendBack a client never has   *)
(* two logins under way: for any number of threads, clients and messages,  *)
(* buffers of any size, and whatever breaks.                               *)
(***************************************************************************)
EXTENDS LoginSession, SequenceTheorems, TLAPS

Ids == Seq(Nat)

Places == {"create", "connect", "connected", "wait", "loop", "send", "run", "close", "exit", "done",
           "crashed"}
MyClients == [made : BOOLEAN, run : BOOLEAN, sendBuff : Ids, sendCount : Nat, bSend : BOOLEAN,
              sendID : Nat, recvID : Nat]
SrvClients == [recvID : Nat, sendID : Nat, sendBuff : Ids]
Connections == [link : {"none", "up", "broken"}, up : Ids, down : Ids]

SessionTypeOK ==
  /\ opt \in Options
  /\ pc \in [Threads -> Places] /\ pos \in [Threads -> Nat \ {0}]
  /\ cli \in [Clients -> MyClients]
  /\ srv \in [Clients -> SrvClients]
  /\ net \in [Clients -> Connections]

\* A client that has not been connected.
Fresh(c) ==
  /\ ~cli[c].run /\ ~cli[c].bSend /\ cli[c].sendID = 1 /\ cli[c].recvID = 1
  /\ srv[c].recvID = 1 /\ srv[c].sendID = 1
  /\ cli[c].sendBuff = <<>> /\ srv[c].sendBuff = <<>> /\ net[c].up = <<>> /\ net[c].down = <<>>

\* The messages under way in one direction: those on the wire carry the
\* numbers that the receiver counts next, those in the buffer the following.
Line(wire, buff, recvID, sendID) ==
  /\ Consecutive(wire, recvID)
  /\ Consecutive(buff, recvID + Len(wire))
  /\ sendID = recvID + Len(wire) + Len(buff)

InStep(c) ==
  /\ Line(net[c].up, cli[c].sendBuff, srv[c].recvID, cli[c].sendID)
  /\ Line(net[c].down, srv[c].sendBuff, cli[c].recvID, srv[c].sendID)

Answered(c) ==
  opt.checkSendBack /\ opt.sendBack =>
    Len(cli[c].sendBuff) + Len(net[c].up) + Len(srv[c].sendBuff) + Len(net[c].down)
      = IF cli[c].bSend THEN 1 ELSE 0

Stands(c) == cli[c].run /\ net[c].link = "up"

ConnInv(c) ==
  /\ net[c].link = "none" => Fresh(c)
  /\ Stands(c) => InStep(c) /\ Answered(c)

\* The connecting loop has not reached these.
LoopInv(t) ==
  /\ pc[t] = "connect" => pos[t] <= nClient
  /\ \A n \in 1..nClient :
        pc[t] = "create" \/ (pc[t] = "connect" /\ n >= pos[t]) => net[<<t, n>>].link = "none"

SessionInv ==
  /\ SessionTypeOK
  /\ \A c \in Clients : ConnInv(c)
  /\ \A t \in Threads : LoopInv(t)
-----------------------------------------------------------------------------
(* The numbers.                                                            *)

LEMMA Bounds ==
  /\ nThread \in Nat \ {0} /\ nClient \in Nat \ {0} /\ nMsg \in Nat \ {0} /\ MaxLogins \in Nat \ {0}
  /\ CliSendCap \in Nat \ {0} /\ SrvSendCap \in Nat \ {0} /\ WireCap \in Nat \ {0}
BY SessionBounds

LEMMA ModRange ==
  ASSUME NEW n \in Nat \ {0}, NEW a \in Nat
  PROVE  a % n \in 0..(n - 1)
OBVIOUS

LEMMA ModSmall ==
  ASSUME NEW n \in Nat \ {0}, NEW a \in 0..(n - 1)
  PROVE  a % n = a
OBVIOUS

LEMMA ConsecutiveEmpty == \A from : Consecutive(<<>>, from)
BY DEF Consecutive

LEMMA ConsecutiveConcat ==
  ASSUME NEW a \in Ids, NEW b \in Ids, NEW from \in Nat
  PROVE  /\ a \o b \in Ids /\ Len(a \o b) = Len(a) + Len(b)
         /\ Consecutive(a \o b, from) <=> Consecutive(a, from) /\ Consecutive(b, from + Len(a))
<1>1. /\ a \o b \in Ids /\ Len(a) \in Nat /\ Len(b) \in Nat /\ Len(a \o b) = Len(a) + Len(b)
      /\ DOMAIN a = 1..Len(a) /\ DOMAIN b = 1..Len(b) /\ DOMAIN (a \o b) = 1..(Len(a) + Len(b))
      /\ \A i \in 1..(Len(a) + Len(b)) : (a \o b)[i] = IF i <= Len(a) THEN a[i] ELSE b[i - Len(a)]
  BY ConcatProperties, LenProperties DEF Ids
<1> DEFINE whole == a \o b
<1> HIDE DEF whole
<1>2. ASSUME Consecutive(whole, from) PROVE Consecutive(a, from) /\ Consecutive(b, from + Len(a))
  <2>1. ASSUME NEW k \in DOMAIN a PROVE a[k] = from + k - 1
    <3>1. k \in DOMAIN whole /\ whole[k] = a[k]
      BY <1>1 DEF whole
    <3> QED BY <1>2, <3>1 DEF Consecutive
  <2>2. ASSUME NEW k \in DOMAIN b PROVE b[k] = (from + Len(a)) + k - 1
    <3>1. k + Len(a) \in DOMAIN whole /\ whole[k + Len(a)] = b[k] /\ k \in Nat
      BY <1>1 DEF whole
    <3>2. whole[k + Len(a)] = from + (k + Len(a)) - 1
      BY <1>2, <3>1 DEF Consecutive
    <3> QED BY <1>1, <3>1, <3>2
  <2> QED BY <2>1, <2>2 DEF Consecutive
<1>3. ASSUME Consecutive(a, from), Consecutive(b, from + Len(a)) PROVE Consecutive(whole, from)
  <2>1. ASSUME NEW k \in DOMAIN whole PROVE whole[k] = from + k - 1
    <3>1. CASE k <= Len(a)
      <4>1. k \in DOMAIN a /\ whole[k] = a[k]
        BY <1>1, <3>1 DEF whole
      <4> QED BY <1>3, <4>1 DEF Consecutive
    <3>2. CASE ~(k <= Len(a))
      <4>1. k - Len(a) \in DOMAIN b /\ whole[k] = b[k - Len(a)] /\ k \in Nat
        BY <1>1, <3>2 DEF whole
      <4>2. b[k - Len(a)] = (from + Len(a)) + (k - Len(a)) - 1
        BY <1>3, <4>1 DEF Consecutive
      <4> QED BY <1>1, <4>1, <4>2
    <3> QED BY <3>1, <3>2
  <2> QED BY <2>1 DEF Consecutive
<1> QED BY <1>1, <1>2, <1>3 DEF whole

\* The first j numbers are taken away.
LEMMA ConsecutiveSplit ==
  ASSUME NEW s \in Ids, NEW j \in 0..Len(s)
  PROVE  /\ SubSeq(s, 1, j) \in Ids /\ Len(SubSeq(s, 1, j)) = j
         /\ SubSeq(s, j + 1, Len(s)) \in Ids /\ Len(SubSeq(s, j + 1, Len(s))) = Len(s) - j
         /\ \A from \in Nat : Consecutive(s, from) =>
               Consecutive(SubSeq(s, 1, j), from) /\ Consecutive(SubSeq(s, j + 1, Len(s)), from + j)
<1> DEFINE front == SubSeq(s, 1, j)
           rest == SubSeq(s, j + 1, Len(s))
<1>1. Len(s) \in Nat /\ DOMAIN s = 1..Len(s) /\ \A i \in 1..Len(s) : s[i] \in Nat
  BY LenProperties, ElementOfSeq DEF Ids
<1>2. front \in Ids /\ Len(front) = j /\ \A i \in 1..j : front[i] = s[i]
  BY <1>1, SubSeqProperties DEF Ids
<1>3. rest \in Ids /\ Len(rest) = Len(s) - j /\ \A i \in 1..(Len(s) - j) : rest[i] = s[j + i]
  <2>1. /\ j + 1 \in 1..(Len(s) + 1) /\ Len(s) \in j..Len(s)
        /\ \A i \in (j + 1)..Len(s) : s[i] \in Nat
    BY <1>1
  <2>2. /\ rest \in Seq(Nat)
        /\ Len(rest) = IF j + 1 <= Len(s) THEN Len(s) - (j + 1) + 1 ELSE 0
        /\ \A i \in 1..(Len(s) - (j + 1) + 1) : rest[i] = s[(j + 1) + i - 1]
    BY <1>1, <2>1, SubSeqProperties
  <2> HIDE DEF rest
  <2> DEFINE n == Len(s)
             m == Len(rest)
  <2>5. n \in Nat /\ j \in 0..n /\ m = IF j + 1 <= n THEN n - (j + 1) + 1 ELSE 0
    BY <1>1, <2>2
  <2>3. m = n - j /\ n - (j + 1) + 1 = n - j
    <3> HIDE DEF n, m
    <3> QED BY <2>5
  <2>4. ASSUME NEW i \in 1..(Len(s) - j) PROVE rest[i] = s[j + i]
    <3>1. (j + 1) + i - 1 = j + i /\ i \in 1..(Len(s) - (j + 1) + 1)
      BY <1>1
    <3> QED BY <2>2, <3>1
  <2> QED BY <2>2, <2>3, <2>4 DEF Ids
<1> HIDE DEF front, rest
<1>4. DOMAIN front = 1..j /\ DOMAIN rest = 1..(Len(s) - j)
  BY <1>2, <1>3, LenProperties DEF Ids
<1>5. ASSUME NEW from \in Nat, Consecutive(s, from)
      PROVE  Consecutive(front, from) /\ Consecutive(rest, from + j)
  <2>1. ASSUME NEW k \in DOMAIN front PROVE front[k] = from + k - 1
    <3>1. k \in DOMAIN s /\ front[k] = s[k]
      BY <1>1, <1>2, <1>4
    <3> QED BY <1>5, <3>1 DEF Consecutive
  <2>2. ASSUME NEW k \in DOMAIN rest PROVE rest[k] = (from + j) + k - 1
    <3>1. j + k \in DOMAIN s /\ rest[k] = s[j + k] /\ k \in Nat
      BY <1>1, <1>3, <1>4
    <3>2. s[j + k] = from + (j + k) - 1
      BY <1>5, <3>1 DEF Consecutive
    <3> QED BY <3>1, <3>2
  <2> QED BY <2>1, <2>2 DEF Consecutive
<1> QED BY <1>2, <1>3, <1>5 DEF front, rest

LEMMA ConsecutiveAppend ==
  ASSUME NEW s \in Ids, NEW from \in Nat, Consecutive(s, from), NEW id \in Nat, id = from + Len(s)
  PROVE  Append(s, id) \in Ids /\ Len(Append(s, id)) = Len(s) + 1 /\ Consecutive(Append(s, id), from)
<1> DEFINE longer == Append(s, id)
<1>1. /\ longer \in Ids /\ Len(longer) = Len(s) + 1 /\ Len(s) \in Nat
      /\ DOMAIN s = 1..Len(s) /\ DOMAIN longer = 1..(Len(s) + 1)
      /\ longer[Len(s) + 1] = id /\ \A i \in 1..Len(s) : longer[i] = s[i]
  BY AppendProperties, LenProperties DEF Ids
<1> HIDE DEF longer
<1>2. ASSUME NEW k \in DOMAIN longer PROVE longer[k] = from + k - 1
  <2>1. CASE k = Len(s) + 1
    BY <1>1, <2>1
  <2>2. CASE k # Len(s) + 1
    <3>1. k \in DOMAIN s /\ longer[k] = s[k]
      BY <1>1, <2>2
    <3> QED BY <3>1 DEF Consecutive
  <2> QED BY <2>1, <2>2
<1> QED BY <1>1, <1>2 DEF Consecutive, longer

LEMMA ConsecutiveTail ==
  ASSUME NEW s \in Ids, s # <<>>
  PROVE  /\ Tail(s) \in Ids /\ Len(Tail(s)) = Len(s) - 1 /\ Head(s) \in Nat /\ Len(s) \in Nat \ {0}
         /\ \A from \in Nat : Consecutive(s, from) => Head(s) = from /\ Consecutive(Tail(s), from + 1)
<1>1. /\ Tail(s) \in Ids /\ Len(Tail(s)) = Len(s) - 1 /\ Head(s) = s[1] /\ Len(s) \in Nat \ {0}
      /\ DOMAIN s = 1..Len(s) /\ DOMAIN Tail(s) = 1..(Len(s) - 1)
      /\ \A i \in 1..(Len(s) - 1) : Tail(s)[i] = s[i + 1]
  BY HeadTailProperties, LenProperties, EmptySeq DEF Ids
<1>2. Head(s) \in Nat
  BY <1>1, ElementOfSeq DEF Ids
<1>3. ASSUME NEW from \in Nat, Consecutive(s, from) PROVE Head(s) = from /\ Consecutive(Tail(s), from + 1)
  <2>1. s[1] = from + 1 - 1
    BY <1>1, <1>3 DEF Consecutive
  <2>2. ASSUME NEW k \in DOMAIN Tail(s) PROVE Tail(s)[k] = (from + 1) + k - 1
    <3>1. k + 1 \in DOMAIN s /\ Tail(s)[k] = s[k + 1] /\ k \in Nat
      BY <1>1
    <3>2. s[k + 1] = from + (k + 1) - 1
      BY <1>3, <3>1 DEF Consecutive
    <3> QED BY <3>1, <3>2
  <2> QED BY <1>1, <2>1, <2>2 DEF Consecutive
<1> QED BY <1>1, <1>2, <1>3
-----------------------------------------------------------------------------
(* One direction of a connection.                                          *)

LEMMA LineEmpty == \A id \in Nat : Line(<<>>, <<>>, id, id)
BY ConsecutiveEmpty, EmptySeq DEF Line

\* The sender numbers one more message.
LEMMA LineSend ==
  ASSUME NEW wire \in Ids, NEW buff \in Ids, NEW recvID \in Nat, NEW sendID \in Nat,
         Line(wire, buff, recvID, sendID)
  PROVE  /\ Append(buff, sendID) \in Ids /\ Len(Append(buff, sendID)) = Len(buff) + 1
         /\ Line(wire, Append(buff, sendID), recvID, sendID + 1)
<1> DEFINE w == Len(wire)
           b == Len(buff)
           longer == Append(buff, sendID)
<1>1. w \in Nat /\ b \in Nat
  BY LenProperties DEF Ids
<1>2. Consecutive(wire, recvID) /\ Consecutive(buff, recvID + w) /\ sendID = (recvID + w) + b
  BY DEF Line
<1>3. recvID + w \in Nat
  BY <1>1
<1>4. longer \in Ids /\ Len(longer) = b + 1 /\ Consecutive(longer, recvID + w)
  BY <1>2, <1>3, ConsecutiveAppend
<1> HIDE DEF longer
<1>5. sendID + 1 = recvID + w + Len(longer)
  <2> HIDE DEF w, b
  <2> QED BY <1>1, <1>2, <1>4
<1>6. Line(wire, longer, recvID, sendID + 1)
  BY <1>2, <1>4, <1>5 DEF Line
<1> QED BY <1>4, <1>6 DEF longer

\* j messages go from the buffer to the wire.
LEMMA LineMove ==
  ASSUME NEW wire \in Ids, NEW buff \in Ids, NEW recvID \in Nat, NEW sendID \in Nat,
         NEW j \in 0..Len(buff)
  PROVE  LET more == wire \o SubSeq(buff, 1, j)
             rest == SubSeq(buff, j + 1, Len(buff))
         IN  /\ more \in Ids /\ Len(more) = Len(wire) + j
             /\ rest \in Ids /\ Len(rest) = Len(buff) - j
             /\ Line(wire, buff, recvID, sendID) => Line(more, rest, recvID, sendID)
<1> DEFINE w == Len(wire)
           b == Len(buff)
           front == SubSeq(buff, 1, j)
           more == wire \o front
           rest == SubSeq(buff, j + 1, Len(buff))
<1>1. w \in Nat /\ b \in Nat /\ j \in 0..b
  BY LenProperties DEF Ids
<1>2. /\ front \in Ids /\ Len(front) = j /\ rest \in Ids /\ Len(rest) = b - j
      /\ \A from \in Nat : Consecutive(buff, from) =>
            Consecutive(front, from) /\ Consecutive(rest, from + j)
  BY ConsecutiveSplit
<1> HIDE DEF front, rest
<1>3. /\ more \in Ids /\ Len(more) = w + j
      /\ Consecutive(more, recvID) <=> Consecutive(wire, recvID) /\ Consecutive(front, recvID + w)
  BY <1>2, ConsecutiveConcat
<1> HIDE DEF more
<1>4. ASSUME Line(wire, buff, recvID, sendID) PROVE Line(more, rest, recvID, sendID)
  <2>1. Consecutive(wire, recvID) /\ Consecutive(buff, recvID + w) /\ sendID = (recvID + w) + b
    BY <1>4 DEF Line
  <2>2. recvID + w \in Nat
    BY <1>1
  <2>3. Consecutive(front, recvID + w) /\ Consecutive(rest, (recvID + w) + j)
    BY <1>2, <2>1, <2>2
  <2>4. (recvID + w) + j = recvID + Len(more) /\ sendID = recvID + Len(more) + Len(rest)
    <3> HIDE DEF w, b
    <3> QED BY <1>1, <1>2, <1>3, <2>1
  <2> QED BY <1>3, <2>1, <2>3, <2>4 DEF Line
<1> QED BY <1>2, <1>3, <1>4 DEF front, more, rest

\* The receiver takes k messages.
LEMMA LineTake ==
  ASSUME NEW wire \in Ids, NEW buff \in Ids, NEW recvID \in Nat, NEW sendID \in Nat,
         NEW k \in 0..Len(wire)
  PROVE  LET left == SubSeq(wire, k + 1, Len(wire))
         IN  /\ left \in Ids /\ Len(left) = Len(wire) - k
             /\ Line(wire, buff, recvID, sendID) => Line(left, buff, recvID + k, sendID)
<1> DEFINE w == Len(wire)
           b == Len(buff)
           left == SubSeq(wire, k + 1, Len(wire))
<1>1. w \in Nat /\ b \in Nat /\ k \in 0..w
  BY LenProperties DEF Ids
<1>2. /\ left \in Ids /\ Len(left) = w - k
      /\ \A from \in Nat : Consecutive(wire, from) => Consecutive(left, from + k)
  BY ConsecutiveSplit
<1> HIDE DEF left
<1>3. ASSUME Line(wire, buff, recvID, sendID) PROVE Line(left, buff, recvID + k, sendID)
  <2>1. Consecutive(wire, recvID) /\ Consecutive(buff, recvID + w) /\ sendID = (recvID + w) + b
    BY <1>3 DEF Line
  <2>2. Consecutive(left, recvID + k)
    BY <1>2, <2>1
  <2>3. recvID + w = (recvID + k) + Len(left) /\ sendID = (recvID + k) + Len(left) + b
    <3> HIDE DEF w, b
    <3> QED BY <1>1, <1>2, <2>1
  <2> QED BY <2>1, <2>2, <2>3 DEF Line
<1> QED BY <1>2, <1>3 DEF left

\* The receiver takes one message.
LEMMA LineTail ==
  ASSUME NEW wire \in Ids, NEW buff \in Ids, NEW recvID \in Nat, NEW sendID \in Nat, wire # <<>>
  PROVE  /\ Tail(wire) \in Ids /\ Len(Tail(wire)) = Len(wire) - 1
         /\ Line(wire, buff, recvID, sendID) => Line(Tail(wire), buff, recvID + 1, sendID)
<1> DEFINE w == Len(wire)
           b == Len(buff)
           left == Tail(wire)
<1>1. b \in Nat
  BY LenProperties DEF Ids
<1>2. /\ left \in Ids /\ Len(left) = w - 1 /\ w \in Nat \ {0}
      /\ \A from \in Nat : Consecutive(wire, from) => Consecutive(left, from + 1)
  BY ConsecutiveTail
<1> HIDE DEF left
<1>3. ASSUME Line(wire, buff, recvID, sendID) PROVE Line(left, buff, recvID + 1, sendID)
  <2>1. Consecutive(wire, recvID) /\ Consecutive(buff, recvID + w) /\ sendID = (recvID + w) + b
    BY <1>3 DEF Line
  <2>2. recvID + w = (recvID + 1) + Len(left) /\ sendID = (recvID + 1) + Len(left) + b
    <3> HIDE DEF w, b
    <3> QED BY <1>1, <1>2, <2>1
  <2> QED BY <1>2, <2>1, <2>2 DEF Line
<1> QED BY <1>2, <1>3 DEF left

\* One message goes from the buffer to the wire.
LEMMA LineForward ==
  ASSUME NEW wire \in Ids, NEW buff \in Ids, NEW recvID \in Nat, NEW sendID \in Nat, buff # <<>>,
         Line(wire, buff, recvID, sendID)
  PROVE  /\ Len(Append(wire, Head(buff))) = Len(wire) + 1 /\ Len(Tail(buff)) = Len(buff) - 1
         /\ Line(Append(wire, Head(buff)), Tail(buff), recvID, sendID)
<1> DEFINE w == Len(wire)
           b == Len(buff)
           first == Head(buff)
           rest == Tail(buff)
           more == Append(wire, first)
<1>1. w \in Nat
  BY LenProperties DEF Ids
<1>2. Consecutive(wire, recvID) /\ Consecutive(buff, recvID + w) /\ sendID = (recvID + w) + b
  BY DEF Line
<1>3. recvID + w \in Nat
  BY <1>1
<1>4. /\ rest \in Ids /\ Len(rest) = b - 1 /\ first \in Nat /\ b \in Nat \ {0}
      /\ first = recvID + w /\ Consecutive(rest, (recvID + w) + 1)
  BY <1>2, <1>3, ConsecutiveTail
<1> HIDE DEF first, rest
<1>5. Len(more) = w + 1 /\ Consecutive(more, recvID)
  BY <1>2, <1>4, ConsecutiveAppend
<1> HIDE DEF more
<1>6. (recvID + w) + 1 = recvID + Len(more) /\ sendID = recvID + Len(more) + Len(rest)
  <2> HIDE DEF w, b
  <2> QED BY <1>1, <1>2, <1>4, <1>5
<1>7. Line(more, rest, recvID, sendID)
  BY <1>4, <1>5, <1>6 DEF Line
<1> QED BY <1>4, <1>5, <1>7 DEF more, first, rest

\* The messages of a direction are one row.
LEMMA LineIsRow ==
  ASSUME NEW wire \in Ids, NEW buff \in Ids, NEW recvID \in Nat, NEW sendID \in Nat,
         Line(wire, buff, recvID, sendID)
  PROVE  Consecutive(wire \o buff, recvID) /\ sendID = recvID + Len(wire \o buff)
<1> DEFINE w == Len(wire)
           b == Len(buff)
           row == wire \o buff
<1>1. w \in Nat /\ b \in Nat
  BY LenProperties DEF Ids
<1>2. /\ Len(row) = w + b
      /\ Consecutive(row, recvID) <=> Consecutive(wire, recvID) /\ Consecutive(buff, recvID + w)
  BY ConsecutiveConcat
<1>3. Consecutive(wire, recvID) /\ Consecutive(buff, recvID + w) /\ sendID = (recvID + w) + b
  BY DEF Line
<1>4. sendID = recvID + Len(row)
  <2> HIDE DEF w, b, row
  <2> QED BY <1>1, <1>2, <1>3
<1> QED BY <1>2, <1>3, <1>4
-----------------------------------------------------------------------------
(* The loops of a thread.                                                  *)

LEMMA MineIs ==
  ASSUME SessionTypeOK, NEW t \in Threads
  PROVE  /\ Mine(t) \in Clients
         /\ \E n \in 1..nClient : Mine(t) = <<t, n>> /\ (pos[t] <= nClient => n = pos[t])
<1> DEFINE n == ((pos[t] - 1) % nClient) + 1
<1>1. pos[t] \in Nat \ {0} /\ pos[t] - 1 \in Nat /\ nClient \in Nat \ {0}
  BY Bounds DEF SessionTypeOK
<1>2. n \in 1..nClient
  <2>1. (pos[t] - 1) % nClient \in 0..(nClient - 1)
    BY <1>1, ModRange
  <2> QED BY <1>1, <2>1
<1>3. ASSUME pos[t] <= nClient PROVE n = pos[t]
  <2>1. pos[t] - 1 \in 0..(nClient - 1)
    BY <1>1, <1>3
  <2>2. (pos[t] - 1) % nClient = pos[t] - 1
    BY <1>1, <2>1, ModSmall
  <2> QED BY <1>1, <2>2
<1> HIDE DEF n
<1>4. Mine(t) = <<t, n>>
  BY DEF Mine, n
<1> QED BY <1>2, <1>3, <1>4 DEF Clients

\* Only thread t moves.
Moves(t) ==
  /\ pc' \in [Threads -> Places] /\ pos' \in [Threads -> Nat \ {0}]
  /\ \A u \in Threads : u # t => pc'[u] = pc[u] /\ pos'[u] = pos[u]

LEMMA GotoMoves ==
  ASSUME SessionTypeOK, NEW t \in Threads, NEW next \in Places, Goto(t, next)
  PROVE  Moves(t) /\ pc'[t] = next /\ pos'[t] = 1
BY DEF SessionTypeOK, Goto, Moves

LEMMA AdvanceMoves ==
  ASSUME SessionTypeOK, NEW t \in Threads, NEW n, NEW next \in Places, Advance(t, n, next)
  PROVE  /\ Moves(t)
         /\ \/ pos[t] < n /\ pc'[t] = pc[t] /\ pos'[t] = pos[t] + 1
            \/ pc'[t] = next /\ pos'[t] = 1
<1>1. CASE pos[t] < n
  BY <1>1 DEF SessionTypeOK, Advance, Moves
<1>2. CASE ~(pos[t] < n)
  BY <1>2 DEF SessionTypeOK, Advance, Moves
<1> QED BY <1>1, <1>2

\* No connection is made, and thread t goes on.
LEMMA LoopsKept ==
  ASSUME SessionInv, NEW t \in Threads, Moves(t),
         \A c \in Clients : net[c].link = "none" => net'[c].link = "none",
         pc'[t] \in {"create", "connect"} => pc[t] = "create" /\ pos'[t] <= nClient
  PROVE  \A u \in Threads : LoopInv(u)'
<1> SUFFICES ASSUME NEW u \in Threads PROVE LoopInv(u)'
  OBVIOUS
<1>1. LoopInv(u) /\ LoopInv(t) /\ \A n \in 1..nClient : <<u, n>> \in Clients
  BY DEF SessionInv, Clients
<1>2. CASE u # t
  BY <1>1, <1>2 DEF LoopInv, Moves
<1>3. CASE u = t
  BY <1>1, <1>3 DEF LoopInv
<1> QED BY <1>2, <1>3

LEMMA NoLoop ==
  ASSUME SessionInv, UNCHANGED <<pc, pos>>,
         \A c \in Clients : net[c].link = "none" => net'[c].link = "none"
  PROVE  \A u \in Threads : LoopInv(u)'
BY DEF SessionInv, LoopInv, Clients
-----------------------------------------------------------------------------
(* A connection.                                                           *)

\* Only connection c changes.
Only(c) ==
  \A d \in Clients : d # c => cli'[d] = cli[d] /\ srv'[d] = srv[d] /\ net'[d] = net[d]

LEMMA OnlyInv ==
  ASSUME SessionInv, NEW c \in Clients, Only(c), opt' = opt, ConnInv(c)'
  PROVE  \A d \in Clients : ConnInv(d)'
<1> SUFFICES ASSUME NEW d \in Clients, d # c PROVE ConnInv(d)'
  OBVIOUS
<1>1. cli'[d] = cli[d] /\ srv'[d] = srv[d] /\ net'[d] = net[d] /\ ConnInv(d)
  BY DEF Only, SessionInv
<1> QED BY <1>1 DEF ConnInv, Fresh, Stands, InStep, Answered

LEMMA ConnSame ==
  ASSUME NEW c \in Clients, ConnInv(c), opt' = opt, srv'[c] = srv[c], net'[c] = net[c],
         cli'[c].run = cli[c].run, cli'[c].sendBuff = cli[c].sendBuff, cli'[c].bSend = cli[c].bSend,
         cli'[c].sendID = cli[c].sendID, cli'[c].recvID = cli[c].recvID
  PROVE  ConnInv(c)'
<1>1. Fresh(c)' <=> Fresh(c)
  BY DEF Fresh
<1>2. Stands(c)' <=> Stands(c)
  BY DEF Stands
<1>3. InStep(c)' <=> InStep(c)
  BY DEF InStep, Line
<1>4. Answered(c)' <=> Answered(c)
  BY DEF Answered
<1> QED BY <1>1, <1>2, <1>3, <1>4 DEF ConnInv

LEMMA Fields ==
  ASSUME SessionTypeOK, NEW c \in Clients
  PROVE  /\ cli[c].sendBuff \in Ids /\ cli[c].sendID \in Nat /\ cli[c].recvID \in Nat
         /\ cli[c].run \in BOOLEAN /\ cli[c].bSend \in BOOLEAN
         /\ srv[c].sendBuff \in Ids /\ srv[c].sendID \in Nat /\ srv[c].recvID \in Nat
         /\ net[c].link \in {"none", "up", "broken"}
         /\ net[c].up \in Ids /\ net[c].down \in Ids
<1>1. cli[c] \in MyClients /\ srv[c] \in SrvClients /\ net[c] \in Connections
  BY DEF SessionTypeOK
<1> QED BY <1>1 DEF MyClients, SrvClients, Connections

LEMMA Lengths ==
  ASSUME SessionTypeOK, NEW c \in Clients
  PROVE  /\ Len(cli[c].sendBuff) \in Nat /\ Len(srv[c].sendBuff) \in Nat
         /\ Len(net[c].up) \in Nat /\ Len(net[c].down) \in Nat
BY Fields, LenProperties DEF Ids

\* A connection that stands is in step.
LEMMA Standing ==
  ASSUME SessionInv, NEW c \in Clients, cli[c].run, net[c].link = "up"
  PROVE  InStep(c) /\ Answered(c)
BY DEF SessionInv, ConnInv, Stands

\* A connection that does not stand after a step.
LEMMA NotStanding ==
  ASSUME NEW c, net'[c].link # "none", ~cli'[c].run \/ net'[c].link # "up"
  PROVE  ConnInv(c)'
BY DEF ConnInv, Stands

\* A client that runs has been connected.
LEMMA RunIsConnected ==
  ASSUME SessionInv, NEW c \in Clients, cli[c].run
  PROVE  net[c].link # "none"
BY DEF SessionInv, ConnInv, Fresh

\* The login that SendTest makes.
LEMMA SendInv ==
  ASSUME SessionInv, NEW c \in Clients, opt' = opt, cli[c].run, ~cli[c].bSend,
         srv'[c] = srv[c], net'[c] = net[c], cli'[c].run = cli[c].run,
         cli'[c].sendBuff = Append(cli[c].sendBuff, cli[c].sendID),
         cli'[c].bSend = opt.checkSendBack, cli'[c].sendID = cli[c].sendID + 1,
         cli'[c].recvID = cli[c].recvID
  PROVE  ConnInv(c)'
<1>1. SessionTypeOK /\ net[c].link # "none"
  BY RunIsConnected DEF SessionInv
<1>2. ASSUME net[c].link = "up" PROVE InStep(c)' /\ Answered(c)'
  <2>1. InStep(c) /\ Answered(c)
    BY <1>2, Standing
  <2>2. /\ Len(cli'[c].sendBuff) = Len(cli[c].sendBuff) + 1
        /\ Line(net[c].up, cli'[c].sendBuff, srv[c].recvID, cli[c].sendID + 1)
    <3> DEFINE w == net[c].up
               b == cli[c].sendBuff
               from == srv[c].recvID
               id == cli[c].sendID
    <3>1. w \in Ids /\ b \in Ids /\ from \in Nat /\ id \in Nat
      BY <1>1, Fields
    <3>2. Line(w, b, from, id)
      BY <2>1 DEF InStep
    <3>3. cli'[c].sendBuff = Append(b, id)
      OBVIOUS
    <3> HIDE DEF w, b, from, id
    <3>4. Len(Append(b, id)) = Len(b) + 1 /\ Line(w, Append(b, id), from, id + 1)
      BY <3>1, <3>2, LineSend
    <3> QED BY <3>3, <3>4 DEF w, b, from, id
  <2>3. InStep(c)'
    BY <2>1, <2>2 DEF InStep, Line
  <2>4. Answered(c)'
    <3>1. opt.checkSendBack /\ opt.sendBack =>
            Len(cli[c].sendBuff) + Len(net[c].up) + Len(srv[c].sendBuff) + Len(net[c].down) = 0
      BY <2>1 DEF Answered
    <3>2. opt.checkSendBack /\ opt.sendBack =>
            Len(cli'[c].sendBuff) + Len(net[c].up) + Len(srv[c].sendBuff) + Len(net[c].down) = 1
      <4> DEFINE b == Len(cli[c].sendBuff)
                 u == Len(net[c].up)
                 r == Len(srv[c].sendBuff)
                 d == Len(net[c].down)
      <4>1. b \in Nat /\ u \in Nat /\ r \in Nat /\ d \in Nat
        BY <1>1, Lengths
      <4>2. b + u + r + d = 0 => (b + 1) + u + r + d = 1
        <5> HIDE DEF b, u, r, d
        <5> QED BY <4>1
      <4> QED BY <2>2, <3>1, <4>2
    <3> QED BY <3>2 DEF Answered
  <2> QED BY <2>3, <2>4
<1> QED BY <1>1, <1>2 DEF ConnInv, Stands

\* The client takes k replies and gives j logins to the kernel.
LEMMA ExchangeInv ==
  ASSUME SessionInv, NEW c \in Clients, opt' = opt, cli[c].run,
         NEW k \in 0..Len(net[c].down), NEW j \in 0..Len(cli[c].sendBuff),
         srv'[c] = srv[c], net'[c].link = net[c].link,
         net'[c].down = SubSeq(net[c].down, k + 1, Len(net[c].down)),
         net'[c].up = net[c].up \o SubSeq(cli[c].sendBuff, 1, j),
         cli'[c].run = cli[c].run,
         cli'[c].sendBuff = SubSeq(cli[c].sendBuff, j + 1, Len(cli[c].sendBuff)),
         cli'[c].bSend = IF k = 0 THEN cli[c].bSend ELSE FALSE,
         cli'[c].sendID = cli[c].sendID, cli'[c].recvID = cli[c].recvID + k
  PROVE  ConnInv(c)'
<1>1. SessionTypeOK /\ net[c].link # "none"
  BY RunIsConnected DEF SessionInv
<1>2. ASSUME net[c].link = "up" PROVE InStep(c)' /\ Answered(c)'
  <2>1. InStep(c) /\ Answered(c)
    BY <1>2, Standing
  <2>2. /\ Len(net'[c].up) = Len(net[c].up) + j /\ Len(cli'[c].sendBuff) = Len(cli[c].sendBuff) - j
        /\ Line(net'[c].up, cli'[c].sendBuff, srv[c].recvID, cli[c].sendID)
    <3> DEFINE w == net[c].up
               b == cli[c].sendBuff
               from == srv[c].recvID
               id == cli[c].sendID
               more == w \o SubSeq(b, 1, j)
               rest == SubSeq(b, j + 1, Len(b))
    <3>1. w \in Ids /\ b \in Ids /\ from \in Nat /\ id \in Nat /\ j \in 0..Len(b)
      BY <1>1, Fields
    <3>2. Line(w, b, from, id)
      BY <2>1 DEF InStep
    <3>3. net'[c].up = more /\ cli'[c].sendBuff = rest
      OBVIOUS
    <3> HIDE DEF w, b, from, id
    <3>4. Len(more) = Len(w) + j /\ Len(rest) = Len(b) - j /\ Line(more, rest, from, id)
      BY <3>1, <3>2, LineMove
    <3> QED BY <3>3, <3>4 DEF w, b, from, id
  <2>3. /\ Len(net'[c].down) = Len(net[c].down) - k
        /\ Line(net'[c].down, srv[c].sendBuff, cli[c].recvID + k, srv[c].sendID)
    <3> DEFINE w == net[c].down
               b == srv[c].sendBuff
               from == cli[c].recvID
               id == srv[c].sendID
               left == SubSeq(w, k + 1, Len(w))
    <3>1. w \in Ids /\ b \in Ids /\ from \in Nat /\ id \in Nat /\ k \in 0..Len(w)
      BY <1>1, Fields
    <3>2. Line(w, b, from, id)
      BY <2>1 DEF InStep
    <3>3. net'[c].down = left
      OBVIOUS
    <3> HIDE DEF w, b, from, id
    <3>4. Len(left) = Len(w) - k /\ Line(left, b, from + k, id)
      BY <3>1, <3>2, LineTake
    <3> QED BY <3>3, <3>4 DEF w, b, from, id
  <2>4. InStep(c)'
    BY <2>2, <2>3 DEF InStep, Line
  <2>5. Answered(c)'
    <3> SUFFICES ASSUME opt.checkSendBack, opt.sendBack
                 PROVE  Len(cli'[c].sendBuff) + Len(net'[c].up) + Len(srv'[c].sendBuff)
                          + Len(net'[c].down) = IF cli'[c].bSend THEN 1 ELSE 0
      BY DEF Answered
    <3> DEFINE s == Len(cli[c].sendBuff)
               u == Len(net[c].up)
               r == Len(srv[c].sendBuff)
               d == Len(net[c].down)
    <3>1. s \in Nat /\ u \in Nat /\ r \in Nat /\ d \in Nat /\ j \in 0..s /\ k \in 0..d
      BY <1>1, Lengths
    <3>2. s + u + r + d = IF cli[c].bSend THEN 1 ELSE 0
      BY <2>1 DEF Answered
    <3>3. (s - j) + (u + j) + r + (d - k) = IF cli'[c].bSend THEN 1 ELSE 0
      <4> HIDE DEF s, u, r, d
      <4>1. CASE k = 0
        BY <3>1, <3>2, <4>1
      <4>2. CASE k # 0
        BY <3>1, <3>2, <4>2
      <4> QED BY <4>1, <4>2
    <3> QED BY <2>2, <2>3, <3>3
  <2> QED BY <2>4, <2>5
<1> QED BY <1>1, <1>2 DEF ConnInv, Stands

\* The server takes a login and answers it, or not.
LEMMA AnswerInv ==
  ASSUME SessionInv, NEW c \in Clients, OnNetMsg(c)
  PROVE  ConnInv(c)'
<1>1. SessionTypeOK /\ net[c].link = "up" /\ net[c].up # <<>> /\ opt' = opt /\ cli' = cli
  BY DEF SessionInv, OnNetMsg
<1>2. net'[c] = [net[c] EXCEPT !.up = Tail(@)]
  BY <1>1 DEF SessionTypeOK, OnNetMsg
<1>3. net[c] \in Connections /\ srv[c] \in SrvClients
  BY <1>1 DEF SessionTypeOK
<1>4. net'[c].link = "up" /\ net'[c].up = Tail(net[c].up) /\ net'[c].down = net[c].down
  BY <1>1, <1>2, <1>3 DEF Connections
<1> DEFINE replies == opt.sendBack /\ Len(srv[c].sendBuff) < SrvSendCap
<1>5. /\ srv'[c].recvID = srv[c].recvID + 1
      /\ replies => /\ srv'[c].sendID = srv[c].sendID + 1
                    /\ srv'[c].sendBuff = Append(srv[c].sendBuff, srv[c].sendID)
      /\ ~replies => srv'[c].sendID = srv[c].sendID /\ srv'[c].sendBuff = srv[c].sendBuff
  <2>1. srv'[c] = IF replies THEN [recvID |-> srv[c].recvID + 1, sendID |-> srv[c].sendID + 1,
                                   sendBuff |-> Append(srv[c].sendBuff, srv[c].sendID)]
                  ELSE [srv[c] EXCEPT !.recvID = @ + 1]
    BY <1>1 DEF SessionTypeOK, OnNetMsg
  <2> QED BY <1>3, <2>1 DEF SrvClients
<1> HIDE DEF replies
<1>6. ASSUME cli[c].run PROVE InStep(c)' /\ Answered(c)'
  <2>1. InStep(c) /\ Answered(c)
    BY <1>1, <1>6, Standing
  <2> DEFINE up == net[c].up
             down == net[c].down
             logins == cli[c].sendBuff
             answers == srv[c].sendBuff
             srvRecv == srv[c].recvID
             srvSend == srv[c].sendID
             cliRecv == cli[c].recvID
             cliSend == cli[c].sendID
  <2>2. /\ up \in Ids /\ down \in Ids /\ logins \in Ids /\ answers \in Ids
        /\ srvRecv \in Nat /\ srvSend \in Nat /\ cliRecv \in Nat /\ cliSend \in Nat
    BY <1>1, Fields
  <2>3. Line(up, logins, srvRecv, cliSend) /\ Line(down, answers, cliRecv, srvSend)
    BY <2>1 DEF InStep
  <2>4. Len(Tail(up)) = Len(up) - 1 /\ Line(Tail(up), logins, srvRecv + 1, cliSend)
    <3> HIDE DEF logins, srvRecv, cliSend
    <3> QED BY <1>1, <2>2, <2>3, LineTail
  <2>5. /\ Len(Append(answers, srvSend)) = Len(answers) + 1
        /\ Line(down, Append(answers, srvSend), cliRecv, srvSend + 1)
    <3> HIDE DEF down, answers, cliRecv, srvSend
    <3> QED BY <2>2, <2>3, LineSend
  <2>6. Line(net'[c].down, srv'[c].sendBuff, cliRecv, srv'[c].sendID)
    BY <1>4, <1>5, <2>3, <2>5
  <2>7. InStep(c)'
    BY <1>1, <1>4, <1>5, <2>4, <2>6 DEF InStep
  <2>8. Answered(c)'
    <3> SUFFICES ASSUME opt.checkSendBack, opt.sendBack
                 PROVE  Len(logins) + Len(net'[c].up) + Len(srv'[c].sendBuff) + Len(net'[c].down)
                          = IF cli[c].bSend THEN 1 ELSE 0
      BY <1>1 DEF Answered
    <3> DEFINE u == Len(up)
               d == Len(down)
               s == Len(logins)
               r == Len(answers)
    <3>1. u \in Nat \ {0} /\ d \in Nat /\ s \in Nat /\ r \in Nat /\ SrvSendCap \in Nat \ {0}
      BY <1>1, <2>2, Lengths, ConsecutiveTail, Bounds
    <3>2. s + u + r + d = IF cli[c].bSend THEN 1 ELSE 0
      BY <2>1 DEF Answered
    <3>3. r < SrvSendCap /\ s + (u - 1) + (r + 1) + d = IF cli[c].bSend THEN 1 ELSE 0
      <4> HIDE DEF s, u, r, d
      <4> QED BY <3>1, <3>2
    <3>4. replies
      BY <3>3 DEF replies
    <3> QED BY <1>4, <1>5, <2>4, <2>5, <3>3, <3>4
  <2> QED BY <2>7, <2>8
<1> QED BY <1>1, <1>4, <1>6 DEF ConnInv, Stands

\* A reply goes to the kernel.
LEMMA ReplyInv ==
  ASSUME SessionInv, NEW c \in Clients, SendDataReal(c)
  PROVE  ConnInv(c)'
<1>1. SessionTypeOK /\ net[c].link = "up" /\ srv[c].sendBuff # <<>> /\ opt' = opt /\ cli' = cli
  BY DEF SessionInv, SendDataReal
<1>2. /\ net'[c] = [net[c] EXCEPT !.down = Append(@, Head(srv[c].sendBuff))]
      /\ srv'[c] = [srv[c] EXCEPT !.sendBuff = Tail(@)]
  BY <1>1 DEF SessionTypeOK, SendDataReal
<1>3. net[c] \in Connections /\ srv[c] \in SrvClients
  BY <1>1 DEF SessionTypeOK
<1>4. /\ net'[c].link = "up" /\ net'[c].up = net[c].up
      /\ net'[c].down = Append(net[c].down, Head(srv[c].sendBuff))
      /\ srv'[c].recvID = srv[c].recvID /\ srv'[c].sendID = srv[c].sendID
      /\ srv'[c].sendBuff = Tail(srv[c].sendBuff)
  BY <1>1, <1>2, <1>3 DEF Connections, SrvClients
<1>5. ASSUME cli[c].run PROVE InStep(c)' /\ Answered(c)'
  <2>1. InStep(c) /\ Answered(c)
    BY <1>1, <1>5, Standing
  <2> DEFINE down == net[c].down
             answers == srv[c].sendBuff
             cliRecv == cli[c].recvID
             srvSend == srv[c].sendID
  <2>2. down \in Ids /\ answers \in Ids /\ cliRecv \in Nat /\ srvSend \in Nat
    BY <1>1, Fields
  <2>3. Line(down, answers, cliRecv, srvSend)
    BY <2>1 DEF InStep
  <2>4. /\ Len(net'[c].down) = Len(down) + 1 /\ Len(srv'[c].sendBuff) = Len(answers) - 1
        /\ Line(net'[c].down, srv'[c].sendBuff, cliRecv, srvSend)
    <3>1. /\ Len(Append(down, Head(answers))) = Len(down) + 1
          /\ Len(Tail(answers)) = Len(answers) - 1
          /\ Line(Append(down, Head(answers)), Tail(answers), cliRecv, srvSend)
      <4> HIDE DEF down, cliRecv, srvSend
      <4> QED BY <1>1, <2>2, <2>3, LineForward
    <3> QED BY <1>4, <3>1
  <2>5. InStep(c)'
    BY <1>1, <1>4, <2>1, <2>4 DEF InStep
  <2>6. Answered(c)'
    <3> DEFINE u == Len(net[c].up)
               d == Len(down)
               s == Len(cli[c].sendBuff)
               r == Len(answers)
    <3>1. u \in Nat /\ d \in Nat /\ s \in Nat /\ r \in Nat
      BY <1>1, Lengths
    <3>2. s + u + (r - 1) + (d + 1) = s + u + r + d
      <4> HIDE DEF s, u, r, d
      <4> QED BY <3>1
    <3> QED BY <1>1, <1>4, <2>1, <2>4, <3>2 DEF Answered
  <2> QED BY <2>5, <2>6
<1> QED BY <1>1, <1>4, <1>5 DEF ConnInv, Stands
-----------------------------------------------------------------------------
(* The steps of the server and of the connections.                         *)

LEMMA Together ==
  ASSUME SessionInv, SessionTypeOK', NEW c \in Clients, Only(c), opt' = opt, ConnInv(c)',
         \A u \in Threads : LoopInv(u)'
  PROVE  SessionInv'
BY OnlyInv DEF SessionInv

LEMMA ServerInv ==
  ASSUME SessionInv, NEW c \in Clients, Server(c)
  PROVE  SessionInv'
<1>1. /\ SessionTypeOK /\ net[c].link = "up"
      /\ net[c].up \in Ids /\ net[c].down \in Ids /\ net[c] \in Connections
      /\ srv[c].sendBuff \in Ids /\ srv[c] \in SrvClients
  BY Fields DEF SessionInv, SessionTypeOK, Server, OnNetMsg, SendDataReal
<1>2. SessionTypeOK' /\ Only(c) /\ UNCHANGED <<opt, pc, pos>> /\ net'[c].link = "up"
  <2>1. CASE OnNetMsg(c)
    <3>1. Tail(net[c].up) \in Ids /\ net[c].up # <<>>
      BY <1>1, <2>1, ConsecutiveTail DEF OnNetMsg
    <3>2. [net[c] EXCEPT !.up = Tail(@)] \in Connections
      BY <1>1, <3>1 DEF Connections
    <3>3. Append(srv[c].sendBuff, srv[c].sendID) \in Ids
      BY <1>1, AppendProperties DEF Ids, SrvClients
    <3>4. net' = [net EXCEPT ![c] = [net[c] EXCEPT !.up = Tail(@)]]
      BY <2>1 DEF OnNetMsg
    <3>5. net' \in [Clients -> Connections] /\ net'[c].link = "up"
      BY <1>1, <3>2, <3>4 DEF SessionTypeOK, Connections
    <3>6. srv' \in [Clients -> SrvClients]
      <4> DEFINE new == IF opt.sendBack /\ Len(srv[c].sendBuff) < SrvSendCap
                        THEN [recvID |-> srv[c].recvID + 1, sendID |-> srv[c].sendID + 1,
                              sendBuff |-> Append(srv[c].sendBuff, srv[c].sendID)]
                        ELSE [srv[c] EXCEPT !.recvID = @ + 1]
      <4>1. new \in SrvClients
        BY <1>1, <3>3 DEF SrvClients
      <4>2. srv' = [srv EXCEPT ![c] = new]
        BY <2>1 DEF OnNetMsg
      <4> QED BY <1>1, <4>1, <4>2 DEF SessionTypeOK
    <3> QED BY <1>1, <2>1, <3>5, <3>6 DEF SessionTypeOK, OnNetMsg, Only
  <2>2. CASE SendDataReal(c)
    <3>1. Tail(srv[c].sendBuff) \in Ids /\ Head(srv[c].sendBuff) \in Nat
      BY <1>1, <2>2, ConsecutiveTail DEF SendDataReal
    <3>2. Append(net[c].down, Head(srv[c].sendBuff)) \in Ids
      BY <1>1, <3>1, AppendProperties DEF Ids
    <3>3. /\ [net[c] EXCEPT !.down = Append(@, Head(srv[c].sendBuff))] \in Connections
          /\ [srv[c] EXCEPT !.sendBuff = Tail(@)] \in SrvClients
      BY <1>1, <3>1, <3>2 DEF Connections, SrvClients
    <3>4. /\ net' = [net EXCEPT ![c] = [net[c] EXCEPT !.down = Append(@, Head(srv[c].sendBuff))]]
          /\ srv' = [srv EXCEPT ![c] = [srv[c] EXCEPT !.sendBuff = Tail(@)]]
      BY <2>2 DEF SendDataReal
    <3>5. /\ net' \in [Clients -> Connections] /\ net'[c].link = "up"
          /\ srv' \in [Clients -> SrvClients]
      BY <1>1, <3>3, <3>4 DEF SessionTypeOK, Connections
    <3> QED BY <1>1, <2>2, <3>5 DEF SessionTypeOK, SendDataReal, Only
  <2> QED BY <2>1, <2>2 DEF Server
<1>3. ConnInv(c)'
  BY AnswerInv, ReplyInv DEF Server
<1>4. \A u \in Threads : LoopInv(u)'
  BY <1>1, <1>2, NoLoop DEF Only
<1> QED BY <1>2, <1>3, <1>4, Together

LEMMA BreakInv ==
  ASSUME SessionInv, NEW c \in Clients, Break(c)
  PROVE  SessionInv'
<1>1. SessionTypeOK /\ net[c].link = "up" /\ net[c].down \in Ids /\ <<>> \in Ids
  BY Fields, EmptySeq DEF SessionInv, Break, Ids
<1>2. PICK down \in {net[c].down, <<>>} :
        net' = [net EXCEPT ![c] = [link |-> "broken", up |-> <<>>, down |-> down]]
  BY DEF Break
<1>3. SessionTypeOK' /\ Only(c) /\ UNCHANGED <<opt, pc, pos>> /\ net'[c].link = "broken"
  <2>1. [link |-> "broken", up |-> <<>>, down |-> down] \in Connections
    BY <1>1 DEF Connections
  <2>2. net' \in [Clients -> Connections] /\ net'[c].link = "broken"
    BY <1>1, <1>2, <2>1 DEF SessionTypeOK
  <2> QED BY <1>1, <1>2, <2>2 DEF SessionTypeOK, Break, Only
<1>4. ConnInv(c)'
  BY <1>3, NotStanding
<1>5. \A u \in Threads : LoopInv(u)'
  BY <1>1, <1>3, NoLoop DEF Only
<1> QED BY <1>3, <1>4, <1>5, Together
-----------------------------------------------------------------------------
(* The steps of the threads.                                               *)

\* Nothing of a connection changes, and thread t goes on.
LEMMA QuietInv ==
  ASSUME SessionInv, NEW t \in Threads, Moves(t), UNCHANGED <<opt, cli, srv, net>>,
         pc'[t] \notin {"create", "connect"}
  PROVE  SessionInv'
<1>1. SessionTypeOK'
  BY DEF SessionInv, SessionTypeOK, Moves
<1>2. \A c \in Clients : ConnInv(c)'
  BY ConnSame DEF SessionInv
<1>3. \A u \in Threads : LoopInv(u)'
  BY LoopsKept
<1> QED BY <1>1, <1>2, <1>3 DEF SessionInv

LEMMA QuietSteps ==
  ASSUME SessionInv, NEW t \in Threads, Ready(t) \/ WaitOthers(t) \/ LoopTop(t) \/ Exit(t)
  PROVE  SessionInv'
<1>1. PICK next \in {"wait", "loop", "send", "close", "done"} :
        Goto(t, next) /\ UNCHANGED <<opt, cli, srv, net>>
  BY DEF Ready, WaitOthers, LoopTop, Exit
<1>2. next \in Places
  BY DEF Places
<1>3. Moves(t) /\ pc'[t] = next
  BY <1>1, <1>2, GotoMoves DEF SessionInv
<1> QED BY <1>1, <1>3, QuietInv

LEMMA MainInv ==
  ASSUME SessionInv, UNCHANGED <<opt, pc, pos, cli, srv, net>>
  PROVE  SessionInv'
<1>1. SessionTypeOK'
  BY DEF SessionInv, SessionTypeOK
<1>2. \A c \in Clients : ConnInv(c)'
  BY ConnSame DEF SessionInv
<1>3. \A u \in Threads : LoopInv(u)'
  BY NoLoop
<1> QED BY <1>1, <1>2, <1>3 DEF SessionInv

LEMMA CreateInv ==
  ASSUME SessionInv, NEW t \in Threads, Create(t)
  PROVE  SessionInv'
<1>0. PICK c \in Clients : c = Mine(t)
  BY MineIs DEF SessionInv
<1>1. SessionTypeOK /\ cli[c] \in MyClients /\ nClient \in Nat \ {0}
  BY Bounds DEF SessionInv, SessionTypeOK
<1>2. pc[t] = "create" /\ opt' = opt /\ srv' = srv /\ net' = net
  BY DEF Create
<1>3. Moves(t) /\ (pc'[t] \in {"create", "connect"} => pos'[t] <= nClient)
  <2>1. "connect" \in Places
    BY DEF Places
  <2>2. CASE Advance(t, nClient, "connect")
    <3>1. Moves(t) /\ \/ pos[t] < nClient /\ pos'[t] = pos[t] + 1
                      \/ pos'[t] = 1
      BY <1>1, <2>1, <2>2, AdvanceMoves
    <3>2. pos[t] \in Nat
      BY <1>1 DEF SessionTypeOK
    <3> QED BY <1>1, <3>1, <3>2
  <2>3. CASE Goto(t, "connect")
    BY <1>1, <2>1, <2>3, GotoMoves
  <2> QED BY <2>2, <2>3 DEF Create
<1>4. cli' = cli \/ cli' = [cli EXCEPT ![c] = [cli[c] EXCEPT !.made = TRUE]]
  BY <1>0 DEF Create
<1>5. cli' \in [Clients -> MyClients]
  <2>1. [cli[c] EXCEPT !.made = TRUE] \in MyClients
    BY <1>1 DEF MyClients
  <2> QED BY <1>1, <1>4, <2>1 DEF SessionTypeOK
<1>6. SessionTypeOK' /\ Only(c)
  BY <1>1, <1>2, <1>3, <1>4, <1>5 DEF SessionTypeOK, Moves, Only
<1>7. ConnInv(c)'
  <2>1. /\ cli'[c].run = cli[c].run /\ cli'[c].sendBuff = cli[c].sendBuff
        /\ cli'[c].bSend = cli[c].bSend /\ cli'[c].sendID = cli[c].sendID
        /\ cli'[c].recvID = cli[c].recvID
    <3>1. cli'[c] = cli[c] \/ cli'[c] = [cli[c] EXCEPT !.made = TRUE]
      BY <1>1, <1>4 DEF SessionTypeOK
    <3> QED BY <1>1, <3>1 DEF MyClients
  <2>2. ConnInv(c) /\ opt' = opt /\ srv'[c] = srv[c] /\ net'[c] = net[c]
    BY <1>1, <1>2 DEF SessionInv
  <2> QED BY <1>1, <2>1, <2>2, ConnSame
<1>8. \A u \in Threads : LoopInv(u)'
  <2>1. \A d \in Clients : net[d].link = "none" => net'[d].link = "none"
    BY <1>2
  <2>2. pc'[t] \in {"create", "connect"} => pc[t] = "create" /\ pos'[t] <= nClient
    BY <1>2, <1>3
  <2> QED BY <1>3, <2>1, <2>2, LoopsKept
<1> QED BY <1>1, <1>2, <1>6, <1>7, <1>8, Together

\* A client is connected: nothing is under way.
LEMMA ConnectInv ==
  ASSUME SessionInv, NEW t \in Threads, Connect(t)
  PROVE  SessionInv'
<1>0. PICK c \in Clients : c = Mine(t)
  BY MineIs DEF SessionInv
<1>1. /\ SessionTypeOK /\ cli[c] \in MyClients /\ net[c] \in Connections
      /\ pos[t] \in Nat /\ nClient \in Nat \ {0} /\ "connected" \in Places
  BY Bounds DEF SessionInv, SessionTypeOK, Places
<1>2. pc[t] = "connect" /\ pos[t] <= nClient /\ opt' = opt /\ srv' = srv
  BY DEF Connect, SessionInv, LoopInv
<1>3. c = <<t, pos[t]>> /\ pos[t] \in 1..nClient
  BY <1>0, <1>1, <1>2, MineIs
<1>4. CASE Goto(t, "connected") /\ UNCHANGED <<cli, net>>
  <2>1. Moves(t) /\ pc'[t] = "connected"
    BY <1>1, <1>4, GotoMoves
  <2> QED BY <1>2, <1>4, <2>1, QuietInv
<1>5. CASE /\ cli' = [cli EXCEPT ![c].run = TRUE]
           /\ net' = [net EXCEPT ![c].link = "up"]
           /\ Advance(t, nClient, "connected")
  <2>1. /\ Moves(t)
        /\ \/ pos[t] < nClient /\ pc'[t] = pc[t] /\ pos'[t] = pos[t] + 1
           \/ pc'[t] = "connected" /\ pos'[t] = 1
    BY <1>1, <1>5, AdvanceMoves
  <2>2. Fresh(c)
    BY <1>1, <1>2, <1>3 DEF SessionInv, LoopInv, ConnInv
  <2>3. /\ cli'[c] = [cli[c] EXCEPT !.run = TRUE] /\ net'[c] = [net[c] EXCEPT !.link = "up"]
        /\ Only(c)
    BY <1>1, <1>2, <1>5 DEF SessionTypeOK, Only
  <2>4. cli'[c] \in MyClients /\ net'[c] \in Connections
    BY <1>1, <2>3 DEF MyClients, Connections
  <2>5. SessionTypeOK'
    <3>1. cli' \in [Clients -> MyClients] /\ net' \in [Clients -> Connections]
      BY <1>1, <1>5, <2>3, <2>4 DEF SessionTypeOK
    <3> QED BY <1>1, <1>2, <2>1, <3>1 DEF SessionTypeOK, Moves
  <2>6. ConnInv(c)'
    <3>1. /\ cli'[c].sendBuff = <<>> /\ srv'[c].sendBuff = <<>>
          /\ net'[c].up = <<>> /\ net'[c].down = <<>> /\ net'[c].link = "up"
          /\ cli'[c].sendID = 1 /\ cli'[c].recvID = 1 /\ srv'[c].sendID = 1 /\ srv'[c].recvID = 1
          /\ ~cli'[c].bSend
      BY <1>1, <1>2, <2>2, <2>3 DEF Fresh, MyClients, Connections
    <3>2. InStep(c)'
      <4>1. Line(<<>>, <<>>, 1, 1)
        BY LineEmpty
      <4> QED BY <3>1, <4>1 DEF InStep
    <3>3. Answered(c)'
      <4>1. Len(<<>>) = 0
        OBVIOUS
      <4> QED BY <3>1, <4>1 DEF Answered
    <3> QED BY <3>1, <3>2, <3>3 DEF ConnInv
  <2>7. ASSUME NEW u \in Threads PROVE LoopInv(u)'
    <3>1. LoopInv(u) /\ \A n \in 1..nClient : <<u, n>> \in Clients
      BY DEF SessionInv, Clients
    <3>2. \A d \in Clients : d # c => net'[d] = net[d]
      BY <2>3 DEF Only
    <3>3. CASE u # t
      <4>1. pc'[u] = pc[u] /\ pos'[u] = pos[u]
        BY <2>1, <3>3 DEF Moves
      <4>2. \A n \in 1..nClient : <<u, n>> # c
        BY <1>3, <3>3
      <4> QED BY <3>1, <3>2, <4>1, <4>2 DEF LoopInv
    <3>4. CASE u = t
      <4>1. CASE pc'[t] = pc[t] /\ pos[t] < nClient /\ pos'[t] = pos[t] + 1
        <5>1. pos'[t] <= nClient /\ \A n \in 1..nClient : n >= pos'[t] => n >= pos[t] /\ n # pos[t]
          BY <1>1, <4>1
        <5>2. ASSUME NEW n \in 1..nClient, n >= pos'[t] PROVE net'[<<t, n>>].link = "none"
          <6>1. <<t, n>> # c /\ n >= pos[t]
            BY <1>3, <5>1, <5>2
          <6>2. net[<<t, n>>].link = "none"
            BY <1>2, <3>1, <3>4, <6>1 DEF LoopInv
          <6> QED BY <3>1, <3>2, <3>4, <6>1, <6>2
        <5> QED BY <1>2, <3>4, <4>1, <5>1, <5>2 DEF LoopInv
      <4>2. CASE pc'[t] = "connected"
        BY <3>4, <4>2 DEF LoopInv
      <4> QED BY <2>1, <4>1, <4>2
    <3> QED BY <3>3, <3>4
  <2> QED BY <1>1, <1>2, <2>3, <2>5, <2>6, <2>7, Together
<1> QED BY <1>0, <1>4, <1>5 DEF Connect

\* The state of one client changes and no connection is made.
LEMMA ThreadStep ==
  ASSUME SessionInv, NEW t \in Threads, NEW c \in Clients, Moves(t),
         pc[t] \in {"send", "run", "close"}, pc'[t] \notin {"create", "connect"},
         UNCHANGED <<opt, srv>>,
         NEW me \in MyClients, cli' = [cli EXCEPT ![c] = me],
         NEW n \in Connections, net' = [net EXCEPT ![c] = n],
         net[c].link = "none" => n.link = "none",
         ConnInv(c)'
  PROVE  SessionInv'
<1>1. SessionTypeOK
  BY DEF SessionInv
<1>2. SessionTypeOK' /\ Only(c) /\ net'[c] = n
  BY <1>1 DEF SessionTypeOK, Moves, Only
<1>3. \A u \in Threads : LoopInv(u)'
  <2>1. \A d \in Clients : net[d].link = "none" => net'[d].link = "none"
    BY <1>2 DEF Only
  <2> QED BY <2>1, LoopsKept
<1> QED BY <1>2, <1>3, Together

LEMMA SendTestInv ==
  ASSUME SessionInv, NEW t \in Threads, SendTest(t)
  PROVE  SessionInv'
<1>0. PICK c \in Clients : c = Mine(t)
  BY MineIs DEF SessionInv
<1> DEFINE me == cli[c]
           sends == /\ me.run /\ me.sendCount > 0 /\ ~me.bSend
                    /\ Len(me.sendBuff) < CliSendCap
                    /\ me.sendID <= MaxLogins
           next == [me EXCEPT !.sendBuff = Append(@, me.sendID), !.bSend = opt.checkSendBack,
                              !.sendID = @ + 1, !.sendCount = @ - 1]
<1>1. /\ SessionTypeOK /\ me \in MyClients /\ net[c] \in Connections
      /\ "run" \in Places
  BY DEF SessionInv, SessionTypeOK, Places
<1>2. /\ pc[t] = "send" /\ opt' = opt /\ srv' = srv /\ net' = net
      /\ Advance(t, nMsg * nClient, "run")
      /\ cli' = IF sends THEN [cli EXCEPT ![c].sendBuff = Append(@, me.sendID),
                                          ![c].bSend = opt.checkSendBack,
                                          ![c].sendID = @ + 1,
                                          ![c].sendCount = @ - 1]
                ELSE cli
  BY <1>0 DEF SendTest
<1>3. Moves(t) /\ pc'[t] \notin {"create", "connect"}
  BY <1>1, <1>2, AdvanceMoves
<1>4. CASE sends
  <2>1. cli' = [cli EXCEPT ![c] = next]
    BY <1>1, <1>2, <1>4 DEF SessionTypeOK
  <2>2. Append(me.sendBuff, me.sendID) \in Ids /\ opt.checkSendBack \in BOOLEAN
    BY <1>1, AppendProperties, OptionsOK DEF Ids, MyClients, SessionTypeOK
  <2>3. next \in MyClients
    <3> HIDE DEF me
    <3>1. me.sendID + 1 \in Nat /\ me.sendCount - 1 \in Nat
      BY <1>1, <1>4 DEF MyClients
    <3> QED BY <1>1, <2>2, <3>1 DEF MyClients
  <2>4. cli'[c] = next /\ srv'[c] = srv[c] /\ net'[c] = net[c]
    BY <1>1, <1>2, <2>1 DEF SessionTypeOK
  <2>5. ConnInv(c)'
    <3>1. /\ next.run = me.run /\ next.sendBuff = Append(me.sendBuff, me.sendID)
          /\ next.bSend = opt.checkSendBack /\ next.sendID = me.sendID + 1
          /\ next.recvID = me.recvID
      BY <1>1 DEF MyClients
    <3> HIDE DEF next
    <3> QED BY <1>1, <1>2, <1>4, <2>4, <3>1, SendInv
  <2>6. net' = [net EXCEPT ![c] = net[c]]
    BY <1>1, <1>2 DEF SessionTypeOK
  <2> HIDE DEF next
  <2> QED BY <1>1, <1>2, <1>3, <2>1, <2>3, <2>5, <2>6, ThreadStep
<1>5. CASE ~sends
  BY <1>2, <1>3, <1>5, QuietInv
<1> QED BY <1>4, <1>5

\* What TakeReplies, checkSend and Close make of a client.
Polled(me, k, next) ==
  /\ next \in MyClients
  /\ next.run = me.run /\ next.sendBuff = me.sendBuff
  /\ next.bSend = (IF k = 0 THEN me.bSend ELSE FALSE)
  /\ next.sendID = me.sendID /\ next.recvID = me.recvID + k

LEMMA TookIs == \A me \in MyClients, k \in Nat : Polled(me, k, TakeReplies(me, k))
<1> SUFFICES ASSUME NEW me \in MyClients, NEW k \in Nat PROVE Polled(me, k, TakeReplies(me, k))
  OBVIOUS
<1>1. CASE k = 0
  BY <1>1 DEF TakeReplies, MyClients, Polled
<1>2. CASE k # 0
  <2> DEFINE took == [me EXCEPT !.bSend = FALSE, !.recvID = @ + k]
  <2>1. TakeReplies(me, k) = took
    BY <1>2 DEF TakeReplies
  <2>2. me.recvID + k \in Nat
    BY DEF MyClients
  <2>3. took \in MyClients
    BY <2>2 DEF MyClients
  <2>4. /\ took.run = me.run /\ took.sendBuff = me.sendBuff /\ took.sendID = me.sendID
        /\ took.recvID = me.recvID + k /\ took.bSend = FALSE
    BY DEF MyClients
  <2> HIDE DEF took
  <2>5. Polled(me, k, took)
    BY <1>2, <2>3, <2>4 DEF Polled
  <2> QED BY <2>1, <2>5
<1> QED BY <1>1, <1>2

LEMMA ClosedIs ==
  ASSUME NEW me \in MyClients
  PROVE  /\ Closed(me) \in MyClients /\ ~Closed(me).run
         /\ Closed(me).sendBuff = <<>> /\ Closed(me).bSend = me.bSend
         /\ Closed(me).sendID = me.sendID /\ Closed(me).recvID = me.recvID
<1>1. <<>> \in Ids
  BY EmptySeq DEF Ids
<1> QED BY <1>1 DEF Closed, MyClients

LEMMA CheckedIs ==
  ASSUME NEW me \in MyClients, NEW next \in CheckSend(me)
  PROVE  /\ next \in MyClients
         /\ next.run = me.run /\ next.sendBuff = me.sendBuff /\ next.bSend = me.bSend
         /\ next.sendID = me.sendID /\ next.recvID = me.recvID
BY Bounds DEF CheckSend, MyClients

LEMMA PolledIs ==
  \A me \in MyClients, k \in Nat : \A next \in CheckSend(TakeReplies(me, k)) : Polled(me, k, next)
<1> SUFFICES ASSUME NEW me \in MyClients, NEW k \in Nat, NEW next \in CheckSend(TakeReplies(me, k))
             PROVE  Polled(me, k, next)
  OBVIOUS
<1> DEFINE took == TakeReplies(me, k)
<1>1. Polled(me, k, took)
  BY TookIs
<1>2. next \in CheckSend(took)
  OBVIOUS
<1> HIDE DEF took
<1>3. took \in MyClients
  BY <1>1 DEF Polled
<1>4. /\ next \in MyClients
      /\ next.run = took.run /\ next.sendBuff = took.sendBuff /\ next.bSend = took.bSend
      /\ next.sendID = took.sendID /\ next.recvID = took.recvID
  BY <1>2, <1>3, CheckedIs
<1> QED BY <1>1, <1>4 DEF Polled

\* The client of the thread is polled and found well.
LEMMA ExchangeStep ==
  ASSUME SessionInv, NEW t \in Threads, NEW c \in Clients, Moves(t), pc[t] = "run",
         pc'[t] \notin {"create", "connect"}, opt' = opt, srv' = srv, cli[c].run, Exchange(c)
  PROVE  SessionInv'
<1> DEFINE me == cli[c]
           down == net[c].down
           up == net[c].up
<1>1. /\ SessionTypeOK /\ me \in MyClients /\ net[c] \in Connections
      /\ down \in Ids /\ up \in Ids /\ me.sendBuff \in Ids
      /\ Len(down) \in Nat /\ Len(me.sendBuff) \in Nat /\ Len(up) \in Nat
  BY Fields, Lengths DEF SessionInv, SessionTypeOK
<1>2. PICK k \in 0..Len(down), j \in 0..Len(me.sendBuff) :
        /\ \E next \in CheckSend(TakeReplies(me, k)) :
             cli' = [cli EXCEPT ![c] = [next EXCEPT !.sendBuff = SubSeq(@, j + 1, Len(@))]]
        /\ net' = [net EXCEPT ![c].down = SubSeq(@, k + 1, Len(@)),
                              ![c].up = @ \o SubSeq(me.sendBuff, 1, j)]
  <2>1. (IF down # <<>> THEN 1..Len(down) ELSE {0}) \subseteq 0..Len(down)
    BY <1>1
  <2>2. (IF me.sendBuff # <<>> /\ Len(up) < WireCap THEN 1..(WireCap - Len(up)) ELSE {0})
          \subseteq Nat
    BY <1>1, Bounds
  <2>3. \A j \in Nat : j <= Len(me.sendBuff) => j \in 0..Len(me.sendBuff)
    BY <1>1
  <2>4. PICK k \in IF down # <<>> THEN 1..Len(down) ELSE {0},
             j \in IF me.sendBuff # <<>> /\ Len(up) < WireCap THEN 1..(WireCap - Len(up)) ELSE {0} :
          /\ j <= Len(me.sendBuff)
          /\ \E next \in CheckSend(TakeReplies(me, k)) :
               cli' = [cli EXCEPT ![c] = [next EXCEPT !.sendBuff = SubSeq(@, j + 1, Len(@))]]
          /\ net' = [net EXCEPT ![c].down = SubSeq(@, k + 1, Len(@)),
                                ![c].up = @ \o SubSeq(me.sendBuff, 1, j)]
    BY DEF Exchange
  <2>5. k \in 0..Len(down) /\ j \in 0..Len(me.sendBuff)
    BY <2>1, <2>2, <2>3, <2>4
  <2> QED BY <2>4, <2>5
<1>3. k \in 0..Len(down) /\ j \in 0..Len(me.sendBuff)
  OBVIOUS
<1>4. PICK next \in CheckSend(TakeReplies(me, k)) :
        cli' = [cli EXCEPT ![c] = [next EXCEPT !.sendBuff = SubSeq(@, j + 1, Len(@))]]
  BY <1>2
<1>5. /\ next \in MyClients
      /\ next.run = me.run /\ next.sendBuff = me.sendBuff
      /\ next.bSend = (IF k = 0 THEN me.bSend ELSE FALSE)
      /\ next.sendID = me.sendID /\ next.recvID = me.recvID + k
  <2>1. k \in Nat
    BY <1>1, <1>3
  <2>2. me \in MyClients /\ next \in CheckSend(TakeReplies(me, k))
    BY <1>1, <1>4
  <2>3. Polled(me, k, next)
    BY <2>1, <2>2, PolledIs
  <2> QED BY <2>3 DEF Polled
<1> DEFINE rest == SubSeq(me.sendBuff, j + 1, Len(me.sendBuff))
           left == SubSeq(down, k + 1, Len(down))
           more == up \o SubSeq(me.sendBuff, 1, j)
           new == [next EXCEPT !.sendBuff = rest]
           n == [net[c] EXCEPT !.down = left, !.up = more]
<1>6. rest \in Ids /\ left \in Ids /\ more \in Ids
  BY <1>1, <1>3, ConsecutiveSplit, ConsecutiveConcat
<1>7. cli' = [cli EXCEPT ![c] = new] /\ net' = [net EXCEPT ![c] = n]
  BY <1>1, <1>2, <1>4, <1>5 DEF SessionTypeOK
<1>8. new \in MyClients /\ n \in Connections /\ n.link = net[c].link
  BY <1>1, <1>5, <1>6 DEF MyClients, Connections
<1>9. ConnInv(c)'
  <2>1. cli'[c] = new /\ net'[c] = n
    BY <1>1, <1>7 DEF SessionTypeOK
  <2>2. /\ cli'[c].run = me.run /\ cli'[c].sendBuff = rest /\ cli'[c].sendID = me.sendID
        /\ cli'[c].bSend = (IF k = 0 THEN me.bSend ELSE FALSE)
        /\ cli'[c].recvID = me.recvID + k
    BY <1>5, <2>1 DEF MyClients
  <2>3. net'[c].link = net[c].link /\ net'[c].down = left /\ net'[c].up = more
    BY <1>1, <2>1 DEF Connections
  <2>4. srv'[c] = srv[c]
    OBVIOUS
  <2> QED BY <1>3, <2>2, <2>3, <2>4, ExchangeInv
<1> HIDE DEF new, n
<1> QED BY <1>7, <1>8, <1>9, ThreadStep

\* The client is polled and found to have failed.
LEMMA LoseStep ==
  ASSUME SessionInv, NEW t \in Threads, NEW c \in Clients, Moves(t), pc[t] = "run",
         pc'[t] \notin {"create", "connect"}, opt' = opt, srv' = srv, cli[c].run,
         Lose(c) \/ PollFails(c)
  PROVE  SessionInv'
<1>1. /\ SessionTypeOK /\ cli[c] \in MyClients /\ net[c] \in Connections /\ net[c].link # "none"
      /\ Len(net[c].down) \in Nat /\ <<>> \in Ids
  BY Lengths, RunIsConnected, EmptySeq DEF SessionInv, SessionTypeOK, Ids
<1>2. ASSUME NEW me \in MyClients, ~me.run, cli' = [cli EXCEPT ![c] = me],
             NEW n \in Connections, n.link = "broken", net' = [net EXCEPT ![c] = n]
      PROVE  SessionInv'
  <2>1. cli'[c] = me /\ net'[c] = n
    BY <1>1, <1>2 DEF SessionTypeOK
  <2>2. ConnInv(c)'
    BY <1>2, <2>1, NotStanding
  <2> QED BY <1>1, <1>2, <2>2, ThreadStep
<1>3. CASE Lose(c)
  <2> DEFINE took == TakeReplies(cli[c], Len(net[c].down))
             closed == Closed(took)
             n == [net[c] EXCEPT !.down = <<>>]
  <2>1. took \in MyClients
    BY <1>1, TookIs DEF Polled
  <2>2. net[c].link = "broken" /\ net' = [net EXCEPT ![c] = n]
    BY <1>3 DEF Lose
  <2>3. n \in Connections /\ n.link = "broken"
    BY <1>1, <2>2 DEF Connections
  <2>4. PICK me : me \in CheckSend(closed) \cup {closed} /\ cli' = [cli EXCEPT ![c] = me]
    BY <1>3 DEF Lose
  <2> HIDE DEF took, n
  <2>5. closed \in MyClients /\ ~closed.run
    BY <2>1, ClosedIs
  <2> HIDE DEF closed
  <2>6. me \in MyClients /\ ~me.run
    <3>1. CASE me = closed
      BY <2>5, <3>1
    <3>2. CASE me \in CheckSend(closed)
      BY <2>5, <3>2, CheckedIs
    <3> QED BY <2>4, <3>1, <3>2
  <2> QED BY <1>2, <2>2, <2>3, <2>4, <2>6
<1>4. CASE PollFails(c)
  <2> DEFINE me == Closed(cli[c])
             n == [net[c] EXCEPT !.link = "broken"]
  <2>1. cli' = [cli EXCEPT ![c] = me] /\ net' = [net EXCEPT ![c] = n]
    BY <1>4 DEF PollFails
  <2>2. n \in Connections /\ n.link = "broken"
    BY <1>1 DEF Connections
  <2>3. me \in MyClients /\ ~me.run
    BY <1>1, ClosedIs
  <2> HIDE DEF me, n
  <2> QED BY <1>2, <2>1, <2>2, <2>3
<1> QED BY <1>3, <1>4

LEMMA OnRunInv ==
  ASSUME SessionInv, NEW t \in Threads, OnRun(t)
  PROVE  SessionInv'
<1>1. PICK c \in Clients : c = Mine(t)
  BY MineIs DEF SessionInv
<1>2. pc[t] = "run" /\ opt' = opt /\ srv' = srv /\ Advance(t, nClient, "loop")
  BY DEF OnRun
<1>3. Moves(t) /\ pc'[t] \notin {"create", "connect"}
  <2>1. "loop" \in Places
    BY DEF Places
  <2> QED BY <1>2, <2>1, AdvanceMoves DEF SessionInv
<1>4. CASE cli[c].run /\ Exchange(c)
  BY <1>2, <1>3, <1>4, ExchangeStep
<1>5. CASE cli[c].run /\ (Lose(c) \/ PollFails(c))
  BY <1>2, <1>3, <1>5, LoseStep
<1>6. CASE cli' = cli /\ net' = net
  BY <1>2, <1>3, <1>6, QuietInv
<1> QED BY <1>1, <1>4, <1>5, <1>6 DEF OnRun

LEMMA CloseInv ==
  ASSUME SessionInv, NEW t \in Threads, CloseClients(t)
  PROVE  SessionInv'
<1>1. PICK c \in Clients : c = Mine(t)
  BY MineIs DEF SessionInv
<1>2. SessionTypeOK /\ cli[c] \in MyClients /\ net[c] \in Connections /\ ConnInv(c)
  BY DEF SessionInv, SessionTypeOK
<1>3. pc[t] = "close" /\ opt' = opt /\ srv' = srv
  BY DEF CloseClients
<1> DEFINE me == Closed(cli[c])
           n == [net[c] EXCEPT !.link = IF @ = "up" THEN "broken" ELSE @]
<1>4. CASE cli' = [cli EXCEPT ![c] = me] /\ net' = [net EXCEPT ![c] = n]
           /\ Advance(t, nClient, "exit")
  <2>1. Moves(t) /\ pc'[t] \notin {"create", "connect"}
    <3>1. "exit" \in Places
      BY DEF Places
    <3> QED BY <1>2, <1>3, <1>4, <3>1, AdvanceMoves
  <2>2. /\ me \in MyClients /\ ~me.run /\ me.sendBuff = <<>> /\ me.bSend = cli[c].bSend
        /\ me.sendID = cli[c].sendID /\ me.recvID = cli[c].recvID
    BY <1>2, ClosedIs
  <2>3. /\ n \in Connections /\ n.up = net[c].up /\ n.down = net[c].down
        /\ n.link = IF net[c].link = "up" THEN "broken" ELSE net[c].link
    BY <1>2 DEF Connections
  <2>4. cli'[c] = me /\ net'[c] = n /\ srv'[c] = srv[c]
    BY <1>2, <1>3, <1>4 DEF SessionTypeOK
  <2> HIDE DEF me, n
  <2>5. ConnInv(c)'
    <3>1. CASE net[c].link = "none"
      <4>1. Fresh(c)
        BY <1>2, <3>1 DEF ConnInv
      <4>2. Fresh(c)'
        BY <2>2, <2>3, <2>4, <4>1 DEF Fresh
      <4> QED BY <2>2, <2>4, <4>2 DEF ConnInv, Stands
    <3>2. CASE net[c].link # "none"
      BY <2>2, <2>3, <2>4, <3>2, NotStanding
    <3> QED BY <3>1, <3>2
  <2> QED BY <1>3, <1>4, <2>1, <2>2, <2>3, <2>5, ThreadStep
<1>5. CASE Goto(t, "crashed") /\ cli' = cli /\ net' = net
  <2>1. "crashed" \in Places
    BY DEF Places
  <2>2. Moves(t) /\ pc'[t] = "crashed"
    BY <1>2, <1>5, <2>1, GotoMoves
  <2> QED BY <1>3, <1>5, <2>2, QuietInv
<1> QED BY <1>1, <1>4, <1>5 DEF CloseClients
-----------------------------------------------------------------------------
LEMMA InitInv == Init => SessionInv
<1> SUFFICES ASSUME Init PROVE SessionInv
  OBVIOUS
<1> DEFINE new == [made |-> FALSE, run |-> FALSE, sendBuff |-> <<>>,
                   sendCount |-> 0, bSend |-> FALSE, sendID |-> 1, recvID |-> 1]
           server == [recvID |-> 1, sendID |-> 1, sendBuff |-> <<>>]
           link == [link |-> "none", up |-> <<>>, down |-> <<>>]
<1>1. <<>> \in Ids
  BY EmptySeq DEF Ids
<1>2. new \in MyClients /\ server \in SrvClients /\ link \in Connections
  BY <1>1 DEF MyClients, SrvClients, Connections
<1>3. SessionTypeOK
  <2>1. "create" \in Places
    BY DEF Places
  <2> QED BY <1>2, <2>1 DEF Init, SessionTypeOK
<1>4. ASSUME NEW c \in Clients PROVE ConnInv(c)
  <2>1. cli[c] = new /\ srv[c] = server /\ net[c] = link
    BY DEF Init
  <2>2. Fresh(c)
    BY <2>1 DEF Fresh
  <2> QED BY <2>1, <2>2 DEF ConnInv, Stands
<1>5. ASSUME NEW t \in Threads PROVE LoopInv(t)
  <2>1. pc[t] = "create" /\ \A n \in 1..nClient : <<t, n>> \in Clients
    BY DEF Init, Clients
  <2> QED BY <2>1 DEF Init, LoopInv
<1> QED BY <1>3, <1>4, <1>5 DEF SessionInv

LEMMA StepInv == SessionInv /\ [Next]_vars => SessionInv'
<1> SUFFICES ASSUME SessionInv, [Next]_vars PROVE SessionInv'
  OBVIOUS
<1>1. CASE Main
  BY <1>1, MainInv DEF Main
<1>2. ASSUME NEW t \in Threads, WorkThread(t) PROVE SessionInv'
  BY <1>2, CreateInv, ConnectInv, QuietSteps, SendTestInv, OnRunInv, CloseInv DEF WorkThread
<1>3. ASSUME NEW c \in Clients, Server(c) \/ Break(c) PROVE SessionInv'
  BY <1>3, ServerInv, BreakInv
<1>4. CASE UNCHANGED vars
  BY <1>4, MainInv DEF vars
<1> QED BY <1>1, <1>2, <1>3, <1>4 DEF Next

LEMMA InvIsRow == SessionInv => IdsConsecutive /\ OneUnanswered
<1> SUFFICES ASSUME SessionInv PROVE IdsConsecutive /\ OneUnanswered
  OBVIOUS
<1>1. ASSUME NEW c \in Clients, cli[c].run, net[c].link = "up"
      PROVE  /\ Consecutive(net[c].up \o cli[c].sendBuff, srv[c].recvID)
             /\ cli[c].sendID = srv[c].recvID + Len(net[c].up \o cli[c].sendBuff)
             /\ Consecutive(net[c].down \o srv[c].sendBuff, cli[c].recvID)
             /\ srv[c].sendID = cli[c].recvID + Len(net[c].down \o srv[c].sendBuff)
  <2>1. InStep(c)
    BY <1>1, Standing
  <2>2. SessionTypeOK
    BY DEF SessionInv
  <2>3. /\ Consecutive(net[c].up \o cli[c].sendBuff, srv[c].recvID)
        /\ cli[c].sendID = srv[c].recvID + Len(net[c].up \o cli[c].sendBuff)
    <3>1. Line(net[c].up, cli[c].sendBuff, srv[c].recvID, cli[c].sendID)
      BY <2>1 DEF InStep
    <3>2. /\ net[c].up \in Ids /\ cli[c].sendBuff \in Ids
          /\ srv[c].recvID \in Nat /\ cli[c].sendID \in Nat
      BY <2>2, Fields
    <3> QED BY <3>1, <3>2, LineIsRow
  <2>4. /\ Consecutive(net[c].down \o srv[c].sendBuff, cli[c].recvID)
        /\ srv[c].sendID = cli[c].recvID + Len(net[c].down \o srv[c].sendBuff)
    <3>1. Line(net[c].down, srv[c].sendBuff, cli[c].recvID, srv[c].sendID)
      BY <2>1 DEF InStep
    <3>2. /\ net[c].down \in Ids /\ srv[c].sendBuff \in Ids
          /\ cli[c].recvID \in Nat /\ srv[c].sendID \in Nat
      BY <2>2, Fields
    <3> QED BY <3>1, <3>2, LineIsRow
  <2> QED BY <2>3, <2>4
<1>2. IdsConsecutive
  BY <1>1 DEF IdsConsecutive
<1>3. OneUnanswered
  BY Standing DEF OneUnanswered, Answered
<1> QED BY <1>2, <1>3

\* As long as a connection stands, the logins and the replies under way carry
\* the numbers that the receivers count, in the buffers of the client, the
\* kernel and the server (client.cpp, server.cpp: -checkMsgID), and a client
\* with -checkSendBack has exactly one message under way until it is answered.
THEOREM NumbersAgree == Spec => [](IdsConsecutive /\ OneUnanswered)
<1>1. Spec => []SessionInv
  BY InitInv, StepInv, PTL DEF Spec
<1> QED BY <1>1, InvIsRow, PTL
=============================================================================
