-------------------------- MODULE ConnectionProofs --------------------------
(***************************************************************************)
(* A connection delivers what was accepted, whole and in order, for buffers*)
(* of any size, messages of any length and transfers of any size; only a   *)
(* message longer than the receive buffer breaks it; and what is read from *)
(* a message is what was written into it, for any fields.                  *)
(***************************************************************************)
EXTENDS StreamConnection, SequenceTheorems, WellFoundedInduction, TLAPS

Byte == [msg : 1..MaxMsgs, dataLength : Lengths, pos : Nat]

LEMMA LengthsPos ==
  /\ \A len \in Lengths : len \in Nat /\ len >= 1 /\ len >= HeaderLen
  /\ {SendSize, RecvSize, WireSize, MaxMsgs, HeaderLen} \subseteq Nat \ {0}
BY LengthsHold, HeaderLenPos, SizesPos
-----------------------------------------------------------------------------
(* Sequences of bytes.                                                     *)

LEMMA Associative == \A a, b, c \in Seq(Byte) : (a \o b) \o c = a \o (b \o c)
BY ConcatAssociative

LEMMA FrontAndRest ==
  ASSUME NEW s \in Seq(Byte), NEW n \in 0..Len(s)
  PROVE  /\ Front(s, n) \in Seq(Byte) /\ DropFront(s, n) \in Seq(Byte)
         /\ Front(s, n) \o DropFront(s, n) = s
         /\ Len(DropFront(s, n)) = Len(s) - n
         /\ \A k \in 1..(Len(s) - n) : DropFront(s, n)[k] = s[n + k]
<1>1. Len(s) \in Nat /\ \A k \in 1..Len(s) : s[k] \in Byte
  BY LenProperties, ElementOfSeq
<1>2. Front(s, n) \in Seq(Byte)
  BY <1>1, SubSeqProperties DEF Front
<1>3. /\ DropFront(s, n) \in Seq(Byte) /\ Len(DropFront(s, n)) = Len(s) - n
      /\ \A k \in 1..(Len(s) - n) : DropFront(s, n)[k] = s[n + k]
  BY <1>1, SubSeqProperties DEF DropFront
<1>4. Front(s, n) \o DropFront(s, n) = SubSeq(s, 1, Len(s))
  <2>1. 1 \in 1..(Len(s) + 1) /\ n \in (1 - 1)..Len(s) /\ Len(s) \in n..Len(s)
    BY <1>1
  <2> QED BY <2>1, ConcatAdjacentSubSeq DEF Front, DropFront
<1> QED BY <1>2, <1>3, <1>4, SubSeqFull

LEMMA ConcatAt ==
  ASSUME NEW s \in Seq(Byte), NEW t \in Seq(Byte)
  PROVE  /\ s \o t \in Seq(Byte) /\ Len(s \o t) = Len(s) + Len(t)
         /\ \A k \in 1..Len(s) : (s \o t)[k] = s[k]
         /\ \A k \in 1..Len(t) : (s \o t)[Len(s) + k] = t[k]
<1>1. PICK whole \in Seq(Byte) :
        /\ whole = s \o t /\ Len(whole) = Len(s) + Len(t)
        /\ \A k \in 1..(Len(s) + Len(t)) : whole[k] = IF k <= Len(s) THEN s[k] ELSE t[k - Len(s)]
  <2>1. /\ s \o t \in Seq(Byte) /\ Len(s \o t) = Len(s) + Len(t)
        /\ \A k \in 1..(Len(s) + Len(t)) :
              (s \o t)[k] = IF k <= Len(s) THEN s[k] ELSE t[k - Len(s)]
    BY ConcatProperties
  <2> QED BY <2>1, Zenon
<1>2. Len(s) \in Nat /\ Len(t) \in Nat
  BY LenProperties
<1>3. \A k \in 1..Len(s) : whole[k] = s[k]
  BY <1>1, <1>2
<1>4. ASSUME NEW k \in 1..Len(t) PROVE whole[Len(s) + k] = t[k]
  <2>1. /\ Len(s) + k \in 1..(Len(s) + Len(t)) /\ ~(Len(s) + k <= Len(s))
        /\ Len(s) + k - Len(s) = k
    BY <1>2
  <2> QED BY <1>1, <2>1
<1> QED BY <1>1, <1>3, <1>4

\* Bytes that move from the front of one buffer to the end of the one before.
LEMMA MoveBytes ==
  ASSUME NEW a \in Seq(Byte), NEW b \in Seq(Byte), NEW c \in Seq(Byte), NEW n \in 0..Len(b)
  PROVE  /\ a \o Front(b, n) \in Seq(Byte) /\ DropFront(b, n) \in Seq(Byte)
         /\ (a \o Front(b, n)) \o (DropFront(b, n) \o c) = a \o (b \o c)
<1>1. PICK f \in Seq(Byte), r \in Seq(Byte) :
        f = Front(b, n) /\ r = DropFront(b, n) /\ f \o r = b
  BY FrontAndRest
<1>2. a \o f \in Seq(Byte)
  BY ConcatProperties
<1>3. (a \o f) \o (r \o c) = a \o (f \o (r \o c))
  <2>1. PICK x \in Seq(Byte) : x = r \o c
    BY ConcatProperties
  <2>2. (a \o f) \o x = a \o (f \o x)
    BY Associative, SMTT(60)
  <2> QED BY <2>1, <2>2, Zenon
<1>4. (f \o r) \o c = f \o (r \o c)
  BY Associative, ZenonT(60)
<1> QED BY <1>1, <1>2, <1>3, <1>4

LEMMA MoveFront ==
  ASSUME NEW a \in Seq(Byte), NEW b \in Seq(Byte), NEW n \in 0..Len(b)
  PROVE  (a \o Front(b, n)) \o DropFront(b, n) = a \o b
<1>1. PICK f \in Seq(Byte), r \in Seq(Byte) :
        f = Front(b, n) /\ r = DropFront(b, n) /\ f \o r = b
  BY FrontAndRest
<1>2. (a \o f) \o r = a \o (f \o r)
  BY Associative, ZenonT(60)
<1> QED BY <1>1, <1>2

LEMMA DropFrontOfConcat ==
  ASSUME NEW s \in Seq(Byte), NEW t \in Seq(Byte), NEW n \in 0..Len(s)
  PROVE  DropFront(s \o t, n) = DropFront(s, n) \o t
<1> DEFINE whole == s \o t
           rest == DropFront(s, n)
<1>1. /\ whole \in Seq(Byte) /\ Len(whole) = Len(s) + Len(t) /\ Len(s) \in Nat /\ Len(t) \in Nat
      /\ \A k \in 1..(Len(s) + Len(t)) : whole[k] = IF k <= Len(s) THEN s[k] ELSE t[k - Len(s)]
  BY ConcatProperties, LenProperties
<1>2. /\ rest \in Seq(Byte) /\ Len(rest) = Len(s) - n
      /\ \A k \in 1..(Len(s) - n) : rest[k] = s[n + k]
  BY FrontAndRest
<1> HIDE DEF whole, rest
<1>3. /\ rest \o t \in Seq(Byte) /\ Len(rest \o t) = Len(rest) + Len(t)
      /\ \A k \in 1..(Len(rest) + Len(t)) :
           (rest \o t)[k] = IF k <= Len(rest) THEN rest[k] ELSE t[k - Len(rest)]
  BY <1>2, ConcatProperties
<1>4. /\ DropFront(whole, n) \in Seq(Byte) /\ Len(DropFront(whole, n)) = Len(whole) - n
      /\ \A k \in 1..(Len(whole) - n) : DropFront(whole, n)[k] = whole[n + k]
  <2>1. n \in 0..Len(whole)
    BY <1>1
  <2> QED BY <1>1, <2>1, FrontAndRest
<1>5. Len(DropFront(whole, n)) = Len(rest \o t)
  BY <1>1, <1>2, <1>3, <1>4
<1>6. ASSUME NEW k \in 1..Len(DropFront(whole, n))
      PROVE  DropFront(whole, n)[k] = (rest \o t)[k]
  <2>1. /\ k \in 1..(Len(whole) - n) /\ k \in 1..(Len(rest) + Len(t))
        /\ n + k \in 1..(Len(s) + Len(t))
    BY <1>1, <1>2, <1>4
  <2>2. CASE k <= Len(rest)
    <3>1. k \in 1..(Len(s) - n) /\ n + k <= Len(s)
      BY <1>1, <1>2, <2>1, <2>2
    <3> QED BY <1>1, <1>2, <1>3, <1>4, <2>1, <2>2, <3>1
  <2>3. CASE ~(k <= Len(rest))
    <3>1. ~(n + k <= Len(s)) /\ n + k - Len(s) = k - Len(rest)
      BY <1>1, <1>2, <2>1, <2>3
    <3>2. DropFront(whole, n)[k] = t[n + k - Len(s)]
      BY <1>1, <1>4, <2>1, <3>1
    <3>3. (rest \o t)[k] = t[k - Len(rest)]
      BY <1>3, <2>1, <2>3
    <3> QED BY <3>1, <3>2, <3>3
  <2> QED BY <2>2, <2>3
<1>7. DropFront(whole, n) = rest \o t
  BY <1>3, <1>4, <1>5, <1>6, SeqEqual
<1> QED BY <1>7 DEF whole, rest
-----------------------------------------------------------------------------
(* Framing: the bytes on their way are those of the messages on theirs.    *)

\* The bytes consist of the messages after the first d: message d + j is
\* what lies between cut[j - 1] and cut[j].
IsCut(cut, bytes, msgs, d) ==
  /\ cut[0] = 0 /\ cut[Len(msgs) - d] = Len(bytes)
  /\ \A i, j \in 0..(Len(msgs) - d) : i <= j => cut[i] <= cut[j]
  /\ \A j \in 1..(Len(msgs) - d) :
       /\ cut[j] = cut[j - 1] + msgs[d + j].len
       /\ \A k \in 1..msgs[d + j].len :
            bytes[cut[j - 1] + k] = [msg |-> msgs[d + j].msg, dataLength |-> msgs[d + j].len, pos |-> k]

Framed(bytes, msgs, d) == \E cut \in [0..(Len(msgs) - d) -> Nat] : IsCut(cut, bytes, msgs, d)

LEMMA FramedEmpty == Framed(<<>>, <<>>, 0)
<1>1. Len(<<>>) = 0
  OBVIOUS
<1>2. [j \in 0..0 |-> 0] \in [0..0 -> Nat] /\ IsCut([j \in 0..0 |-> 0], <<>>, <<>>, 0)
  BY <1>1 DEF IsCut
<1> QED BY <1>1, <1>2 DEF Framed

LEMMA MsgBytesType ==
  ASSUME NEW m \in Msg
  PROVE  /\ MsgBytes(m.msg, m.len, m.len) \in Seq(Byte)
         /\ Len(MsgBytes(m.msg, m.len, m.len)) = m.len
         /\ m.len \in Nat /\ m.len >= 1
         /\ \A k \in 1..m.len : MsgBytes(m.msg, m.len, m.len)[k] = [msg |-> m.msg, dataLength |-> m.len, pos |-> k]
<1>1. m.len \in Nat /\ m.len >= 1 /\ m.len \in Lengths /\ m.msg \in 1..MaxMsgs
  BY LengthsPos DEF Msg
<1>2. \A k \in 1..m.len : [msg |-> m.msg, dataLength |-> m.len, pos |-> k] \in Byte
  BY <1>1 DEF Byte
<1> QED BY <1>1, <1>2, IsASeq DEF MsgBytes

\* SendData adds a message and its bytes.
LEMMA FramedAppend ==
  ASSUME NEW bytes \in Seq(Byte), NEW msgs \in Seq(Msg), NEW d \in 0..Len(msgs), NEW m \in Msg,
         Framed(bytes, msgs, d)
  PROVE  Framed(bytes \o MsgBytes(m.msg, m.len, m.len), Append(msgs, m), d)
<1>1. PICK n \in Nat : n = Len(msgs) - d /\ d + n = Len(msgs)
  <2>1. Len(msgs) \in Nat
    BY LenProperties
  <2> QED BY <2>1
<1>2. PICK cut \in [0..n -> Nat] :
        /\ cut[0] = 0 /\ cut[n] = Len(bytes)
        /\ \A i, j \in 0..n : i <= j => cut[i] <= cut[j]
        /\ \A j \in 1..n :
             /\ cut[j] = cut[j - 1] + msgs[d + j].len
             /\ \A k \in 1..msgs[d + j].len :
                  bytes[cut[j - 1] + k] =
                    [msg |-> msgs[d + j].msg, dataLength |-> msgs[d + j].len, pos |-> k]
  BY <1>1 DEF Framed, IsCut
<1>3. PICK tail \in Seq(Byte) :
        /\ tail = MsgBytes(m.msg, m.len, m.len) /\ Len(tail) = m.len
        /\ \A k \in 1..m.len : tail[k] = [msg |-> m.msg, dataLength |-> m.len, pos |-> k]
  BY MsgBytesType
<1>4. PICK longer \in Seq(Byte) :
        /\ longer = bytes \o tail /\ Len(longer) = Len(bytes) + m.len
        /\ \A k \in 1..Len(bytes) : longer[k] = bytes[k]
        /\ \A k \in 1..m.len : longer[Len(bytes) + k] = tail[k]
  <2>1. /\ bytes \o tail \in Seq(Byte) /\ Len(bytes \o tail) = Len(bytes) + Len(tail)
        /\ \A k \in 1..Len(bytes) : (bytes \o tail)[k] = bytes[k]
        /\ \A k \in 1..Len(tail) : (bytes \o tail)[Len(bytes) + k] = tail[k]
    BY ConcatAt
  <2> QED BY <1>3, <2>1, ZenonT(60)
<1>5. PICK more \in Seq(Msg) :
        /\ more = Append(msgs, m) /\ Len(more) = Len(msgs) + 1 /\ more[Len(msgs) + 1] = m
        /\ \A i \in 1..Len(msgs) : more[i] = msgs[i]
  <2>1. /\ Append(msgs, m) \in Seq(Msg) /\ Len(Append(msgs, m)) = Len(msgs) + 1
        /\ Append(msgs, m)[Len(msgs) + 1] = m
        /\ \A i \in 1..Len(msgs) : Append(msgs, m)[i] = msgs[i]
    BY AppendProperties
  <2> QED BY <2>1, Zenon
<1>6. PICK total \in Nat, size \in Nat : total = Len(bytes) /\ size = m.len
  BY LenProperties, MsgBytesType
<1>7. PICK cut2 \in [0..(n + 1) -> Nat] :
        (\A j \in 0..n : cut2[j] = cut[j]) /\ cut2[n + 1] = total + size
  <2> DEFINE f == [j \in 0..(n + 1) |-> IF j <= n THEN cut[j] ELSE total + size]
  <2>1. f \in [0..(n + 1) -> Nat] /\ (\A j \in 0..n : f[j] = cut[j]) /\ f[n + 1] = total + size
    OBVIOUS
  <2> QED BY <2>1
<1>8. \A l \in 0..n : cut[l] \in Nat /\ cut[l] <= total
  BY <1>2, <1>6, SMTT(30)
<1>9. cut2[0] = 0 /\ cut2[n + 1] = Len(longer)
  BY <1>2, <1>4, <1>6, <1>7
<1>10. ASSUME NEW i \in 0..(n + 1), NEW j \in 0..(n + 1), i <= j PROVE cut2[i] <= cut2[j]
  <2>1. CASE j <= n
    <3>1. i \in 0..n /\ j \in 0..n
      BY <1>10, <2>1
    <3> QED BY <1>2, <1>7, <1>10, <3>1
  <2>2. CASE i <= n /\ j = n + 1
    <3>1. i \in 0..n
      BY <2>2
    <3> QED BY <1>7, <1>8, <2>2, <3>1
  <2>3. CASE i = n + 1 /\ j = n + 1
    BY <2>3
  <2> QED BY <1>10, <2>1, <2>2, <2>3
<1>11. ASSUME NEW j \in 1..(n + 1)
       PROVE  /\ cut2[j] = cut2[j - 1] + more[d + j].len
              /\ \A k \in 1..more[d + j].len :
                   longer[cut2[j - 1] + k] =
                     [msg |-> more[d + j].msg, dataLength |-> more[d + j].len, pos |-> k]
  <2>1. CASE j <= n
    <3>1. d + j \in 1..Len(msgs) /\ j \in 1..n /\ j \in 0..n /\ j - 1 \in 0..n
      BY <1>1, <2>1
    <3>2. /\ more[d + j] = msgs[d + j] /\ cut2[j] = cut[j] /\ cut2[j - 1] = cut[j - 1]
          /\ cut[j] \in Nat /\ cut[j - 1] \in Nat /\ cut[j] <= total
      BY <1>5, <1>7, <1>8, <3>1
    <3>3. PICK len \in Nat : len = msgs[d + j].len
      <4>1. msgs[d + j] \in Msg
        BY <3>1, ElementOfSeq
      <4> QED BY <4>1, MsgBytesType
    <3>4. cut[j] = cut[j - 1] + len
      BY <1>2, <3>1, <3>3
    <3>5. ASSUME NEW k \in 1..len PROVE longer[cut[j - 1] + k] = bytes[cut[j - 1] + k]
      <4>1. PICK start \in Nat : start = cut[j - 1]
        BY <3>2
      <4>2. start + len <= total
        BY <3>2, <3>4, <4>1
      <4>3. start + k \in 1..total
        BY <4>2
      <4> QED BY <1>4, <1>6, <4>1, <4>3
    <3>6. \A k \in 1..len :
             bytes[cut[j - 1] + k] = [msg |-> msgs[d + j].msg, dataLength |-> msgs[d + j].len, pos |-> k]
      BY <1>2, <3>1, <3>3
    <3> QED BY <3>2, <3>3, <3>4, <3>5, <3>6, ZenonT(60)
  <2>2. CASE j = n + 1
    <3>1. d + j = Len(msgs) + 1 /\ j - 1 = n /\ n \in 0..n
      BY <1>1, <2>2
    <3>2. more[d + j] = m /\ cut2[j - 1] = total /\ cut2[j] = total + size
      BY <1>2, <1>5, <1>6, <1>7, <2>2, <3>1
    <3>3. \A k \in 1..size : longer[total + k] = [msg |-> m.msg, dataLength |-> m.len, pos |-> k]
      BY <1>3, <1>4, <1>6
    <3> QED BY <1>6, <3>2, <3>3
  <2> QED BY <2>1, <2>2
<1>12. Len(more) - d = n + 1
  BY <1>1, <1>5
<1>13. IsCut(cut2, longer, more, d)
  BY <1>9, <1>10, <1>11, <1>12 DEF IsCut
<1>14. Framed(longer, more, d)
  BY <1>12, <1>13 DEF Framed
<1> QED BY <1>3, <1>4, <1>5, <1>14

\* What lies at the front is the next message that is not yet delivered.
LEMMA FramedFront ==
  ASSUME NEW bytes \in Seq(Byte), NEW msgs \in Seq(Msg), NEW d \in 0..Len(msgs),
         Framed(bytes, msgs, d), Len(bytes) > 0
  PROVE  /\ d + 1 \in 1..Len(msgs) /\ msgs[d + 1] \in Msg
         /\ bytes[1].msg = msgs[d + 1].msg /\ bytes[1].dataLength = msgs[d + 1].len
         /\ \A k \in 1..msgs[d + 1].len :
              bytes[k] = [msg |-> msgs[d + 1].msg, dataLength |-> msgs[d + 1].len, pos |-> k]
         /\ msgs[d + 1].len \in 0..Len(bytes)
         /\ Framed(DropFront(bytes, msgs[d + 1].len), msgs, d + 1)
<1>1. PICK n \in Nat : n = Len(msgs) - d /\ d + n = Len(msgs)
  <2>1. Len(msgs) \in Nat
    BY LenProperties
  <2> QED BY <2>1
<1>2. PICK cut \in [0..n -> Nat] :
        /\ cut[0] = 0 /\ cut[n] = Len(bytes)
        /\ \A i, j \in 0..n : i <= j => cut[i] <= cut[j]
        /\ \A j \in 1..n :
             /\ cut[j] = cut[j - 1] + msgs[d + j].len
             /\ \A k \in 1..msgs[d + j].len :
                  bytes[cut[j - 1] + k] =
                    [msg |-> msgs[d + j].msg, dataLength |-> msgs[d + j].len, pos |-> k]
  BY <1>1 DEF Framed, IsCut
<1>3. PICK total \in Nat : total = Len(bytes)
  BY LenProperties
<1>4. n >= 1 /\ 1 \in 0..n /\ 1 \in 1..n /\ n \in 0..n /\ 0 \in 0..n
  <2>1. n # 0
    BY <1>2
  <2> QED BY <2>1
<1>5. d + 1 \in 1..Len(msgs) /\ msgs[d + 1] \in Msg
  <2>1. d + 1 \in 1..Len(msgs)
    BY <1>1, <1>4
  <2> QED BY <2>1, ElementOfSeq
<1>6. PICK size \in Nat : size = msgs[d + 1].len /\ size >= 1
  BY <1>5, MsgBytesType
<1>7. cut[1] = size /\ cut[1] <= total
  <2>1. cut[1] = cut[1 - 1] + msgs[d + 1].len
    BY <1>2, <1>4
  <2>2. cut[1] <= cut[n]
    BY <1>2, <1>4
  <2> QED BY <1>2, <1>3, <1>6, <2>1, <2>2
<1>8. /\ \A k \in 1..size :
           bytes[k] = [msg |-> msgs[d + 1].msg, dataLength |-> msgs[d + 1].len, pos |-> k]
      /\ bytes[1] = [msg |-> msgs[d + 1].msg, dataLength |-> msgs[d + 1].len, pos |-> 1]
  <2>1. \A k \in 1..size :
           bytes[cut[1 - 1] + k] = [msg |-> msgs[d + 1].msg, dataLength |-> msgs[d + 1].len, pos |-> k]
    BY <1>2, <1>4, <1>6
  <2>2. \A k \in 1..size : cut[1 - 1] + k = k
    BY <1>2
  <2>3. 1 \in 1..size
    BY <1>6
  <2> QED BY <2>1, <2>2, <2>3
<1>9. size \in 0..total
  BY <1>7
<1>10. PICK rest \in Seq(Byte) :
         /\ rest = DropFront(bytes, size) /\ Len(rest) = total - size
         /\ \A k \in 1..(total - size) : rest[k] = bytes[size + k]
  BY <1>3, <1>9, FrontAndRest
<1>11. PICK cut2 \in [0..(n - 1) -> Nat] : \A j \in 0..(n - 1) : cut2[j] = cut[j + 1] - size
  <2> DEFINE f == [j \in 0..(n - 1) |-> cut[j + 1] - size]
  <2>1. ASSUME NEW j \in 0..(n - 1) PROVE cut[j + 1] - size \in Nat
    <3>1. j + 1 \in 0..n /\ 1 <= j + 1
      BY <1>4
    <3>2. cut[1] <= cut[j + 1] /\ cut[j + 1] \in Nat
      BY <1>2, <1>4, <3>1
    <3> QED BY <1>7, <3>2
  <2>2. f \in [0..(n - 1) -> Nat] /\ \A j \in 0..(n - 1) : f[j] = cut[j + 1] - size
    BY <2>1
  <2> HIDE DEF f
  <2> QED BY <2>2
<1>12. Len(msgs) - (d + 1) = n - 1 /\ n - 1 \in 0..(n - 1) /\ 0 \in 0..(n - 1)
  BY <1>1, <1>4
<1>13. cut2[0] = 0 /\ cut2[n - 1] = Len(rest)
  <2>1. cut2[0] = cut[0 + 1] - size /\ cut2[n - 1] = cut[n - 1 + 1] - size
    BY <1>11, <1>12
  <2>2. 0 + 1 = 1 /\ n - 1 + 1 = n
    OBVIOUS
  <2>3. cut2[0] = cut[1] - size /\ cut2[n - 1] = cut[n] - size
    BY <2>1, <2>2
  <2>4. cut2[0] = size - size /\ cut2[n - 1] = total - size
    BY <1>2, <1>3, <1>7, <2>3
  <2>5. size - size = 0
    OBVIOUS
  <2> QED BY <1>10, <2>4, <2>5
<1>14. ASSUME NEW i \in 0..(n - 1), NEW j \in 0..(n - 1), i <= j PROVE cut2[i] <= cut2[j]
  <2>1. i + 1 \in 0..n /\ j + 1 \in 0..n /\ i + 1 <= j + 1
    BY <1>4, <1>14
  <2>2. cut[i + 1] <= cut[j + 1] /\ cut[i + 1] \in Nat /\ cut[j + 1] \in Nat
    BY <1>2, <2>1
  <2>3. PICK low \in Nat, high \in Nat : low = cut[i + 1] /\ high = cut[j + 1] /\ low <= high
    BY <2>2
  <2>4. cut2[i] = low - size /\ cut2[j] = high - size
    BY <1>11, <2>3
  <2>5. low - size <= high - size
    BY <2>3
  <2> QED BY <2>4, <2>5
<1>15. ASSUME NEW j \in 1..(n - 1)
       PROVE  /\ cut2[j] = cut2[j - 1] + msgs[d + 1 + j].len
              /\ \A k \in 1..msgs[d + 1 + j].len :
                   rest[cut2[j - 1] + k] =
                     [msg |-> msgs[d + 1 + j].msg, dataLength |-> msgs[d + 1 + j].len, pos |-> k]
  <2>1. /\ j + 1 \in 1..n /\ j \in 0..n /\ j + 1 \in 0..n /\ j + 1 - 1 = j /\ j - 1 \in 0..(n - 1)
        /\ j \in 0..(n - 1) /\ d + (j + 1) = d + 1 + j /\ j - 1 + 1 = j
        /\ d + 1 + j \in 1..Len(msgs) /\ j + 1 <= n /\ 1 <= j
    BY <1>1, <1>4
  <2>2. PICK len \in Nat : len = msgs[d + 1 + j].len
    <3>1. msgs[d + 1 + j] \in Msg
      BY <2>1, ElementOfSeq
    <3> QED BY <3>1, MsgBytesType
  <2>3. PICK start \in Nat : start = cut[j]
    BY <2>1
  <2>4. /\ cut[j + 1] = start + len
        /\ \A k \in 1..len : bytes[start + k] =
             [msg |-> msgs[d + 1 + j].msg, dataLength |-> msgs[d + 1 + j].len, pos |-> k]
    <3>1. PICK next \in 1..n : next = j + 1 /\ next - 1 = j /\ d + next = d + 1 + j
      BY <2>1
    <3>2. /\ cut[next] = cut[next - 1] + msgs[d + next].len
          /\ \A k \in 1..msgs[d + next].len :
               bytes[cut[next - 1] + k] =
                 [msg |-> msgs[d + next].msg, dataLength |-> msgs[d + next].len, pos |-> k]
      BY <1>2
    <3> QED BY <2>2, <2>3, <3>1, <3>2
  <2>5. cut[j + 1] <= total /\ size <= start
    BY <1>2, <1>3, <1>4, <1>7, <2>1, <2>3, SMTT(60)
  <2>6. cut2[j - 1] = start - size /\ cut2[j] = start + len - size
    <3>1. PICK prev \in 0..(n - 1) : prev = j - 1 /\ prev + 1 = j
      BY <2>1
    <3>2. cut2[prev] = cut[prev + 1] - size
      BY <1>11
    <3>3. cut2[j] = cut[j + 1] - size
      BY <1>11, <2>1
    <3>4. cut2[prev] = start - size
      BY <2>3, <3>1, <3>2
    <3>5. cut2[j] = start + len - size
      BY <2>4, <3>3
    <3> QED BY <3>1, <3>4, <3>5
  <2>7. ASSUME NEW k \in 1..len PROVE rest[start - size + k] = bytes[start + k]
    <3>1. start + len <= total /\ size <= start /\ 1 <= k /\ k <= len /\ k \in Nat
      BY <2>4, <2>5
    <3>2. start - size + k \in 1..(total - size) /\ size + (start - size + k) = start + k
      BY <3>1
    <3>3. rest[start - size + k] = bytes[size + (start - size + k)]
      BY <1>10, <3>2
    <3> QED BY <3>2, <3>3
  <2>8. cut2[j] = cut2[j - 1] + len
    BY <2>6
  <2> QED BY <2>2, <2>4, <2>6, <2>7, <2>8
<1>16. IsCut(cut2, rest, msgs, d + 1)
  BY <1>12, <1>13, <1>14, <1>15 DEF IsCut
<1>17. Framed(rest, msgs, d + 1)
  BY <1>12, <1>16 DEF Framed
<1>18. bytes[1].msg = msgs[d + 1].msg /\ bytes[1].dataLength = msgs[d + 1].len
  BY <1>8
<1>19. msgs[d + 1].len \in 0..Len(bytes)
  BY <1>3, <1>6, <1>9
<1>20. Framed(DropFront(bytes, msgs[d + 1].len), msgs, d + 1)
  BY <1>6, <1>10, <1>17
<1> QED BY <1>5, <1>6, <1>8, <1>18, <1>19, <1>20
-----------------------------------------------------------------------------
(* The invariant.                                                          *)

ConnTypeOK ==
  /\ sendBuff \in Seq(Byte) /\ wire \in Seq(Byte) /\ recvBuff \in Seq(Byte)
  /\ accepted \in Seq(Msg) /\ delivered \in Seq(Msg)
  /\ calls \in Nat

\* What the receiver holds when it is between two receives.
LoopInv ==
  /\ phase = "net" => ~HasMsg(recvBuff)
  /\ link = "dropped" => phase = "net" /\ Len(recvBuff) = RecvSize

\* The bytes that are neither delivered nor lost are those of the accepted
\* messages that are not delivered; without a link some of them are lost.
OnTheirWay(bytes) ==
  /\ bytes \in Seq(Byte)
  /\ link = "up" => bytes = wire \o sendBuff
  /\ Framed(recvBuff \o bytes, accepted, Len(delivered))

FramingInv ==
  /\ Len(delivered) \in 0..Len(accepted)
  /\ \E bytes \in Seq(Byte) : OnTheirWay(bytes)

ConnInv == ConnTypeOK /\ LoopInv /\ FramingInv

\* What StreamConnection adds reads the connection and does not steer it.
ConnNext ==
  \/ \E len \in Lengths : SendData(len, len)
  \/ HandleMsg
  \/ Transfer \/ RecvFull \/ DoMsgDone \/ Reset

LEMMA ConnInitial == Init => ConnInv
<1> SUFFICES ASSUME Init PROVE ConnInv
  OBVIOUS
<1>1. <<>> \in Seq(Byte) /\ <<>> \in Seq(Msg) /\ Len(<<>>) = 0
  OBVIOUS
<1>2. ConnTypeOK
  BY <1>1 DEF Init, ConnTypeOK
<1>3. LoopInv
  <2>1. ~HasMsg(<<>>)
    BY <1>1, HeaderLenPos DEF HasMsg
  <2> QED BY <2>1 DEF Init, LoopInv
<1>4. <<>> \o <<>> = <<>>
  OBVIOUS
<1>5. OnTheirWay(<<>>)
  <2>1. Framed(<<>> \o <<>>, <<>>, Len(<<>>))
    BY <1>1, <1>4, FramedEmpty
  <2> QED BY <1>1, <1>4, <2>1 DEF Init, OnTheirWay
<1>6. FramingInv
  <2>1. Len(delivered) \in 0..Len(accepted)
    BY <1>1 DEF Init
  <2>2. <<>> \in Seq(Byte)
    BY <1>1
  <2> QED BY <1>5, <2>1, <2>2, Zenon DEF FramingInv
<1> QED BY <1>2, <1>3, <1>6 DEF ConnInv

\* SendData: the bytes of an accepted message are the last on their way.
LEMMA SendDataKeeps ==
  ASSUME ConnInv, NEW len \in Lengths, SendData(len, len) PROVE ConnInv'
<1>1. calls \in Nat /\ calls + 1 \in 1..MaxMsgs
  BY LengthsPos DEF ConnInv, ConnTypeOK, SendData
<1>2. LoopInv'
  BY DEF ConnInv, LoopInv, SendData, HasMsg, DataLength
<1>3. CASE UNCHANGED <<sendBuff, accepted>>
  <2>1. ConnTypeOK'
    BY <1>1, <1>3 DEF ConnInv, ConnTypeOK, SendData
  <2>2. FramingInv'
    BY <1>3 DEF ConnInv, FramingInv, OnTheirWay, SendData
  <2> QED BY <1>2, <2>1, <2>2 DEF ConnInv
<1>4. CASE /\ sendBuff' = Push(sendBuff, MsgBytes(calls + 1, len, len))
           /\ accepted' = Append(accepted, [msg |-> calls + 1, len |-> len])
  <2>1. PICK m \in Msg : m = [msg |-> calls + 1, len |-> len] /\ m.msg = calls + 1 /\ m.len = len
    <3>1. [msg |-> calls + 1, len |-> len] \in Msg
      BY <1>1 DEF Msg
    <3> QED BY <3>1
  <2>2. PICK new \in Seq(Byte) : new = MsgBytes(calls + 1, len, len) /\ new = MsgBytes(m.msg, m.len, m.len)
    BY <2>1, MsgBytesType
  <2>3. /\ sendBuff \in Seq(Byte) /\ wire \in Seq(Byte) /\ recvBuff \in Seq(Byte)
        /\ accepted \in Seq(Msg) /\ delivered \in Seq(Msg)
        /\ Len(delivered) \in 0..Len(accepted)
    BY DEF ConnInv, ConnTypeOK, FramingInv
  <2>4. PICK bytes \in Seq(Byte) : OnTheirWay(bytes)
    BY DEF ConnInv, FramingInv
  <2>5. /\ sendBuff' = sendBuff \o new /\ sendBuff' \in Seq(Byte)
        /\ bytes \o new \in Seq(Byte)
    BY <1>4, <2>2, <2>3, ConcatProperties DEF Push
  <2>6. /\ accepted' = Append(accepted, m) /\ accepted' \in Seq(Msg)
        /\ Len(accepted') = Len(accepted) + 1
    BY <1>4, <2>1, <2>3, AppendProperties
  <2>7. ConnTypeOK'
    BY <1>1, <2>3, <2>5, <2>6 DEF ConnTypeOK, SendData
  <2>8. link' = "up" => bytes \o new = wire' \o sendBuff'
    <3>1. (wire \o sendBuff) \o new = wire \o (sendBuff \o new)
      BY <2>2, <2>3, Associative, ZenonT(60)
    <3> QED BY <2>4, <2>5, <3>1 DEF OnTheirWay, SendData
  <2>9. Framed(recvBuff' \o (bytes \o new), accepted', Len(delivered'))
    <3>1. recvBuff \o bytes \in Seq(Byte) /\ Framed(recvBuff \o bytes, accepted, Len(delivered))
      BY <2>3, <2>4, ConcatProperties DEF OnTheirWay
    <3>2. Framed((recvBuff \o bytes) \o new, accepted', Len(delivered))
      BY <2>2, <2>3, <2>6, <3>1, FramedAppend
    <3>3. (recvBuff \o bytes) \o new = recvBuff \o (bytes \o new)
      BY <2>2, <2>3, <2>4, Associative, ZenonT(60)
    <3> QED BY <3>2, <3>3 DEF SendData
  <2>10. FramingInv'
    <3>1. OnTheirWay(bytes \o new)'
      BY <2>5, <2>8, <2>9 DEF OnTheirWay
    <3>2. Len(delivered') \in 0..Len(accepted')
      BY <2>3, <2>6, LenProperties DEF SendData
    <3> QED BY <2>5, <3>1, <3>2 DEF FramingInv
  <2> QED BY <1>2, <2>7, <2>10 DEF ConnInv
<1> QED BY <1>3, <1>4 DEF SendData

\* send() and recv() move bytes and change none.
LEMMA SendDataRealKeeps ==
  ASSUME ConnInv, NEW n \in 1..SendSize, SendDataReal(n) PROVE ConnInv'
<1>1. /\ sendBuff \in Seq(Byte) /\ wire \in Seq(Byte) /\ recvBuff \in Seq(Byte)
      /\ n \in 0..Len(sendBuff)
  BY LengthsPos, LenProperties DEF ConnInv, ConnTypeOK, SendDataReal
<1>2. /\ wire' \in Seq(Byte) /\ sendBuff' \in Seq(Byte)
      /\ wire' \o sendBuff' = wire \o sendBuff
  <2>1. wire \o Front(sendBuff, n) \in Seq(Byte) /\ DropFront(sendBuff, n) \in Seq(Byte)
    BY <1>1, MoveBytes
  <2>2. (wire \o Front(sendBuff, n)) \o DropFront(sendBuff, n) = wire \o sendBuff
    BY <1>1, MoveFront
  <2> QED BY <2>1, <2>2 DEF SendDataReal
<1>3. ConnTypeOK'
  BY <1>2 DEF ConnInv, ConnTypeOK, SendDataReal
<1>4. LoopInv'
  BY DEF ConnInv, LoopInv, SendDataReal, HasMsg, DataLength
<1>5. PICK bytes \in Seq(Byte) : OnTheirWay(bytes)
  BY DEF ConnInv, FramingInv
<1>6. OnTheirWay(bytes)'
  BY <1>2, <1>5 DEF OnTheirWay, SendDataReal
<1>7. FramingInv'
  BY <1>5, <1>6 DEF ConnInv, FramingInv, SendDataReal
<1> QED BY <1>3, <1>4, <1>7 DEF ConnInv

LEMMA RecvDataKeeps ==
  ASSUME ConnInv, NEW n \in 1..RecvSize, RecvData(n) PROVE ConnInv'
<1>1. /\ sendBuff \in Seq(Byte) /\ wire \in Seq(Byte) /\ recvBuff \in Seq(Byte)
      /\ n \in 0..Len(wire)
  BY LengthsPos, LenProperties DEF ConnInv, ConnTypeOK, RecvData
<1>2. /\ wire' \in Seq(Byte) /\ recvBuff' \in Seq(Byte)
      /\ recvBuff' \o (wire' \o sendBuff) = recvBuff \o (wire \o sendBuff)
      /\ wire' \o sendBuff \in Seq(Byte)
  <2>1. /\ recvBuff' \in Seq(Byte) /\ wire' \in Seq(Byte)
        /\ recvBuff' \o (wire' \o sendBuff) = recvBuff \o (wire \o sendBuff)
    BY <1>1, MoveBytes DEF RecvData
  <2> QED BY <1>1, <2>1, ConcatProperties
<1>3. ConnTypeOK'
  BY <1>2 DEF ConnInv, ConnTypeOK, RecvData
<1>4. LoopInv'
  BY DEF ConnInv, LoopInv, RecvData
<1>5. PICK bytes \in Seq(Byte) : OnTheirWay(bytes)
  BY DEF ConnInv, FramingInv
<1>6. OnTheirWay(wire \o sendBuff)'
  <2>1. bytes = wire \o sendBuff
    BY <1>5 DEF OnTheirWay, RecvData
  <2>2. Framed(recvBuff' \o (wire' \o sendBuff), accepted, Len(delivered))
    BY <1>2, <1>5, <2>1 DEF OnTheirWay
  <2>3. sendBuff' = sendBuff /\ accepted' = accepted /\ delivered' = delivered
    BY DEF RecvData
  <2> QED BY <1>2, <2>2, <2>3 DEF OnTheirWay
<1>7. FramingInv'
  <2>1. sendBuff' = sendBuff /\ accepted' = accepted /\ delivered' = delivered
    BY DEF RecvData
  <2>2. Len(delivered') \in 0..Len(accepted') /\ wire' \o sendBuff' \in Seq(Byte)
    BY <1>2, <2>1 DEF ConnInv, FramingInv
  <2> QED BY <1>6, <2>2 DEF FramingInv
<1> QED BY <1>3, <1>4, <1>7 DEF ConnInv

\* HandleMsg takes the next message that was accepted, and all of its bytes.
LEMMA HandleMsgTakesNext ==
  ASSUME ConnInv, HandleMsg
  PROVE  /\ Len(delivered) < Len(accepted)
         /\ delivered' = Append(delivered, accepted[Len(delivered) + 1])
         /\ DataLength(recvBuff) = accepted[Len(delivered) + 1].len
         /\ recvBuff[1].msg = accepted[Len(delivered) + 1].msg
         /\ \A k \in 1..DataLength(recvBuff) :
              recvBuff[k].msg = accepted[Len(delivered) + 1].msg /\ recvBuff[k].pos = k
         /\ ConnInv'
<1>1. /\ recvBuff \in Seq(Byte) /\ accepted \in Seq(Msg) /\ delivered \in Seq(Msg)
      /\ Len(delivered) \in 0..Len(accepted)
  BY DEF ConnInv, ConnTypeOK, FramingInv
<1>2. PICK bytes \in Seq(Byte) : OnTheirWay(bytes)
  BY DEF ConnInv, FramingInv
<1>3. PICK held \in Nat : held = Len(recvBuff) /\ held >= 1 /\ recvBuff[1].dataLength <= held
  <2>1. Len(recvBuff) \in Nat
    BY <1>1, LenProperties
  <2>2. Len(recvBuff) >= HeaderLen /\ recvBuff[1].dataLength <= Len(recvBuff)
    <3>1. Len(recvBuff) >= HeaderLen /\ Len(recvBuff) >= recvBuff[1].dataLength
      BY DEF HandleMsg, HasMsg, DataLength
    <3>2. recvBuff[1] \in Byte
      BY <2>1, <3>1, <1>1, HeaderLenPos, ElementOfSeq
    <3>3. recvBuff[1].dataLength \in Nat
      BY <3>2, LengthsPos DEF Byte
    <3> QED BY <2>1, <3>1, <3>3
  <2> QED BY <2>1, <2>2, HeaderLenPos
<1>4. PICK all \in Seq(Byte) :
        /\ all = recvBuff \o bytes /\ Len(all) > 0 /\ all[1] = recvBuff[1]
        /\ \A k \in 1..Len(recvBuff) : all[k] = recvBuff[k]
        /\ Framed(all, accepted, Len(delivered))
  <2>1. /\ recvBuff \o bytes \in Seq(Byte) /\ Len(recvBuff \o bytes) = Len(recvBuff) + Len(bytes)
        /\ \A k \in 1..Len(recvBuff) : (recvBuff \o bytes)[k] = recvBuff[k]
    BY <1>1, ConcatAt
  <2>2. Len(bytes) \in Nat
    BY LenProperties
  <2>3. Len(recvBuff \o bytes) > 0 /\ (recvBuff \o bytes)[1] = recvBuff[1]
    BY <1>3, <2>1, <2>2
  <2>4. Framed(recvBuff \o bytes, accepted, Len(delivered))
    BY <1>2 DEF OnTheirWay
  <2> QED BY <2>1, <2>3, <2>4, Zenon
<1>5. PICK d \in Nat : d = Len(delivered) /\ d \in 0..Len(accepted)
  BY <1>1, LenProperties
<1>6. /\ d + 1 \in 1..Len(accepted) /\ accepted[d + 1] \in Msg
      /\ all[1].msg = accepted[d + 1].msg /\ all[1].dataLength = accepted[d + 1].len
      /\ accepted[d + 1].len \in 0..Len(all)
      /\ \A k \in 1..accepted[d + 1].len :
           all[k] = [msg |-> accepted[d + 1].msg, dataLength |-> accepted[d + 1].len, pos |-> k]
      /\ Framed(DropFront(all, accepted[d + 1].len), accepted, d + 1)
  <2>1. Framed(all, accepted, d)
    BY <1>4, <1>5
  <2> QED BY <1>1, <1>4, <1>5, <2>1, FramedFront, ZenonT(60)
<1>7. Len(delivered) < Len(accepted)
  BY <1>1, <1>5, <1>6, LenProperties
<1>8. PICK size \in Nat : size = accepted[d + 1].len /\ size \in 0..held /\ DataLength(recvBuff) = size
  <2>1. accepted[d + 1].len \in Nat
    BY <1>6, MsgBytesType
  <2>2. recvBuff[1].dataLength = accepted[d + 1].len
    BY <1>4, <1>6
  <2> QED BY <1>3, <2>1, <2>2 DEF DataLength
<1>9. delivered' = Append(delivered, accepted[d + 1])
  <2>1. [msg |-> recvBuff[1].msg, len |-> DataLength(recvBuff)] = accepted[d + 1]
    <3>1. recvBuff[1].msg = accepted[d + 1].msg /\ DataLength(recvBuff) = accepted[d + 1].len
      BY <1>4, <1>6, <1>8
    <3> QED BY <1>6, <3>1 DEF Msg
  <2> QED BY <2>1 DEF HandleMsg
<1>10. /\ delivered' \in Seq(Msg) /\ Len(delivered') = d + 1
  BY <1>1, <1>5, <1>6, <1>9, AppendProperties
<1>11. recvBuff' \in Seq(Byte) /\ recvBuff' \o bytes = DropFront(all, size)
  <2>1. size \in 0..Len(recvBuff) /\ recvBuff' = DropFront(recvBuff, size)
    BY <1>3, <1>8 DEF HandleMsg
  <2>2. DropFront(recvBuff, size) \in Seq(Byte)
    BY <1>1, <2>1, FrontAndRest
  <2>3. DropFront(recvBuff \o bytes, size) = DropFront(recvBuff, size) \o bytes
    BY <1>1, <2>1, DropFrontOfConcat
  <2> QED BY <1>4, <2>1, <2>2, <2>3
<1>12. /\ sendBuff' = sendBuff /\ wire' = wire /\ phase' = phase /\ link' = link
       /\ calls' = calls /\ accepted' = accepted /\ phase = "msg"
  BY DEF HandleMsg
<1>13. ConnTypeOK'
  BY <1>10, <1>11, <1>12 DEF ConnInv, ConnTypeOK
<1>14. LoopInv'
  BY <1>12 DEF ConnInv, LoopInv
<1>15. OnTheirWay(bytes)'
  <2>1. Framed(recvBuff' \o bytes, accepted', Len(delivered'))
    BY <1>6, <1>8, <1>10, <1>11, <1>12
  <2> QED BY <1>2, <1>12, <2>1 DEF OnTheirWay
<1>16. Len(delivered') \in 0..Len(accepted')
  BY <1>6, <1>10, <1>12
<1>17. FramingInv'
  BY <1>15, <1>16 DEF FramingInv
<1>18. \A k \in 1..size : recvBuff[k].msg = accepted[d + 1].msg /\ recvBuff[k].pos = k
  <2>1. \A k \in 1..size : recvBuff[k] = all[k]
    BY <1>3, <1>4, <1>8
  <2>2. ASSUME NEW k \in 1..size PROVE all[k].msg = accepted[d + 1].msg /\ all[k].pos = k
    <3>1. k \in 1..accepted[d + 1].len
      BY <1>8
    <3>2. all[k] = [msg |-> accepted[d + 1].msg, dataLength |-> accepted[d + 1].len, pos |-> k]
      BY <1>6, <3>1
    <3> QED BY <3>2
  <2> QED BY <2>1, <2>2
<1>19. DataLength(recvBuff) = accepted[d + 1].len /\ recvBuff[1].msg = accepted[d + 1].msg
  BY <1>4, <1>6, <1>8
<1>20. ConnInv'
  BY <1>13, <1>14, <1>17 DEF ConnInv
<1> QED BY <1>5, <1>7, <1>8, <1>9, <1>18, <1>19, <1>20

\* DoMsgDone, a full receive buffer and a reset move nothing.
LEMMA OthersKeep ==
  ASSUME ConnInv, DoMsgDone \/ RecvFull \/ Reset \/ UNCHANGED vars PROVE ConnInv'
<1>1. /\ sendBuff' = sendBuff /\ recvBuff' = recvBuff /\ calls' = calls
      /\ accepted' = accepted /\ delivered' = delivered
  BY DEF DoMsgDone, RecvFull, Reset, vars
<1>2. /\ wire' = wire \/ wire' = <<>>
      /\ link' = "up" => link = "up" /\ wire' = wire
  BY DEF DoMsgDone, RecvFull, Reset, vars
<1>3. ConnTypeOK'
  <2>1. <<>> \in Seq(Byte)
    OBVIOUS
  <2> QED BY <1>1, <1>2, <2>1 DEF ConnInv, ConnTypeOK
<1>4. LoopInv'
  <2>1. CASE DoMsgDone
    BY <2>1 DEF DoMsgDone, ConnInv, LoopInv, HasMsg, DataLength
  <2>2. CASE RecvFull
    BY <2>2 DEF RecvFull, ConnInv, LoopInv, HasMsg, DataLength
  <2>3. CASE Reset
    BY <2>3 DEF Reset, ConnInv, LoopInv, HasMsg, DataLength
  <2>4. CASE UNCHANGED vars
    BY <2>4 DEF vars, ConnInv, LoopInv, HasMsg, DataLength
  <2> QED BY <2>1, <2>2, <2>3, <2>4
<1>5. PICK bytes \in Seq(Byte) : OnTheirWay(bytes)
  BY DEF ConnInv, FramingInv
<1>6. OnTheirWay(bytes)'
  BY <1>1, <1>2, <1>5 DEF OnTheirWay
<1>7. FramingInv'
  BY <1>1, <1>6 DEF ConnInv, FramingInv
<1> QED BY <1>3, <1>4, <1>7 DEF ConnInv

LEMMA ConnInductive == ConnInv /\ [ConnNext]_vars => ConnInv'
<1> SUFFICES ASSUME ConnInv, [ConnNext]_vars PROVE ConnInv'
  OBVIOUS
<1>1. CASE \E len \in Lengths : SendData(len, len)
  BY <1>1, SendDataKeeps
<1>2. CASE HandleMsg
  BY <1>2, HandleMsgTakesNext
<1>3. CASE \E n \in 1..SendSize : SendDataReal(n)
  BY <1>3, SendDataRealKeeps
<1>4. CASE \E n \in 1..RecvSize : RecvData(n)
  BY <1>4, RecvDataKeeps
<1>5. CASE DoMsgDone \/ RecvFull \/ Reset \/ UNCHANGED vars
  BY <1>5, OthersKeep
<1> QED BY <1>1, <1>2, <1>3, <1>4, <1>5 DEF ConnNext, Transfer

-----------------------------------------------------------------------------
(* Induction and recursion over 0..n, from the least counterexample.       *)

\* A nonempty set of numbers has a least element.
LEMMA NatMin ==
  ASSUME NEW T \in SUBSET Nat, T # {}
  PROVE  \E x \in T : \A y \in T : x <= y
<1>1. IsWellFoundedOn(OpToRel(<, Nat), Nat)
  BY NatLessThanWellFounded
<1>2. PICK x \in T : \A y \in T : ~ (<<y, x>> \in OpToRel(<, Nat))
  BY <1>1, WFMin
<1>3. ASSUME NEW y \in T PROVE x <= y
  <2>1. ~(y < x)
    <3>1. x \in Nat /\ y \in Nat /\ <<y, x>> \notin OpToRel(<, Nat)
      BY <1>2
    <3> QED BY <3>1 DEF OpToRel
  <2> QED BY <2>1
<1> QED BY <1>3

\* Induction, over a set of numbers in place of a predicate.
LEMMA Steps ==
  ASSUME NEW n \in Nat, NEW B, 0 \in B, \A m \in 0..(n - 1) : m \in B => m + 1 \in B
  PROVE  0..n \subseteq B
<1> DEFINE T == (0..n) \ B
<1> SUFFICES ASSUME T # {} PROVE FALSE
  OBVIOUS
<1>1. PICK x \in T : \A y \in T : x <= y
  <2>1. T \in SUBSET Nat
    OBVIOUS
  <2> HIDE DEF T
  <2> QED BY <2>1, NatMin
<1>2. x # 0 /\ x \in 1..n /\ x - 1 \in 0..(n - 1)
  OBVIOUS
<1>3. x - 1 \notin T
  BY <1>1, <1>2
<1>4. x - 1 \in B
  BY <1>2, <1>3
<1>5. x - 1 + 1 = x
  BY <1>2
<1>6. x - 1 + 1 \in B
  BY <1>2, <1>4
<1> QED BY <1>5, <1>6

\* Definition by recursion over 0..n
Defined(n, D, first, next) ==
  \E g \in [0..n -> D] : g[0] = first /\ \A i \in 1..n : g[i] = next[i][g[i - 1]]

LEMMA Recursion ==
  ASSUME NEW n \in Nat, NEW D, NEW first \in D, NEW next \in [1..n -> [D -> D]]
  PROVE  Defined(n, D, first, next)
<1> DEFINE Good(m, g) == g[0] = first /\ \A i \in 1..m : g[i] = next[i][g[i - 1]]
           B == {m \in 0..n : \E g \in [0..m -> D] : Good(m, g)}
<1>1. 0 \in B
  <2> DEFINE f == [i \in 0..0 |-> first]
  <2>1. f \in [0..0 -> D] /\ f[0] = first /\ 0 \in 0..n /\ 1..0 = {}
    OBVIOUS
  <2> HIDE DEF f
  <2> QED BY <2>1
<1>2. ASSUME NEW m \in 0..(n - 1), m \in B PROVE m + 1 \in B
  <2>1. PICK g \in [0..m -> D] : Good(m, g)
    BY <1>2
  <2>2. m \in 0..m /\ m + 1 \in 1..n /\ g[m] \in D
    OBVIOUS
  <2>3. PICK v \in D : v = next[m + 1][g[m]]
    BY <2>2
  <2>4. PICK h \in [0..(m + 1) -> D] : h[m + 1] = v /\ \A i \in 0..m : h[i] = g[i]
    <3> DEFINE f == [i \in 0..(m + 1) |-> IF i = m + 1 THEN v ELSE g[i]]
    <3>1. ASSUME NEW i \in 0..(m + 1), i # m + 1 PROVE i \in 0..m
      BY <3>1
    <3>2. f \in [0..(m + 1) -> D]
      BY <3>1
    <3>3. f[m + 1] = v /\ \A i \in 0..m : f[i] = g[i]
      OBVIOUS
    <3> HIDE DEF f
    <3> QED BY <3>2, <3>3
  <2>5. h[0] = first
    BY <2>1, <2>4
  <2>6. ASSUME NEW i \in 1..(m + 1) PROVE h[i] = next[i][h[i - 1]]
    <3>1. CASE i = m + 1
      <4>1. i - 1 = m
        BY <3>1
      <4> QED BY <2>2, <2>3, <2>4, <3>1, <4>1
    <3>2. CASE i # m + 1
      <4>1. i \in 1..m /\ i \in 0..m /\ i - 1 \in 0..m
        BY <3>2
      <4> QED BY <2>1, <2>4, <4>1
    <3> QED BY <3>1, <3>2
  <2> QED BY <2>2, <2>4, <2>5, <2>6
<1>3. n \in 0..n
  OBVIOUS
<1> HIDE DEF B
<1>4. n \in B
  BY <1>1, <1>2, <1>3, Steps
<1> QED BY <1>4 DEF B, Defined
-----------------------------------------------------------------------------
(* The bytes of a field.                                                   *)

StreamByte == [val : Int, part : Nat]

Field == {f \in [size : Nat \ {0}, vals : Seq(Int), array : BOOLEAN] : f.array \/ Len(f.vals) = 1}

\* What a write of the field appends.
Image(f) ==
  IF f.array THEN Encode(Len(f.vals), CountSize) \o Elements(f.vals, f.size)
  ELSE Encode(f.vals[1], f.size)

LEMMA EncodeBytes ==
  ASSUME NEW v \in Int, NEW n \in Nat
  PROVE  /\ Encode(v, n) \in Seq(StreamByte) /\ Len(Encode(v, n)) = n
         /\ \A k \in 1..n : Encode(v, n)[k] = [val |-> v, part |-> k]
<1>1. \A k \in 1..n : [val |-> v, part |-> k] \in StreamByte
  BY DEF StreamByte
<1> QED BY <1>1, IsASeq DEF Encode

LEMMA MultiplyMonotone ==
  ASSUME NEW n \in Nat, NEW a \in Nat, NEW b \in Nat, a <= b
  PROVE  a * n \in Nat /\ b * n \in Nat /\ a * n <= b * n
<1>1. PICK d \in Nat : b = a + d
  <2>1. b - a \in Nat /\ b = a + (b - a)
    OBVIOUS
  <2> QED BY <2>1
<1>2. b * n = a * n + d * n /\ a * n \in Nat /\ d * n \in Nat
  BY <1>1
<1> QED BY <1>2

\* The place of part k of element e, from one, among elements of n bytes.
LEMMA DivideUnique ==
  ASSUME NEW n \in Nat \ {0}, NEW q \in Nat, NEW r \in 0..(n - 1)
  PROVE  (q * n + r) \div n = q /\ (q * n + r) % n = r
<1> DEFINE x == q * n + r
           d == x \div n
           m == x % n
<1>1. x \in Nat /\ d \in Nat /\ m \in 0..(n - 1) /\ x = n * d + m
  <2>1. q * n \in Nat
    BY MultiplyMonotone
  <2>2. x \in Nat
    BY <2>1
  <2> HIDE DEF x
  <2> QED BY <2>2
<1> HIDE DEF d, m
<1>2. q * n + r = d * n + m
  BY <1>1
<1> HIDE DEF x
<1>3. ~(d <= q - 1)
  <2> SUFFICES ASSUME d + 1 <= q PROVE FALSE
    BY <1>1
  <2>1. (d + 1) * n <= q * n /\ q * n \in Nat /\ (d + 1) * n \in Nat
    BY <1>1, MultiplyMonotone
  <2>2. (d + 1) * n = d * n + n /\ d * n \in Nat
    BY <1>1
  <2> QED BY <1>1, <1>2, <2>1, <2>2
<1>4. ~(q + 1 <= d)
  <2> SUFFICES ASSUME q + 1 <= d PROVE FALSE
    OBVIOUS
  <2>1. (q + 1) * n <= d * n /\ d * n \in Nat /\ (q + 1) * n \in Nat
    BY <1>1, MultiplyMonotone
  <2>2. (q + 1) * n = q * n + n /\ q * n \in Nat
    OBVIOUS
  <2> QED BY <1>1, <1>2, <2>1, <2>2
<1>5. d = q
  BY <1>1, <1>3, <1>4
<1>6. m = r
  BY <1>1, <1>2, <1>5
<1> QED BY <1>5, <1>6 DEF d, m, x

LEMMA ElementsBytes ==
  ASSUME NEW vals \in Seq(Int), NEW n \in Nat \ {0}
  PROVE  /\ Elements(vals, n) \in Seq(StreamByte) /\ Len(Elements(vals, n)) = Len(vals) * n
         /\ Len(vals) * n \in Nat
         /\ \A e \in 1..Len(vals), k \in 1..n :
              /\ (e - 1) * n \in Nat /\ (e - 1) * n + k \in 1..(Len(vals) * n)
              /\ Elements(vals, n)[(e - 1) * n + k] = [val |-> vals[e], part |-> k]
<1>1. PICK count \in Nat : count = Len(vals)
  BY LenProperties
<1>2. count * n \in Nat
  BY MultiplyMonotone
<1>3. ASSUME NEW k \in 1..(count * n)
      PROVE  [val |-> vals[((k - 1) \div n) + 1], part |-> ((k - 1) % n) + 1] \in StreamByte
  <2>1. PICK x \in Nat : x = k - 1 /\ x < count * n
    <3>1. k - 1 \in Nat /\ k - 1 < count * n
      BY <1>2
    <3> QED BY <3>1
  <2>2. PICK q \in Nat, r \in 0..(n - 1) : q = x \div n /\ r = x % n /\ x = n * q + r
    <3>1. x \div n \in Nat /\ x % n \in 0..(n - 1) /\ x = n * (x \div n) + (x % n)
      OBVIOUS
    <3> QED BY <3>1
  <2>3. ~(count <= q)
    <3> SUFFICES ASSUME count <= q PROVE FALSE
      OBVIOUS
    <3>1. count * n <= q * n /\ q * n \in Nat
      BY MultiplyMonotone
    <3>2. n * q = q * n
      OBVIOUS
    <3> QED BY <1>2, <2>1, <2>2, <3>1, <3>2
  <2>4. q + 1 \in 1..Len(vals)
    BY <1>1, <2>3
  <2>5. vals[q + 1] \in Int
    BY <2>4, ElementOfSeq
  <2> QED BY <2>1, <2>2, <2>5 DEF StreamByte
<1>4. /\ Elements(vals, n) \in Seq(StreamByte) /\ Len(Elements(vals, n)) = count * n
      /\ \A k \in 1..(count * n) :
           Elements(vals, n)[k] = [val |-> vals[((k - 1) \div n) + 1], part |-> ((k - 1) % n) + 1]
  BY <1>1, <1>2, <1>3, IsASeq DEF Elements
<1>5. ASSUME NEW e \in 1..count, NEW k \in 1..n
      PROVE  /\ (e - 1) * n \in Nat /\ (e - 1) * n + k \in 1..(count * n)
             /\ Elements(vals, n)[(e - 1) * n + k] = [val |-> vals[e], part |-> k]
  <2>1. PICK q \in Nat : q = e - 1 /\ q + 1 = e /\ q + 1 <= count
    <3>1. e - 1 \in Nat /\ e - 1 + 1 = e /\ e - 1 + 1 <= count
      OBVIOUS
    <3> QED BY <3>1
  <2>2. PICK r \in 0..(n - 1) : r = k - 1 /\ r + 1 = k
    <3>1. k - 1 \in 0..(n - 1) /\ k - 1 + 1 = k
      OBVIOUS
    <3> QED BY <3>1
  <2>3. (q + 1) * n <= count * n /\ (q + 1) * n \in Nat
    BY <2>1, MultiplyMonotone
  <2>4. q * n \in Nat /\ (q + 1) * n = q * n + n
    BY MultiplyMonotone
  <2>5. PICK start \in Nat : start = q * n /\ start + n <= count * n
    BY <1>2, <2>3, <2>4
  <2>6. start + k \in 1..(count * n) /\ start + k - 1 = start + r
    BY <1>2, <2>2, <2>5
  <2>7. (start + r) \div n = q /\ (start + r) % n = r
    BY <2>5, DivideUnique
  <2>8. Elements(vals, n)[start + k] = [val |-> vals[q + 1], part |-> r + 1]
    <3>1. PICK j \in 1..(count * n) : j = start + k /\ j - 1 = start + r
      BY <2>6
    <3>2. (j - 1) \div n = q /\ (j - 1) % n = r
      BY <2>7, <3>1
    <3> QED BY <1>4, <3>1, <3>2
  <2> QED BY <2>1, <2>2, <2>5, <2>6, <2>8
<1> QED BY <1>1, <1>2, <1>4, <1>5

LEMMA ImageBytes ==
  ASSUME NEW f \in Field
  PROVE  /\ f.size \in Nat \ {0} /\ f.vals \in Seq(Int) /\ f.array \in BOOLEAN
         /\ Image(f) \in Seq(StreamByte) /\ Len(Image(f)) = FieldBytes(f) /\ FieldBytes(f) \in Nat
<1>1. /\ f.size \in Nat \ {0} /\ f.vals \in Seq(Int) /\ f.array \in BOOLEAN
      /\ f.array \/ Len(f.vals) = 1
  BY DEF Field
<1>2. Len(f.vals) \in Nat /\ Len(f.vals) \in Int /\ CountSize \in Nat
  BY <1>1, LenProperties, StreamSizesPos
<1>3. CASE f.array
  <2>1. PICK count \in Seq(StreamByte) : count = Encode(Len(f.vals), CountSize) /\ Len(count) = CountSize
    BY <1>2, EncodeBytes, ZenonT(60)
  <2>2. PICK els \in Seq(StreamByte) :
          els = Elements(f.vals, f.size) /\ Len(els) = Len(f.vals) * f.size /\ Len(els) \in Nat
    <3>1. PICK vals \in Seq(Int), n \in Nat \ {0} : vals = f.vals /\ n = f.size
      BY <1>1
    <3>2. /\ Elements(vals, n) \in Seq(StreamByte) /\ Len(Elements(vals, n)) = Len(vals) * n
          /\ Len(vals) * n \in Nat
      BY ElementsBytes
    <3> QED BY <3>1, <3>2, Zenon
  <2>3. count \o els \in Seq(StreamByte) /\ Len(count \o els) = Len(count) + Len(els)
    BY ConcatProperties
  <2>4. Image(f) = count \o els /\ FieldBytes(f) = Len(f.vals) * f.size + CountSize
    BY <1>3, <2>1, <2>2 DEF Image, FieldBytes
  <2> QED BY <1>1, <1>2, <2>1, <2>2, <2>3, <2>4
<1>4. CASE ~f.array
  <2>1. Len(f.vals) = 1 /\ f.vals[1] \in Int
    BY <1>1, <1>4, ElementOfSeq
  <2>2. Image(f) = Encode(f.vals[1], f.size) /\ FieldBytes(f) = f.size
    BY <1>1, <1>4, <2>1 DEF Image, FieldBytes
  <2>3. PICK v \in Int, n \in Nat \ {0} : v = f.vals[1] /\ n = f.size
    BY <1>1, <2>1
  <2>4. Encode(v, n) \in Seq(StreamByte) /\ Len(Encode(v, n)) = n
    BY EncodeBytes
  <2> QED BY <1>1, <2>2, <2>3, <2>4
<1> QED BY <1>1, <1>3, <1>4
-----------------------------------------------------------------------------
(* Writing.                                                                *)

Stream == [size : Nat, bytes : Seq(StreamByte), readPos : Int]

LEMMA StreamParts ==
  ASSUME NEW s \in Stream, NEW new \in Seq(StreamByte)
  PROVE  /\ s.bytes \in Seq(StreamByte) /\ Len(s.bytes) \in Nat /\ s.size \in Nat
         /\ s.bytes \o new \in Seq(StreamByte)
         /\ [s EXCEPT !.bytes = s.bytes \o new] \in Stream
<1>1. s.bytes \in Seq(StreamByte) /\ s.size \in Nat
  BY DEF Stream
<1>2. s.bytes \o new \in Seq(StreamByte) /\ Len(s.bytes) \in Nat
  BY <1>1, ConcatProperties, LenProperties
<1>3. ASSUME NEW b \in Seq(StreamByte) PROVE [s EXCEPT !.bytes = b] \in Stream
  BY DEF Stream
<1> QED BY <1>1, <1>2, <1>3

\* A write appends the image of the field where there is room for it.
LEMMA WriteAppends ==
  ASSUME NEW s \in Stream, NEW f \in Field
  PROVE  /\ WriteField(s, f) = IF CanWrite(s, FieldBytes(f))
                               THEN [s EXCEPT !.bytes = s.bytes \o Image(f)] ELSE s
         /\ WriteField(s, f) \in Stream
<1>1. /\ f.size \in Nat \ {0} /\ f.vals \in Seq(Int) /\ f.array \in BOOLEAN
      /\ Image(f) \in Seq(StreamByte)
  BY ImageBytes
<1>2. WriteField(s, f) = IF CanWrite(s, FieldBytes(f))
                         THEN [s EXCEPT !.bytes = s.bytes \o Image(f)] ELSE s
  <2>1. CASE f.array
    <3>1. PICK count \in Seq(StreamByte) : count = Encode(Len(f.vals), CountSize)
      <4>1. Len(f.vals) \in Int /\ CountSize \in Nat
        BY <1>1, LenProperties, StreamSizesPos
      <4> QED BY <4>1, EncodeBytes, ZenonT(60)
    <3>2. PICK els \in Seq(StreamByte) : els = Elements(f.vals, f.size)
      BY <1>1, ElementsBytes
    <3>3. (s.bytes \o count) \o els = s.bytes \o (count \o els)
      <4>1. PICK b \in Seq(StreamByte) : b = s.bytes
        BY DEF Stream
      <4>2. (b \o count) \o els = b \o (count \o els)
        BY ConcatAssociative, SMTT(30)
      <4> QED BY <4>1, <4>2, Zenon
    <3>4. Image(f) = count \o els /\ FieldBytes(f) = Len(f.vals) * f.size + CountSize
      BY <2>1, <3>1, <3>2 DEF Image, FieldBytes
    <3>5. WriteField(s, f) = IF CanWrite(s, FieldBytes(f))
                             THEN [s EXCEPT !.bytes = (s.bytes \o count) \o els] ELSE s
      BY <2>1, <3>1, <3>2, <3>4 DEF WriteField, WriteArray
    <3> QED BY <3>3, <3>4, <3>5
  <2>2. CASE ~f.array
    <3>1. Len(f.vals) = 1
      BY <2>2 DEF Field
    <3>2. Image(f) = Encode(f.vals[1], f.size) /\ FieldBytes(f) = f.size
      BY <1>1, <2>2, <3>1 DEF Image, FieldBytes
    <3> QED BY <2>2, <3>2 DEF WriteField, Write
  <2> QED BY <1>1, <2>1, <2>2
<1> QED BY <1>1, <1>2, StreamParts

LEMMA WriteTyped ==
  ASSUME NEW s \in Stream, NEW v \in Int, NEW n \in Nat
  PROVE  /\ Write(s, v, n) \in Stream
         /\ CanWrite(s, n) => /\ Write(s, v, n).size = s.size
                              /\ Len(Write(s, v, n).bytes) = Len(s.bytes) + n
<1>1. PICK new \in Seq(StreamByte) : new = Encode(v, n) /\ Len(new) = n
  BY EncodeBytes
<1>2. /\ [s EXCEPT !.bytes = s.bytes \o new] \in Stream /\ s.bytes \in Seq(StreamByte)
  BY StreamParts
<1>3. Len(s.bytes \o new) = Len(s.bytes) + Len(new)
  BY <1>2, ConcatProperties
<1>4. Write(s, v, n) = IF CanWrite(s, n) THEN [s EXCEPT !.bytes = s.bytes \o new] ELSE s
  BY <1>1 DEF Write
<1>5. s.size = s.size /\ [s EXCEPT !.bytes = s.bytes \o new].size = s.size
      /\ [s EXCEPT !.bytes = s.bytes \o new].bytes = s.bytes \o new
  BY DEF Stream
<1> QED BY <1>1, <1>2, <1>3, <1>4, <1>5

\* The length and the command find room.
LEMMA HeaderWritten ==
  ASSUME NEW nSize \in Nat, nSize >= HeaderLen, NEW cmd \in Nat
  PROVE  LET s == SetNetCmd(NewWriteStream(nSize), cmd)
         IN  s \in Stream /\ s.size = nSize /\ Len(s.bytes) = LenSize + CmdSize
<1> DEFINE empty == [size |-> nSize, bytes |-> <<>>, readPos |-> 0]
<1>1. LenSize \in Nat /\ CmdSize \in Nat /\ nSize >= LenSize + CmdSize
  BY StreamSizesPos, HeaderIsLenCmd
<1>2. empty \in Stream /\ empty.size = nSize /\ Len(empty.bytes) = 0
  BY DEF Stream
<1>3. CanWrite(empty, LenSize)
  BY <1>1, <1>2 DEF CanWrite
<1> HIDE DEF empty
<1>4. PICK s1 \in Stream : /\ s1 = Write(empty, 0, LenSize)
                           /\ s1.size = nSize /\ Len(s1.bytes) = LenSize
  BY <1>1, <1>2, <1>3, WriteTyped
<1>5. CanWrite(s1, CmdSize)
  BY <1>1, <1>4 DEF CanWrite
<1>6. /\ Write(s1, cmd, CmdSize) \in Stream /\ Write(s1, cmd, CmdSize).size = nSize
      /\ Len(Write(s1, cmd, CmdSize).bytes) = LenSize + CmdSize
  BY <1>1, <1>4, <1>5, WriteTyped
<1> QED BY <1>4, <1>6 DEF SetNetCmd, NewWriteStream, empty
-----------------------------------------------------------------------------
(* The recursive functions over the fields have a value.                   *)

LEMMA WrittenSteps ==
  ASSUME NEW nSize \in Nat, nSize >= HeaderLen, NEW cmd \in Nat, NEW fields \in Seq(Field)
  PROVE  \E s \in [0..Len(fields) -> Stream] :
           /\ s[0] = SetNetCmd(NewWriteStream(nSize), cmd)
           /\ \A i \in 1..Len(fields) : s[i] = WriteField(s[i - 1], fields[i])
           /\ Written(nSize, cmd, fields) = Finish(s[Len(fields)])
<1> DEFINE n == Len(fields)
           first == SetNetCmd(NewWriteStream(nSize), cmd)
           R(s) == s = [i \in 0..n |-> IF i = 0 THEN first ELSE WriteField(s[i - 1], fields[i])]
           s == CHOOSE s : R(s)
           next == [i \in 1..n |-> [t \in Stream |-> WriteField(t, fields[i])]]
<1>1. n \in Nat /\ \A i \in 1..n : fields[i] \in Field
  BY LenProperties, ElementOfSeq
<1>2. first \in Stream
  BY HeaderWritten
<1>3. Written(nSize, cmd, fields) = Finish(s[n])
  BY Zenon DEF Written
<1> HIDE DEF n, first
<1>4. next \in [1..n -> [Stream -> Stream]]
  BY <1>1, WriteAppends
<1>5. PICK g \in [0..n -> Stream] :
        g[0] = first /\ \A i \in 1..n : g[i] = WriteField(g[i - 1], fields[i])
  <2> HIDE DEF next
  <2>1. PICK g \in [0..n -> Stream] : g[0] = first /\ \A i \in 1..n : g[i] = next[i][g[i - 1]]
    <3>1. Defined(n, Stream, first, next)
      BY <1>1, <1>2, <1>4, Recursion
    <3> QED BY <3>1 DEF Defined
  <2>2. ASSUME NEW i \in 1..n PROVE g[i] = WriteField(g[i - 1], fields[i])
    <3>1. i - 1 \in 0..n
      BY <1>1
    <3>2. g[i - 1] \in Stream
      BY <3>1
    <3>3. next[i] = [t \in Stream |-> WriteField(t, fields[i])]
      BY DEF next
    <3> QED BY <2>1, <3>2, <3>3
  <2> QED BY <2>1, <2>2
<1>6. R(s)
  <2>1. R(g)
    <3>1. ASSUME NEW i \in 0..n
          PROVE  g[i] = IF i = 0 THEN first ELSE WriteField(g[i - 1], fields[i])
      <4>1. i = 0 \/ i \in 1..n
        BY <1>1
      <4> QED BY <1>5, <4>1
    <3>2. g = [i \in 0..n |-> g[i]]
      OBVIOUS
    <3> QED BY <3>1, <3>2
  <2> HIDE DEF R
  <2> QED BY <2>1, Zenon
<1> HIDE DEF s
<1>7. /\ s[0] = first /\ \A i \in 1..n : s[i] = WriteField(s[i - 1], fields[i])
      /\ s = [i \in 0..n |-> s[i]]
  <2>1. 0 \in 0..n /\ \A i \in 1..n : i \in 0..n /\ i # 0
    BY <1>1
  <2> QED BY <1>6, <2>1
<1>8. \A i \in 0..n : s[i] \in Stream
  <2> DEFINE B == {i \in 0..n : s[i] \in Stream}
  <2>1. 0 \in B
    BY <1>1, <1>2, <1>7
  <2>2. ASSUME NEW i \in 0..(n - 1), i \in B PROVE i + 1 \in B
    <3>1. i + 1 \in 1..n /\ i + 1 - 1 = i /\ i + 1 \in 0..n
      BY <1>1
    <3>2. s[i + 1] = WriteField(s[i], fields[i + 1])
      <4>1. PICK j \in 1..n : j = i + 1 /\ j - 1 = i
        BY <3>1
      <4>2. s[j] = WriteField(s[j - 1], fields[j])
        BY <1>7
      <4> QED BY <4>1, <4>2
    <3>3. WriteField(s[i], fields[i + 1]) \in Stream
      BY <1>1, <2>2, <3>1, WriteAppends
    <3> QED BY <3>1, <3>2, <3>3
  <2> HIDE DEF B
  <2>3. 0..n \subseteq B
    BY <1>1, <2>1, <2>2, Steps
  <2> QED BY <2>3 DEF B
<1>9. s \in [0..n -> Stream]
  BY <1>7, <1>8
<1> QED BY <1>3, <1>7, <1>9 DEF n, first

\* Where the fields end if all of them are written.
LEMMA EndSteps ==
  ASSUME NEW nSize \in Nat, NEW fields \in Seq(Field)
  PROVE  \E end \in [0..Len(fields) -> Nat] :
           /\ end[0] = LenSize + CmdSize
           /\ \A i \in 1..Len(fields) : end[i] = end[i - 1] + FieldBytes(fields[i])
           /\ AllWritten(nSize, fields) <=> end[Len(fields)] <= nSize
<1> DEFINE n == Len(fields)
           first == LenSize + CmdSize
           R(e) == e = [i \in 0..n |-> IF i = 0 THEN first ELSE e[i - 1] + FieldBytes(fields[i])]
           end == CHOOSE e : R(e)
           next == [i \in 1..n |-> [e \in Nat |-> e + FieldBytes(fields[i])]]
<1>1. n \in Nat /\ \A i \in 1..n : FieldBytes(fields[i]) \in Nat
  BY LenProperties, ElementOfSeq, ImageBytes
<1>2. first \in Nat
  BY StreamSizesPos
<1>3. AllWritten(nSize, fields) <=> end[n] <= nSize
  BY Zenon DEF AllWritten
<1> HIDE DEF n, first
<1>4. next \in [1..n -> [Nat -> Nat]]
  BY <1>1
<1>5. PICK g \in [0..n -> Nat] :
        g[0] = first /\ \A i \in 1..n : g[i] = g[i - 1] + FieldBytes(fields[i])
  <2> HIDE DEF next
  <2>1. PICK g \in [0..n -> Nat] : g[0] = first /\ \A i \in 1..n : g[i] = next[i][g[i - 1]]
    <3>1. Defined(n, Nat, first, next)
      BY <1>1, <1>2, <1>4, Recursion
    <3> QED BY <3>1 DEF Defined
  <2>2. ASSUME NEW i \in 1..n PROVE g[i] = g[i - 1] + FieldBytes(fields[i])
    <3>1. i - 1 \in 0..n
      BY <1>1
    <3>2. g[i - 1] \in Nat
      BY <3>1
    <3>3. next[i] = [e \in Nat |-> e + FieldBytes(fields[i])]
      BY DEF next
    <3> QED BY <2>1, <3>2, <3>3
  <2> QED BY <2>1, <2>2
<1>6. R(end)
  <2>1. R(g)
    <3>1. ASSUME NEW i \in 0..n
          PROVE  g[i] = IF i = 0 THEN first ELSE g[i - 1] + FieldBytes(fields[i])
      <4>1. i = 0 \/ i \in 1..n
        BY <1>1
      <4> QED BY <1>5, <4>1
    <3>2. g = [i \in 0..n |-> g[i]]
      OBVIOUS
    <3> QED BY <3>1, <3>2
  <2> HIDE DEF R
  <2> QED BY <2>1, Zenon
<1> HIDE DEF end
<1>7. /\ end[0] = first /\ \A i \in 1..n : end[i] = end[i - 1] + FieldBytes(fields[i])
      /\ end = [i \in 0..n |-> end[i]]
  <2>1. 0 \in 0..n /\ \A i \in 1..n : i \in 0..n /\ i # 0
    BY <1>1
  <2> QED BY <1>6, <2>1
<1>8. \A i \in 0..n : end[i] \in Nat
  <2> DEFINE B == {i \in 0..n : end[i] \in Nat}
  <2>1. 0 \in B
    BY <1>1, <1>2, <1>7
  <2>2. ASSUME NEW i \in 0..(n - 1), i \in B PROVE i + 1 \in B
    <3>1. i + 1 \in 1..n /\ i + 1 - 1 = i /\ i + 1 \in 0..n
      BY <1>1
    <3>2. end[i + 1] = end[i] + FieldBytes(fields[i + 1]) /\ FieldBytes(fields[i + 1]) \in Nat
      <4>1. PICK j \in 1..n : j = i + 1 /\ j - 1 = i
        BY <3>1
      <4>2. end[j] = end[j - 1] + FieldBytes(fields[j]) /\ FieldBytes(fields[j]) \in Nat
        BY <1>1, <1>7
      <4> QED BY <4>1, <4>2
    <3> QED BY <2>2, <3>1, <3>2
  <2> HIDE DEF B
  <2>3. 0..n \subseteq B
    BY <1>1, <2>1, <2>2, Steps
  <2> QED BY <2>3 DEF B
<1>9. end \in [0..n -> Nat]
  BY <1>7, <1>8
<1> QED BY <1>3, <1>7, <1>9 DEF n, first
-----------------------------------------------------------------------------
(* Where a written field lies.                                             *)

\* The bytes are a header and the images of the fields; field i lies between
\* end[i - 1] and end[i].
LaidOut(end, bytes, fields) ==
  /\ end \in [0..Len(fields) -> Nat]
  /\ bytes \in Seq(StreamByte)
  /\ end[0] = LenSize + CmdSize /\ end[0] <= Len(bytes)
  /\ \A i \in 1..Len(fields) :
       /\ end[i] = end[i - 1] + FieldBytes(fields[i]) /\ end[i] <= Len(bytes)
       /\ \A k \in 1..FieldBytes(fields[i]) : bytes[end[i - 1] + k] = Image(fields[i])[k]

\* finish writes the length, and changes no byte after it.
LEMMA FinishBytes ==
  ASSUME NEW s \in Stream
  PROVE  /\ Finish(s).bytes \in Seq(StreamByte) /\ Len(Finish(s).bytes) = Len(s.bytes)
         /\ \A k \in 1..Len(s.bytes) : k > LenSize => Finish(s).bytes[k] = s.bytes[k]
         /\ Len(s.bytes) >= LenSize =>
              \A k \in 1..LenSize : Finish(s).bytes[k] = [val |-> Len(s.bytes) % LengthMod, part |-> k]
<1>1. PICK b \in Seq(StreamByte) : b = s.bytes
  BY DEF Stream
<1>2. PICK n \in Nat : n = Len(b) /\ DOMAIN b = 1..n
  BY LenProperties
<1>3. PICK length \in Seq(StreamByte) :
        /\ length = Encode(n % LengthMod, LenSize) /\ Len(length) = LenSize
        /\ \A k \in 1..LenSize : length[k] = [val |-> n % LengthMod, part |-> k]
  <2>1. n % LengthMod \in Int /\ LenSize \in Nat
    BY StreamSizesPos
  <2> QED BY <2>1, EncodeBytes
<1> DEFINE f == [k \in 1..n |-> IF k <= LenSize THEN length[k] ELSE b[k]]
<1>4. Finish(s).bytes = f
  <2>1. Finish(s) = [s EXCEPT !.bytes = f]
    BY <1>1, <1>2, <1>3 DEF Finish
  <2> QED BY <2>1 DEF Stream
<1>5. \A k \in 1..n : f[k] \in StreamByte
  <2>1. \A k \in 1..n : b[k] \in StreamByte
    BY <1>2, ElementOfSeq
  <2>2. \A k \in 1..LenSize : length[k] \in StreamByte
    BY <1>3, ElementOfSeq
  <2> QED BY <2>1, <2>2, StreamSizesPos
<1>6. f \in Seq(StreamByte) /\ Len(f) = n
  BY <1>5, IsASeq
<1>7. \A k \in 1..n : k > LenSize => f[k] = b[k]
  BY StreamSizesPos
<1>8. n >= LenSize => \A k \in 1..LenSize : f[k] = [val |-> n % LengthMod, part |-> k]
  BY <1>3, StreamSizesPos
<1> QED BY <1>1, <1>2, <1>4, <1>6, <1>7, <1>8

LEMMA WrittenLaidOut ==
  ASSUME NEW nSize \in Nat, nSize >= HeaderLen, NEW cmd \in Nat, NEW fields \in Seq(Field),
         AllWritten(nSize, fields)
  PROVE  \E end : LaidOut(end, Written(nSize, cmd, fields).bytes, fields)
<1>1. PICK n \in Nat : n = Len(fields) /\ \A i \in 1..n : fields[i] \in Field
  BY LenProperties, ElementOfSeq
<1>2. PICK s \in [0..n -> Stream] :
        /\ s[0] = SetNetCmd(NewWriteStream(nSize), cmd)
        /\ \A i \in 1..n : s[i] = WriteField(s[i - 1], fields[i])
        /\ Written(nSize, cmd, fields) = Finish(s[n])
  BY <1>1, WrittenSteps
<1>3. PICK end \in [0..n -> Nat] :
        /\ end[0] = LenSize + CmdSize
        /\ \A i \in 1..n : end[i] = end[i - 1] + FieldBytes(fields[i])
        /\ end[n] <= nSize
  <2>1. PICK end \in [0..n -> Nat] :
          /\ end[0] = LenSize + CmdSize
          /\ \A i \in 1..n : end[i] = end[i - 1] + FieldBytes(fields[i])
          /\ AllWritten(nSize, fields) <=> end[n] <= nSize
    BY <1>1, EndSteps
  <2> QED BY <2>1
<1>4. LenSize \in Nat /\ CmdSize \in Nat
  BY StreamSizesPos
<1>5. ASSUME NEW i \in 0..(n - 1)
      PROVE  /\ i + 1 \in 1..n /\ i + 1 \in 0..n /\ i \in 0..n /\ fields[i + 1] \in Field
             /\ s[i + 1] = WriteField(s[i], fields[i + 1]) /\ s[i] \in Stream
             /\ end[i + 1] = end[i] + FieldBytes(fields[i + 1])
             /\ FieldBytes(fields[i + 1]) \in Nat /\ end[i] \in Nat /\ end[i + 1] \in Nat
  <2>1. PICK j \in 1..n : j = i + 1 /\ j - 1 = i /\ i \in 0..n /\ j \in 0..n
    <3>1. i + 1 \in 1..n /\ i + 1 - 1 = i /\ i \in 0..n /\ i + 1 \in 0..n
      OBVIOUS
    <3> QED BY <3>1
  <2>2. s[j] = WriteField(s[j - 1], fields[j]) /\ end[j] = end[j - 1] + FieldBytes(fields[j])
    BY <1>2, <1>3
  <2>3. fields[j] \in Field /\ FieldBytes(fields[j]) \in Nat
    BY <1>1, ImageBytes
  <2> QED BY <2>1, <2>2, <2>3
<1>6. \A i, j \in 0..n : i <= j => end[i] <= end[j]
  <2> DEFINE B == {j \in 0..n : \A i \in 0..j : end[i] <= end[j]}
  <2>1. 0 \in B
    OBVIOUS
  <2>2. ASSUME NEW j \in 0..(n - 1), j \in B PROVE j + 1 \in B
    <3>1. end[j] <= end[j + 1]
      BY <1>5
    <3>2. ASSUME NEW i \in 0..(j + 1) PROVE end[i] <= end[j + 1]
      <4>1. CASE i = j + 1
        BY <1>5, <4>1
      <4>2. CASE i # j + 1
        <5>1. i \in 0..j /\ i \in 0..n
          BY <4>2
        <5>2. end[i] <= end[j] /\ end[i] \in Nat
          BY <2>2, <5>1
        <5>3. end[j] \in Nat /\ end[j + 1] \in Nat
          BY <1>5
        <5> QED BY <3>1, <5>2, <5>3
      <4> QED BY <4>1, <4>2
    <3> QED BY <1>5, <3>2
  <2> HIDE DEF B
  <2>3. 0..n \subseteq B
    BY <2>1, <2>2, Steps
  <2> QED BY <2>3 DEF B
<1>7. \A i \in 0..n : end[i] \in Nat /\ end[i] <= end[n] /\ end[i] <= nSize
  <2>1. n \in 0..n
    OBVIOUS
  <2> QED BY <1>3, <1>6, <2>1
<1> DEFINE Holds(bytes, m) ==
             \A i \in 1..m : \A k \in 1..FieldBytes(fields[i]) :
                bytes[end[i - 1] + k] = Image(fields[i])[k]
           Filled(m) == s[m].size = nSize /\ Len(s[m].bytes) = end[m] /\ Holds(s[m].bytes, m)
           B == {m \in 0..n : Filled(m)}
<1>8. 0 \in B
  <2>1. s[0].size = nSize /\ Len(s[0].bytes) = end[0]
    <3>1. /\ SetNetCmd(NewWriteStream(nSize), cmd).size = nSize
          /\ Len(SetNetCmd(NewWriteStream(nSize), cmd).bytes) = LenSize + CmdSize
      BY HeaderWritten
    <3> QED BY <1>2, <1>3, <3>1
  <2> QED BY <2>1
<1>9. ASSUME NEW m \in 0..(n - 1), m \in B PROVE m + 1 \in B
  <2>1. PICK f \in Field, size \in Nat : f = fields[m + 1] /\ size = FieldBytes(f)
    BY <1>5
  <2>2. PICK old \in Seq(StreamByte), image \in Seq(StreamByte) :
          old = s[m].bytes /\ image = Image(f) /\ Len(image) = size
    BY <1>5, <2>1, ImageBytes, StreamParts
  <2>3. PICK start \in Nat : start = end[m] /\ Len(old) = start
    BY <1>5, <1>9, <2>2
  <2>4. end[m + 1] = start + size /\ start + size <= nSize
    BY <1>5, <1>7, <2>1, <2>3
  <2>5. PICK new \in Seq(StreamByte) :
          /\ new = old \o image /\ Len(new) = start + size
          /\ \A k \in 1..(start + size) : new[k] = IF k <= start THEN old[k] ELSE image[k - start]
    <3>1. /\ old \o image \in Seq(StreamByte) /\ Len(old \o image) = Len(old) + Len(image)
          /\ \A k \in 1..(Len(old) + Len(image)) :
               (old \o image)[k] = IF k <= Len(old) THEN old[k] ELSE image[k - Len(old)]
      BY ConcatProperties
    <3>2. PICK new \in Seq(StreamByte) :
            /\ new = old \o image /\ Len(new) = Len(old) + Len(image)
            /\ \A k \in 1..(Len(old) + Len(image)) :
                 new[k] = IF k <= Len(old) THEN old[k] ELSE image[k - Len(old)]
      BY <3>1, Zenon
    <3>3. /\ Len(new) = start + size
          /\ \A k \in 1..(start + size) : new[k] = IF k <= start THEN old[k] ELSE image[k - start]
      BY <2>2, <2>3, <3>2
    <3> QED BY <3>2, <3>3, Zenon
  <2>6. s[m + 1].size = nSize /\ s[m + 1].bytes = new
    <3>1. CanWrite(s[m], FieldBytes(f))
      <4>1. s[m].size = nSize /\ Len(s[m].bytes) = start
        BY <1>9, <2>2, <2>3
      <4>2. nSize - start >= size
        BY <2>4
      <4> QED BY <2>1, <4>1, <4>2 DEF CanWrite
    <3>2. s[m + 1] = [s[m] EXCEPT !.bytes = new]
      BY <1>5, <2>1, <2>2, <2>5, <3>1, WriteAppends
    <3> QED BY <1>5, <1>9, <3>2 DEF Stream
  <2>7. ASSUME NEW i \in 1..(m + 1), NEW k \in 1..FieldBytes(fields[i])
        PROVE  new[end[i - 1] + k] = Image(fields[i])[k]
    <3>1. CASE i = m + 1
      <4>1. i - 1 = m /\ fields[i] = f /\ k \in 1..size
        BY <2>1, <3>1
      <4>2. PICK j \in 1..(start + size) : j = start + k /\ ~(j <= start) /\ j - start = k
        BY <4>1
      <4>3. new[j] = image[k]
        BY <2>5, <4>2
      <4> QED BY <2>2, <2>3, <4>1, <4>2, <4>3
    <3>2. CASE i # m + 1
      <4>1. PICK j \in 0..(n - 1) : j = i - 1 /\ j + 1 = i /\ i \in 1..m /\ j + 1 <= m
        <5>1. i - 1 \in 0..(n - 1) /\ i - 1 + 1 = i /\ i \in 1..m /\ i - 1 + 1 <= m
          BY <3>2
        <5> QED BY <5>1
      <4>2. PICK low \in Nat, len \in Nat : low = end[j] /\ len = FieldBytes(fields[i]) /\ end[i] = low + len
        BY <1>5, <4>1
      <4>3. low + len <= start
        <5>1. i \in 0..n /\ m \in 0..n /\ i <= m
          BY <4>1
        <5> QED BY <1>6, <2>3, <4>2, <5>1
      <4>4. low + k \in 1..(start + size) /\ low + k <= start
        <5>1. k \in 1..len
          BY <4>2
        <5> QED BY <4>3, <5>1
      <4>5. new[low + k] = old[low + k]
        BY <2>5, <4>4
      <4>6. old[low + k] = Image(fields[i])[k]
        BY <1>9, <2>2, <4>1, <4>2
      <4> QED BY <4>1, <4>2, <4>5, <4>6
    <3> QED BY <3>1, <3>2
  <2> QED BY <1>5, <2>4, <2>5, <2>6, <2>7
<1> HIDE DEF B
<1>10. n \in B
  <2>1. 0..n \subseteq B
    BY <1>8, <1>9, Steps
  <2> QED BY <2>1
<1>11. s[n].size = nSize /\ Len(s[n].bytes) = end[n] /\ Holds(s[n].bytes, n)
  BY <1>10 DEF B
<1>12. PICK bytes \in Seq(StreamByte) :
         /\ bytes = Written(nSize, cmd, fields).bytes /\ Len(bytes) = end[n]
         /\ \A k \in 1..end[n] : k > LenSize => bytes[k] = s[n].bytes[k]
  <2>1. s[n] \in Stream
    OBVIOUS
  <2> QED BY <1>2, <1>11, <2>1, FinishBytes
<1>13. ASSUME NEW i \in 1..n, NEW k \in 1..FieldBytes(fields[i])
       PROVE  bytes[end[i - 1] + k] = Image(fields[i])[k]
  <2>1. PICK j \in 0..(n - 1) : j = i - 1 /\ j + 1 = i
    <3>1. i - 1 \in 0..(n - 1) /\ i - 1 + 1 = i
      OBVIOUS
    <3> QED BY <3>1
  <2>2. PICK low \in Nat, len \in Nat : low = end[j] /\ len = FieldBytes(fields[i]) /\ end[i] = low + len
    BY <1>5, <2>1
  <2>3. low >= LenSize /\ low + len <= end[n] /\ end[n] \in Nat
    <3>1. end[0] <= end[j] /\ end[i] <= end[n]
      <4>1. 0 \in 0..n /\ j \in 0..n /\ i \in 0..n /\ n \in 0..n /\ 0 <= j /\ i <= n
        OBVIOUS
      <4> QED BY <1>6, <4>1
    <3> QED BY <1>3, <1>4, <2>2, <3>1
  <2>4. low + k \in 1..end[n] /\ low + k > LenSize
    <3>1. k \in 1..len
      BY <2>2
    <3> QED BY <1>4, <2>3, <3>1
  <2>5. bytes[low + k] = s[n].bytes[low + k]
    BY <1>12, <2>4
  <2>6. s[n].bytes[low + k] = Image(fields[i])[k]
    BY <1>11, <2>1, <2>2
  <2> QED BY <2>1, <2>2, <2>5, <2>6
<1>14. LaidOut(end, bytes, fields)
  <2>1. \A i \in 0..n : end[i] <= Len(bytes)
    BY <1>7, <1>12
  <2> QED BY <1>1, <1>3, <1>13, <2>1 DEF LaidOut
<1> QED BY <1>12, <1>14
-----------------------------------------------------------------------------
(* The steps of StreamConnection are steps of the connection.              *)

LEMMA ContentsAreFields == \A fields \in Contents : fields \in Seq(Field)
<1> SUFFICES ASSUME NEW fields \in Contents PROVE fields \in Seq(Field)
  OBVIOUS
<1>1. /\ fields \in Seq([size : Nat \ {0}, vals : Seq(Int), array : BOOLEAN])
      /\ \A i \in DOMAIN fields : fields[i].array \/ Len(fields[i].vals) = 1
  BY ContentsTyped
<1>2. Len(fields) \in Nat /\ DOMAIN fields = 1..Len(fields)
  BY <1>1, LenProperties
<1>3. \A i \in 1..Len(fields) : fields[i] \in Field
  BY <1>1, <1>2, ElementOfSeq DEF Field
<1>4. fields = [i \in 1..Len(fields) |-> fields[i]]
  BY <1>1, <1>2
<1> QED BY <1>2, <1>3, <1>4, IsASeq

\* A stream holds its header and is never longer than its size.
LEMMA WrittenFits ==
  ASSUME NEW nSize \in Nat, nSize >= HeaderLen, NEW cmd \in Nat, NEW fields \in Seq(Field)
  PROVE  \E s \in Stream : /\ Written(nSize, cmd, fields) = Finish(s)
                           /\ Len(s.bytes) \in LenSize..nSize
<1>1. PICK n \in Nat : n = Len(fields) /\ \A i \in 1..n : fields[i] \in Field
  BY LenProperties, ElementOfSeq
<1>2. PICK s \in [0..n -> Stream] :
        /\ s[0] = SetNetCmd(NewWriteStream(nSize), cmd)
        /\ \A i \in 1..n : s[i] = WriteField(s[i - 1], fields[i])
        /\ Written(nSize, cmd, fields) = Finish(s[n])
  BY <1>1, WrittenSteps
<1>3. LenSize \in Nat /\ CmdSize \in Nat /\ nSize >= LenSize + CmdSize
  BY StreamSizesPos, HeaderIsLenCmd
<1> DEFINE Fit(m) == s[m].size = nSize /\ Len(s[m].bytes) \in LenSize..nSize
           B == {m \in 0..n : Fit(m)}
<1>4. 0 \in B
  <2>1. s[0].size = nSize /\ Len(s[0].bytes) = LenSize + CmdSize
    <3>1. /\ SetNetCmd(NewWriteStream(nSize), cmd).size = nSize
          /\ Len(SetNetCmd(NewWriteStream(nSize), cmd).bytes) = LenSize + CmdSize
      BY HeaderWritten
    <3> QED BY <1>2, <3>1
  <2> QED BY <1>3, <2>1
<1>5. ASSUME NEW m \in 0..(n - 1), m \in B PROVE m + 1 \in B
  <2>1. PICK j \in 1..n : j = m + 1 /\ j - 1 = m /\ j \in 0..n
    <3>1. m + 1 \in 1..n /\ m + 1 - 1 = m /\ m + 1 \in 0..n
      OBVIOUS
    <3> QED BY <3>1
  <2>2. PICK t \in Stream, f \in Field, size \in Nat :
          t = s[m] /\ f = fields[j] /\ size = FieldBytes(f) /\ s[j] = WriteField(t, f)
    <3>1. s[j] = WriteField(s[j - 1], fields[j]) /\ fields[j] \in Field
      BY <1>1, <1>2
    <3>2. FieldBytes(fields[j]) \in Nat
      BY <3>1, ImageBytes
    <3>3. s[m] \in Stream
      BY <2>1
    <3> QED BY <2>1, <3>1, <3>2, <3>3
  <2>3. PICK old \in Seq(StreamByte), image \in Seq(StreamByte) :
          old = t.bytes /\ image = Image(f) /\ Len(image) = size
    BY <2>2, ImageBytes, StreamParts
  <2>4. t.size = nSize /\ Len(old) \in LenSize..nSize
    BY <1>5, <2>2, <2>3
  <2>5. CASE CanWrite(t, size)
    <3>1. s[j] = [t EXCEPT !.bytes = old \o image]
      <4>1. WriteField(t, f) = IF CanWrite(t, FieldBytes(f))
                               THEN [t EXCEPT !.bytes = t.bytes \o Image(f)] ELSE t
        BY WriteAppends
      <4> QED BY <2>2, <2>3, <2>5, <4>1
    <3>2. s[j].size = nSize /\ s[j].bytes = old \o image
      BY <2>4, <3>1 DEF Stream
    <3>3. Len(old \o image) = Len(old) + size
      BY <2>3, ConcatProperties
    <3>4. Len(old) + size \in LenSize..nSize
      BY <1>3, <2>3, <2>4, <2>5 DEF CanWrite
    <3> QED BY <2>1, <3>2, <3>3, <3>4
  <2>6. CASE ~CanWrite(t, size)
    <3>1. s[j] = t
      BY <2>2, <2>6, WriteAppends
    <3> QED BY <2>1, <2>3, <2>4, <3>1
  <2> QED BY <2>5, <2>6
<1> HIDE DEF B
<1>6. n \in B
  <2>1. 0..n \subseteq B
    BY <1>4, <1>5, Steps
  <2> QED BY <2>1
<1>7. Len(s[n].bytes) \in LenSize..nSize /\ s[n] \in Stream
  BY <1>6 DEF B
<1> QED BY <1>2, <1>7

\* What a header of LenSize bytes holds.
LEMMA DecodeFront ==
  ASSUME NEW bytes \in Seq(StreamByte), NEW v, LenSize <= Len(bytes),
         \A k \in 1..LenSize : bytes[k] = [val |-> v, part |-> k]
  PROVE  Decode(Front(bytes, LenSize)) = v
<1>1. PICK b : b = Front(bytes, LenSize)
  OBVIOUS
<1>2. LenSize \in Nat \ {0} /\ Len(bytes) \in Nat /\ \A k \in 1..Len(bytes) : bytes[k] \in StreamByte
  BY StreamSizesPos, LenProperties, ElementOfSeq
<1>3. b \in Seq(StreamByte) /\ Len(b) = LenSize /\ \A k \in 1..LenSize : b[k] = bytes[k]
  <2>1. /\ 1 \in 1..(Len(bytes) + 1) /\ LenSize \in 0..Len(bytes)
        /\ LenSize - 1 + 1 = LenSize /\ \A k \in 1..LenSize : 1 + k - 1 = k
        /\ 1 <= LenSize + 1
    BY <1>2
  <2> QED BY <1>1, <1>2, <2>1, SubSeqProperties DEF Front
<1>4. DOMAIN b = 1..LenSize /\ 1 \in 1..LenSize
  BY <1>2, <1>3, LenProperties
<1>5. \A k \in 1..LenSize : b[k] = [val |-> v, part |-> k]
  BY <1>3
<1>6. b[1].val = v
  BY <1>4, <1>5
<1> QED BY <1>1, <1>4, <1>5, <1>6 DEF Decode

\* finish puts the true length of the stream into its header, because no
\* stream is as long as the field of the length can count.
LEMMA HeaderTellsLength ==
  ASSUME NEW cmd \in Nat, NEW fields \in Contents
  PROVE  LET bytes == Written(StreamSize, cmd, fields).bytes
         IN  bytes \in Seq(StreamByte) /\ Decode(Front(bytes, LenSize)) = Len(bytes)
<1>1. fields \in Seq(Field) /\ StreamSize \in Nat /\ StreamSize >= HeaderLen
  BY ContentsAreFields, ReaderSizes, StreamHoldsHeader
<1>2. PICK s \in Stream : /\ Written(StreamSize, cmd, fields) = Finish(s)
                          /\ Len(s.bytes) \in LenSize..StreamSize
  BY <1>1, WrittenFits
<1>3. PICK bytes \in Seq(StreamByte) :
        /\ bytes = Written(StreamSize, cmd, fields).bytes /\ Len(bytes) = Len(s.bytes)
        /\ \A k \in 1..LenSize : bytes[k] = [val |-> Len(s.bytes) % LengthMod, part |-> k]
  BY <1>2, FinishBytes
<1>4. Len(s.bytes) % LengthMod = Len(s.bytes)
  BY <1>1, <1>2, LengthsFit, StreamSizesPos
<1>5. Decode(Front(bytes, LenSize)) = Len(bytes)
  <2>1. PICK v : v = Len(bytes)
    OBVIOUS
  <2>2. LenSize <= Len(bytes) /\ \A k \in 1..LenSize : bytes[k] = [val |-> v, part |-> k]
    BY <1>2, <1>3, <1>4, <2>1, StreamSizesPos
  <2>3. Decode(Front(bytes, LenSize)) = v
    BY <2>2, DecodeFront
  <2> QED BY <2>1, <2>3
<1> QED BY <1>3, <1>5

LEMMA StreamStepIsConnStep == ConnTypeOK /\ [StreamNext]_allVars => [ConnNext]_vars
<1>1. ASSUME ConnTypeOK, NEW fields \in Contents, SendWriteStream(fields) PROVE ConnNext
  <2>1. PICK len, dataLength : /\ len = Len(Written(StreamSize, calls + 1, fields).bytes)
                               /\ dataLength = Decode(Front(Written(StreamSize, calls + 1, fields).bytes, LenSize))
                               /\ SendData(len, dataLength)
    BY <1>1 DEF SendWriteStream
  <2>2. calls + 1 \in 1..MaxMsgs /\ calls + 1 \in Nat
    BY <1>1, <2>1, LengthsPos DEF SendData, ConnTypeOK
  <2>3. dataLength = len
    BY <2>1, <2>2, HeaderTellsLength
  <2>4. len \in Lengths
    BY <2>1, <2>2, LengthsCover
  <2> QED BY <2>1, <2>3, <2>4 DEF ConnNext
<1>2. ASSUME ReadMsg PROVE ConnNext
  BY <1>2 DEF ReadMsg, ConnNext
<1>3. ASSUME UNCHANGED allVars PROVE UNCHANGED vars
  BY <1>3 DEF allVars
<1> QED BY <1>1, <1>2, <1>3 DEF StreamNext, ConnNext

LEMMA Inductive == StreamSpec => []ConnInv
<1>1. StreamInit => ConnInv
  BY ConnInitial DEF StreamInit
<1>2. ConnInv /\ [StreamNext]_allVars => ConnInv'
  <2>1. ConnInv => ConnTypeOK
    BY DEF ConnInv
  <2> QED BY <2>1, StreamStepIsConnStep, ConnInductive
<1> QED BY <1>1, <1>2, PTL DEF StreamSpec
-----------------------------------------------------------------------------
\* A receive buffer fills up between two receives only when the header at its
\* front promises a message that can never fit: only then does the server
\* take the peer for a broken socket, and only then is the client stopped.
THEOREM OnlyOversizeStopsIt == StreamSpec => []OnlyOversizeStops
<1>1. ConnInv => OnlyOversizeStops
  <2> SUFFICES ASSUME ConnInv, Full \/ link = "dropped"
               PROVE  recvBuff # <<>> /\ DataLength(recvBuff) > RecvSize
    BY DEF OnlyOversizeStops
  <2>1. recvBuff \in Seq(Byte) /\ ~HasMsg(recvBuff) /\ Len(recvBuff) = RecvSize
    BY DEF ConnInv, ConnTypeOK, LoopInv, Full
  <2>2. RecvSize \in Nat /\ RecvSize >= HeaderLen /\ RecvSize >= 1
    BY BufferHoldsHeader, SizesPos
  <2>3. ~(RecvSize >= DataLength(recvBuff))
    BY <2>1, <2>2 DEF HasMsg
  <2>4. recvBuff # <<>> /\ recvBuff[1] \in Byte
    BY <2>1, <2>2, ElementOfSeq
  <2>5. DataLength(recvBuff) \in Nat
    BY <2>4, LengthsPos DEF Byte, DataLength
  <2> QED BY <2>2, <2>3, <2>4, <2>5
<1> QED BY <1>1, Inductive, PTL

\* Whatever pieces send() and recv() make of the bytes, and wherever the
\* link breaks, OnNetMsg gets the messages that SendData accepted: each once,
\* in order, whole, and none that it refused.
THEOREM ImplementsChannel == StreamSpec => IsChannel
<1>1. Init => Channel!Init
  BY DEF Init, Channel!Init
<1>2. ConnInv /\ [ConnNext]_vars => [Channel!Next]_(Channel!vars)
  <2> SUFFICES ASSUME ConnInv, [ConnNext]_vars PROVE [Channel!Next]_(Channel!vars)
    OBVIOUS
  <2>1. ASSUME NEW len \in Lengths, SendData(len, len) PROVE [Channel!Next]_(Channel!vars)
    <3>1. [msg |-> calls + 1, len |-> len] \in Msg
      <4>1. calls + 1 \in 1..MaxMsgs
        BY <2>1, LengthsPos DEF ConnInv, ConnTypeOK, SendData
      <4> QED BY <4>1 DEF Msg
    <3>2. delivered' = delivered
      BY <2>1 DEF SendData
    <3>3. \/ accepted' = Append(accepted, [msg |-> calls + 1, len |-> len])
          \/ accepted' = accepted
      BY <2>1 DEF SendData
    <3> QED BY <3>1, <3>2, <3>3 DEF Channel!Next, Channel!Accept, Channel!vars
  <2>2. CASE HandleMsg
    <3>1. /\ Len(delivered) < Len(accepted) /\ accepted' = accepted
          /\ delivered' = Append(delivered, accepted[Len(delivered) + 1])
      BY <2>2, HandleMsgTakesNext DEF HandleMsg
    <3> QED BY <3>1 DEF Channel!Next, Channel!Deliver
  <2>3. CASE Transfer \/ DoMsgDone \/ RecvFull \/ Reset \/ UNCHANGED vars
    <3>1. UNCHANGED <<accepted, delivered>>
      BY <2>3 DEF Transfer, SendDataReal, RecvData, DoMsgDone, RecvFull, Reset, vars
    <3> QED BY <3>1 DEF Channel!vars
  <2> QED BY <2>1, <2>2, <2>3 DEF ConnNext
<1>3. StreamInit => Channel!Init
  BY <1>1 DEF StreamInit
<1>4. ConnInv /\ [StreamNext]_allVars => [Channel!Next]_(Channel!vars)
  <2>1. ConnInv => ConnTypeOK
    BY DEF ConnInv
  <2> QED BY <1>2, <2>1, StreamStepIsConnStep
<1> QED BY <1>3, <1>4, Inductive, PTL DEF StreamSpec, IsChannel, Channel!Safe
-----------------------------------------------------------------------------
(* Reading.                                                                *)

At(bytes, p) == [size |-> Len(bytes), bytes |-> bytes, readPos |-> p]

LEMMA AtParts ==
  ASSUME NEW bytes, NEW p
  PROVE  /\ At(bytes, p).bytes = bytes /\ At(bytes, p).readPos = p
         /\ \A n : Pop(At(bytes, p), n) = At(bytes, p + n)
BY DEF At, Pop

LEMMA ReadAt ==
  ASSUME NEW bytes, NEW p, NEW n
  PROVE  Read(At(bytes, p), n) =
           IF Len(bytes) - p >= n
           THEN [stream |-> At(bytes, p + n), vals |-> <<Decode(Peek(At(bytes, p), 0, n))>>]
           ELSE [stream |-> At(bytes, p), vals |-> <<Garbage>>]
<1>1. CanRead(At(bytes, p), n) <=> Len(bytes) - p >= n
  BY AtParts DEF CanRead
<1>2. Pop(At(bytes, p), n) = At(bytes, p + n)
  BY AtParts
<1> QED BY <1>1, <1>2 DEF Read

\* A read moves the position and nothing else.
LEMMA ReadMoves ==
  ASSUME NEW bytes, NEW p \in Int, NEW f \in Field, NEW cap \in Nat
  PROVE  \E q \in Int : ReadField(At(bytes, p), f, cap).stream = At(bytes, q)
<1>1. f.size \in Nat /\ CountSize \in Nat
  BY ImageBytes, StreamSizesPos
<1>2. CASE ~f.array
  <2>1. ReadField(At(bytes, p), f, cap) = Read(At(bytes, p), f.size)
    BY <1>2 DEF ReadField
  <2>2. \/ Read(At(bytes, p), f.size).stream = At(bytes, p)
        \/ Read(At(bytes, p), f.size).stream = At(bytes, p + f.size)
    BY ReadAt
  <2> QED BY <1>1, <2>1, <2>2
<1>3. CASE f.array
  <2> DEFINE count == OnlyRead(At(bytes, p), CountSize)
  <2>1. ReadField(At(bytes, p), f, cap) = ReadArray(At(bytes, p), f.size, cap)
    BY <1>3 DEF ReadField
  <2>2. \/ ReadArray(At(bytes, p), f.size, cap).stream = At(bytes, p)
        \/ /\ count \in 0..cap
           /\ ReadArray(At(bytes, p), f.size, cap).stream =
                Pop(Pop(At(bytes, p), CountSize), count * f.size)
    BY DEF ReadArray
  <2> HIDE DEF count
  <2>3. Pop(Pop(At(bytes, p), CountSize), count * f.size) = At(bytes, p + CountSize + count * f.size)
    BY AtParts
  <2>4. count \in 0..cap => p + CountSize + count * f.size \in Int
    BY <1>1
  <2> QED BY <2>1, <2>2, <2>3, <2>4
<1> QED BY <1>2, <1>3

LEMMA NewReadStreamAt ==
  ASSUME NEW bytes \in Seq(StreamByte)
  PROVE  /\ \E q \in Int : NewReadStream(bytes) = At(bytes, q)
         /\ LenSize + CmdSize <= Len(bytes) => NewReadStream(bytes) = At(bytes, LenSize + CmdSize)
<1>1. Len(bytes) \in Nat /\ LenSize \in Nat /\ CmdSize \in Nat
  BY LenProperties, StreamSizesPos
<1>2. NewReadStream(bytes) = Read(Read(At(bytes, 0), LenSize).stream, CmdSize).stream
  BY DEF NewReadStream, GetNetCmd, At
<1>3. PICK p \in Int : /\ Read(At(bytes, 0), LenSize).stream = At(bytes, p)
                       /\ LenSize <= Len(bytes) => p = LenSize
  <2>1. Read(At(bytes, 0), LenSize).stream =
          IF Len(bytes) - 0 >= LenSize THEN At(bytes, 0 + LenSize) ELSE At(bytes, 0)
    BY ReadAt
  <2> QED BY <1>1, <2>1
<1>4. Read(At(bytes, p), CmdSize).stream =
        IF Len(bytes) - p >= CmdSize THEN At(bytes, p + CmdSize) ELSE At(bytes, p)
  BY ReadAt
<1> QED BY <1>1, <1>2, <1>3, <1>4

LEMMA ReadSteps ==
  ASSUME NEW bytes \in Seq(StreamByte), NEW fields \in Seq(Field), NEW cap \in Nat
  PROVE  \E step :
           /\ step[0].stream = NewReadStream(bytes)
           /\ \A i \in 1..Len(fields) : step[i] = ReadField(step[i - 1].stream, fields[i], cap)
           /\ \A i \in 1..Len(fields) : ReadAll(bytes, fields, cap)[i] = step[i].vals
<1> DEFINE n == Len(fields)
           first == [stream |-> NewReadStream(bytes), vals |-> <<>>]
           R(s) == s = [i \in 0..n |-> IF i = 0 THEN first
                                       ELSE ReadField(s[i - 1].stream, fields[i], cap)]
           step == CHOOSE s : R(s)
           Position(s) == CHOOSE q \in Int : s = At(bytes, q)
           next == [i \in 1..n |-> [p \in Int |->
                      Position(ReadField(At(bytes, p), fields[i], cap).stream)]]
<1>1. n \in Nat /\ \A i \in 1..n : fields[i] \in Field
  BY LenProperties, ElementOfSeq
<1>2. PICK start \in Int : NewReadStream(bytes) = At(bytes, start)
  BY NewReadStreamAt
<1>3. ReadAll(bytes, fields, cap) = [i \in 1..n |-> step[i].vals]
  BY Zenon DEF ReadAll
<1> HIDE DEF n
<1>4. ASSUME NEW i \in 1..n, NEW p \in Int
      PROVE  /\ Position(ReadField(At(bytes, p), fields[i], cap).stream) \in Int
             /\ ReadField(At(bytes, p), fields[i], cap).stream =
                  At(bytes, Position(ReadField(At(bytes, p), fields[i], cap).stream))
  <2>1. PICK q \in Int : ReadField(At(bytes, p), fields[i], cap).stream = At(bytes, q)
    BY <1>1, ReadMoves
  <2> QED BY <2>1
<1> HIDE DEF Position
<1>5. next \in [1..n -> [Int -> Int]]
  BY <1>4
<1>6. PICK g \in [0..n -> Int] :
        /\ g[0] = start
        /\ \A i \in 1..n : ReadField(At(bytes, g[i - 1]), fields[i], cap).stream = At(bytes, g[i])
  <2> HIDE DEF next
  <2>1. PICK g \in [0..n -> Int] : g[0] = start /\ \A i \in 1..n : g[i] = next[i][g[i - 1]]
    <3>1. Defined(n, Int, start, next)
      BY <1>1, <1>5, Recursion
    <3> QED BY <3>1 DEF Defined
  <2>2. ASSUME NEW i \in 1..n
        PROVE  ReadField(At(bytes, g[i - 1]), fields[i], cap).stream = At(bytes, g[i])
    <3>1. i - 1 \in 0..n
      BY <1>1
    <3>2. PICK p \in Int : p = g[i - 1]
      BY <3>1
    <3>3. g[i] = Position(ReadField(At(bytes, p), fields[i], cap).stream)
      BY <2>1, <3>2 DEF next
    <3> QED BY <1>4, <3>2, <3>3
  <2> QED BY <2>1, <2>2
<1>7. R(step)
  <2> DEFINE h == [i \in 0..n |-> IF i = 0 THEN first
                                  ELSE ReadField(At(bytes, g[i - 1]), fields[i], cap)]
  <2>1. \A i \in 0..n : h[i].stream = At(bytes, g[i])
    <3> SUFFICES ASSUME NEW i \in 0..n PROVE h[i].stream = At(bytes, g[i])
      OBVIOUS
    <3>1. CASE i = 0
      BY <1>2, <1>6, <3>1
    <3>2. CASE i # 0
      <4>1. i \in 1..n
        BY <1>1, <3>2
      <4>2. h[i] = ReadField(At(bytes, g[i - 1]), fields[i], cap)
        BY <3>2
      <4> QED BY <1>6, <4>1, <4>2
    <3> QED BY <3>1, <3>2
  <2>2. ASSUME NEW i \in 0..n
        PROVE  h[i] = IF i = 0 THEN first ELSE ReadField(h[i - 1].stream, fields[i], cap)
    <3>1. CASE i = 0
      BY <3>1
    <3>2. CASE i # 0
      <4>1. i - 1 \in 0..n
        BY <1>1, <3>2
      <4>2. h[i] = ReadField(At(bytes, g[i - 1]), fields[i], cap)
        BY <3>2
      <4>3. h[i - 1].stream = At(bytes, g[i - 1])
        BY <2>1, <4>1
      <4> HIDE DEF h
      <4> QED BY <3>2, <4>2, <4>3
    <3> QED BY <3>1, <3>2
  <2>3. h = [i \in 0..n |-> h[i]]
    OBVIOUS
  <2> HIDE DEF h, first
  <2>4. R(h)
    BY <2>2, <2>3
  <2> HIDE DEF R
  <2> QED BY <2>4, Zenon
<1> HIDE DEF step
<1>8. \A i \in 0..n : step[i] = IF i = 0 THEN first ELSE ReadField(step[i - 1].stream, fields[i], cap)
  <2> HIDE DEF first
  <2> QED BY <1>7
<1>9. step[0].stream = NewReadStream(bytes)
  BY <1>1, <1>8
<1>10. \A i \in 1..n : step[i] = ReadField(step[i - 1].stream, fields[i], cap)
  BY <1>1, <1>8
<1> QED BY <1>3, <1>9, <1>10 DEF n

\* The n bytes of the value v follow the first start bytes.
ValueAt(bytes, start, v, n) == \A k \in 1..n : bytes[start + k] = [val |-> v, part |-> k]

\* A value whose bytes lie where they are looked for is read.
LEMMA ValueRead ==
  ASSUME NEW bytes \in Seq(StreamByte), NEW p \in Nat, NEW skip \in Nat, NEW n \in Nat \ {0}, NEW v,
         NEW start \in Nat, start = p + skip, start + n <= Len(bytes),
         ValueAt(bytes, start, v, n)
  PROVE  Decode(Peek(At(bytes, p), skip, n)) = v
<1>2. PICK b : b = SubSeq(bytes, start + 1, start + n)
  OBVIOUS
<1>3. Peek(At(bytes, p), skip, n) = b
  BY <1>2, AtParts DEF Peek
<1>4. Len(bytes) \in Nat /\ \A k \in 1..Len(bytes) : bytes[k] \in StreamByte
  BY LenProperties, ElementOfSeq
<1>5. b \in Seq(StreamByte) /\ Len(b) = n /\ \A k \in 1..n : b[k] = bytes[start + k]
  <2>1. /\ start + 1 \in 1..(Len(bytes) + 1) /\ start + n \in 0..Len(bytes)
        /\ (start + n) - (start + 1) + 1 = n /\ \A k \in 1..n : start + 1 + k - 1 = start + k
        /\ start + 1 <= start + n + 1
    BY <1>4
  <2> QED BY <1>2, <1>4, <2>1, SubSeqProperties
<1>6. DOMAIN b = 1..n /\ 1 \in 1..n
  BY <1>5, LenProperties
<1>7. \A k \in 1..n : b[k] = [val |-> v, part |-> k]
  BY <1>5 DEF ValueAt
<1>8. b[1].val = v
  BY <1>6, <1>7
<1> QED BY <1>3, <1>6, <1>7, <1>8 DEF Decode

\* The images of one value, and of an array.
LEMMA ImageOfValue ==
  ASSUME NEW f \in Field, ~f.array
  PROVE  /\ FieldBytes(f) = f.size /\ f.vals = <<f.vals[1]>> /\ f.vals[1] \in Int
         /\ \A k \in 1..f.size : Image(f)[k] = [val |-> f.vals[1], part |-> k]
<1>1. f.size \in Nat \ {0} /\ f.vals \in Seq(Int) /\ Len(f.vals) = 1
  BY DEF Field
<1>2. f.vals[1] \in Int
  BY <1>1, ElementOfSeq
<1>3. FieldBytes(f) = f.size
  BY <1>1 DEF FieldBytes
<1>4. PICK v \in Int, n \in Nat : v = f.vals[1] /\ n = f.size
  BY <1>1, <1>2
<1>5. \A k \in 1..n : Encode(v, n)[k] = [val |-> v, part |-> k]
  BY EncodeBytes
<1>6. f.vals = <<f.vals[1]>>
  <2>1. <<f.vals[1]>> \in Seq(Int) /\ Len(<<f.vals[1]>>) = 1 /\ <<f.vals[1]>>[1] = f.vals[1]
    BY <1>2
  <2> QED BY <1>1, <2>1, SeqEqual
<1> QED BY <1>2, <1>3, <1>4, <1>5, <1>6 DEF Image

LEMMA ImageOfArray ==
  ASSUME NEW f \in Field, f.array
  PROVE  /\ FieldBytes(f) = Len(f.vals) * f.size + CountSize /\ Len(f.vals) * f.size \in Nat
         /\ \A k \in 1..CountSize : Image(f)[k] = [val |-> Len(f.vals), part |-> k]
         /\ \A e \in 1..Len(f.vals), k \in 1..f.size :
              /\ (e - 1) * f.size \in Nat /\ (e - 1) * f.size + k \in 1..(Len(f.vals) * f.size)
              /\ Image(f)[CountSize + ((e - 1) * f.size + k)] = [val |-> f.vals[e], part |-> k]
<1>1. PICK n \in Nat \ {0}, vals \in Seq(Int) : n = f.size /\ vals = f.vals
  BY DEF Field
<1>2. Len(vals) \in Nat /\ Len(vals) \in Int /\ CountSize \in Nat
  BY LenProperties, StreamSizesPos
<1>3. PICK count \in Seq(StreamByte) :
        /\ count = Encode(Len(vals), CountSize) /\ Len(count) = CountSize
        /\ \A k \in 1..CountSize : count[k] = [val |-> Len(vals), part |-> k]
  BY <1>2, EncodeBytes, ZenonT(60)
<1>4. PICK els \in Seq(StreamByte) :
        /\ els = Elements(vals, n) /\ Len(els) = Len(vals) * n /\ Len(vals) * n \in Nat
        /\ \A e \in 1..Len(vals), k \in 1..n :
             /\ (e - 1) * n \in Nat /\ (e - 1) * n + k \in 1..(Len(vals) * n)
             /\ els[(e - 1) * n + k] = [val |-> vals[e], part |-> k]
  BY ElementsBytes, ZenonT(60)
<1>5. PICK whole :
        /\ whole = count \o els
        /\ \A k \in 1..(Len(count) + Len(els)) :
             whole[k] = IF k <= Len(count) THEN count[k] ELSE els[k - Len(count)]
  BY ConcatProperties
<1>6. Image(f) = whole /\ FieldBytes(f) = Len(vals) * n + CountSize
  BY <1>1, <1>3, <1>4, <1>5 DEF Image, FieldBytes
<1>7. \A k \in 1..CountSize : whole[k] = [val |-> Len(vals), part |-> k]
  BY <1>2, <1>3, <1>4, <1>5
<1>8. ASSUME NEW j \in 1..(Len(vals) * n) PROVE whole[CountSize + j] = els[j]
  <2>1. PICK i \in 1..(Len(count) + Len(els)) : i = CountSize + j /\ ~(i <= Len(count)) /\ i - Len(count) = j
    BY <1>2, <1>3, <1>4
  <2> QED BY <1>5, <2>1
<1>9. ASSUME NEW e \in 1..Len(vals), NEW k \in 1..n
      PROVE  whole[CountSize + ((e - 1) * n + k)] = [val |-> vals[e], part |-> k]
  <2>1. PICK j \in 1..(Len(vals) * n) : j = (e - 1) * n + k
    BY <1>4
  <2>2. els[j] = [val |-> vals[e], part |-> k]
    BY <1>4, <2>1
  <2> QED BY <1>8, <2>1, <2>2
<1>10. \A e \in 1..Len(vals), k \in 1..n :
          /\ (e - 1) * n \in Nat /\ (e - 1) * n + k \in 1..(Len(vals) * n)
          /\ whole[CountSize + ((e - 1) * n + k)] = [val |-> vals[e], part |-> k]
  BY <1>4, <1>9, Zenon
<1>11. Image(f) = whole /\ FieldBytes(f) = Len(f.vals) * f.size + CountSize
       /\ Len(f.vals) * f.size \in Nat
  BY <1>1, <1>4, <1>6
<1> QED BY <1>1, <1>7, <1>10, <1>11

\* A field whose image lies at the position is read, and the position moves
\* to the end of it.
LEMMA FieldReadBack ==
  ASSUME NEW bytes \in Seq(StreamByte), NEW p \in Nat, NEW f \in Field, NEW cap \in Nat,
         f.array => Len(f.vals) <= cap,
         p + FieldBytes(f) <= Len(bytes),
         \A k \in 1..FieldBytes(f) : bytes[p + k] = Image(f)[k]
  PROVE  /\ ReadField(At(bytes, p), f, cap).stream = At(bytes, p + FieldBytes(f))
         /\ ReadField(At(bytes, p), f, cap).vals = f.vals
<1>1. Len(bytes) \in Nat /\ CountSize \in Nat \ {0}
  BY LenProperties, StreamSizesPos
<1>2. CASE ~f.array
  <2>1. PICK n \in Nat \ {0}, v \in Int : /\ n = f.size /\ n = FieldBytes(f) /\ f.vals = <<v>>
                                          /\ \A k \in 1..n : bytes[p + k] = [val |-> v, part |-> k]
    <3>1. f.size \in Nat \ {0}
      BY ImageBytes
    <3>2. /\ FieldBytes(f) = f.size /\ f.vals = <<f.vals[1]>> /\ f.vals[1] \in Int
          /\ \A k \in 1..f.size : Image(f)[k] = [val |-> f.vals[1], part |-> k]
      BY <1>2, ImageOfValue
    <3>3. \A k \in 1..f.size : bytes[p + k] = [val |-> f.vals[1], part |-> k]
      BY <3>2
    <3> QED BY <3>1, <3>2, <3>3, Zenon
  <2>2. Decode(Peek(At(bytes, p), 0, n)) = v
    <3>1. p + n <= Len(bytes) /\ 0 \in Nat /\ p = p + 0 /\ ValueAt(bytes, p, v, n)
      BY <2>1 DEF ValueAt
    <3> QED BY <3>1, ValueRead
  <2>3. Len(bytes) - p >= n
    BY <1>1, <2>1
  <2>4. ReadField(At(bytes, p), f, cap) = [stream |-> At(bytes, p + n), vals |-> <<v>>]
    <3>1. ReadField(At(bytes, p), f, cap) = Read(At(bytes, p), n)
      BY <1>2, <2>1 DEF ReadField
    <3> QED BY <2>2, <2>3, <3>1, ReadAt
  <2> QED BY <2>1, <2>4
<1>3. CASE f.array
  <2>1. PICK n \in Nat \ {0}, vals \in Seq(Int), len \in Nat, total \in Nat :
          /\ n = f.size /\ vals = f.vals /\ len = Len(vals) /\ len <= cap
          /\ total = len * n /\ FieldBytes(f) = total + CountSize
    <3>1. f.size \in Nat \ {0} /\ f.vals \in Seq(Int) /\ Len(f.vals) \in Nat
      BY ImageBytes, LenProperties
    <3> QED BY <1>3, <3>1, ImageOfArray
  <2>2. /\ \A k \in 1..CountSize : Image(f)[k] = [val |-> len, part |-> k]
        /\ \A e \in 1..len, k \in 1..n :
             /\ (e - 1) * n \in Nat /\ (e - 1) * n + k \in 1..total
             /\ Image(f)[CountSize + ((e - 1) * n + k)] = [val |-> vals[e], part |-> k]
    <3>1. \A k \in 1..CountSize : Image(f)[k] = [val |-> Len(f.vals), part |-> k]
      BY <1>3, ImageOfArray
    <3>2. \A e \in 1..Len(f.vals), k \in 1..f.size :
            /\ (e - 1) * f.size \in Nat /\ (e - 1) * f.size + k \in 1..(Len(f.vals) * f.size)
            /\ Image(f)[CountSize + ((e - 1) * f.size + k)] = [val |-> f.vals[e], part |-> k]
      BY <1>3, ImageOfArray, ZenonT(60)
    <3>3. n = f.size /\ vals = f.vals /\ len = Len(f.vals) /\ total = Len(f.vals) * f.size
      BY <2>1
    <3> QED BY <3>1, <3>2, <3>3, ZenonT(60)
  <2>3. p + (total + CountSize) <= Len(bytes)
    BY <2>1
  <2>4. OnlyRead(At(bytes, p), CountSize) = len
    <3>1. ValueAt(bytes, p, len, CountSize)
      <4>1. \A k \in 1..CountSize : k \in 1..FieldBytes(f)
        BY <1>1, <2>1
      <4> QED BY <2>2, <4>1 DEF ValueAt
    <3>2. p + CountSize <= Len(bytes) /\ 0 \in Nat /\ p = p + 0
      BY <1>1, <2>3
    <3>3. Decode(Peek(At(bytes, p), 0, CountSize)) = len
      BY <1>1, <3>1, <3>2, ValueRead
    <3>4. Len(bytes) - p >= CountSize
      BY <1>1, <3>2
    <3>5. Read(At(bytes, p), CountSize).vals = <<len>>
      BY <3>3, <3>4, ReadAt
    <3> QED BY <3>5 DEF OnlyRead
  <2>5. ASSUME NEW e \in 1..len
        PROVE  Decode(Peek(At(bytes, p), CountSize + (e - 1) * n, n)) = vals[e]
    <3>1. PICK before \in Nat, skip \in Nat, start \in Nat :
            before = (e - 1) * n /\ skip = CountSize + before /\ start = p + skip
      <4>1. 1 \in 1..n
        OBVIOUS
      <4>2. PICK before \in Nat : before = (e - 1) * n
        BY <2>2, <4>1
      <4>3. CountSize + before \in Nat /\ p + (CountSize + before) \in Nat
        BY <1>1
      <4> QED BY <4>2, <4>3
    <3>2. ASSUME NEW k \in 1..n
          PROVE  bytes[start + k] = [val |-> vals[e], part |-> k]
      <4>1. PICK j \in 1..total : j = before + k
        BY <2>2, <3>1
      <4>2. PICK i \in 1..(total + CountSize) : i = CountSize + j /\ p + i = start + k
        <5>1. CountSize + j \in 1..(total + CountSize) /\ p + (CountSize + j) = start + k
          <6>1. skip = CountSize + before /\ start = p + skip
            BY <3>1
          <6> QED BY <1>1, <4>1, <6>1
        <5> QED BY <5>1
      <4>3. bytes[p + i] = Image(f)[i]
        BY <2>1
      <4>4. Image(f)[i] = [val |-> vals[e], part |-> k]
        BY <2>2, <3>1, <4>1, <4>2
      <4> QED BY <4>2, <4>3, <4>4
    <3>3. start + n <= Len(bytes)
      <4>1. before + n \in 1..total
        <5>1. n \in 1..n
          OBVIOUS
        <5> QED BY <2>2, <3>1, <5>1
      <4>2. skip = CountSize + before /\ start = p + skip
        BY <3>1
      <4> QED BY <1>1, <2>3, <4>1, <4>2
    <3>4. start = p + skip /\ ValueAt(bytes, start, vals[e], n)
      BY <3>1, <3>2 DEF ValueAt
    <3>5. Decode(Peek(At(bytes, p), skip, n)) = vals[e]
      BY <3>3, <3>4, ValueRead
    <3> QED BY <3>1, <3>5
  <2>6. CanRead(At(bytes, p), len * n + CountSize)
    <3>1. Len(bytes) - p >= total + CountSize
      BY <1>1, <2>3
    <3> QED BY <2>1, <3>1, AtParts DEF CanRead
  <2>7. ReadField(At(bytes, p), f, cap) =
          [stream |-> Pop(Pop(At(bytes, p), CountSize), len * n),
           vals |-> [e \in 1..len |-> Decode(Peek(At(bytes, p), CountSize + (e - 1) * n, n))]]
    <3>1. ReadField(At(bytes, p), f, cap) = ReadArray(At(bytes, p), n, cap)
      BY <1>3, <2>1 DEF ReadField
    <3>2. len \in 0..cap
      BY <2>1
    <3> QED BY <2>4, <2>6, <3>1, <3>2 DEF ReadArray
  <2>8. Pop(Pop(At(bytes, p), CountSize), len * n) = At(bytes, p + FieldBytes(f))
    <3>1. Pop(Pop(At(bytes, p), CountSize), total) = At(bytes, p + CountSize + total)
      BY AtParts
    <3>2. p + CountSize + total = p + FieldBytes(f)
      BY <1>1, <2>1
    <3> QED BY <2>1, <3>1, <3>2
  <2>9. [e \in 1..len |-> Decode(Peek(At(bytes, p), CountSize + (e - 1) * n, n))] = vals
    <3>1. vals = [e \in 1..len |-> vals[e]]
      BY <2>1, LenProperties
    <3> QED BY <2>5, <3>1
  <2> QED BY <2>1, <2>7, <2>8, <2>9
<1> QED BY <1>2, <1>3

\* Reading what was laid out gives the fields, up to the first array the
\* reader has no room for.
LEMMA ReadLaidOut ==
  ASSUME NEW end, NEW bytes, NEW fields \in Seq(Field), LaidOut(end, bytes, fields),
         NEW i \in Readable(fields)
  PROVE  ReadAll(bytes, fields, ArrayCap)[i] = fields[i].vals
<1>1. PICK n \in Nat : /\ n = Len(fields) /\ DOMAIN fields = 1..n
                       /\ \A j \in 1..n : fields[j] \in Field
  BY LenProperties, ElementOfSeq
<1>2. ArrayCap \in Nat /\ bytes \in Seq(StreamByte) /\ Len(bytes) \in Nat
  BY ReaderSizes, LenProperties DEF LaidOut
<1>3. PICK step :
        /\ step[0].stream = NewReadStream(bytes)
        /\ \A j \in 1..n : step[j] = ReadField(step[j - 1].stream, fields[j], ArrayCap)
        /\ \A j \in 1..n : ReadAll(bytes, fields, ArrayCap)[j] = step[j].vals
  <2>1. PICK cap \in Nat : cap = ArrayCap
    BY <1>2
  <2>2. \E step :
          /\ step[0].stream = NewReadStream(bytes)
          /\ \A j \in 1..Len(fields) : step[j] = ReadField(step[j - 1].stream, fields[j], cap)
          /\ \A j \in 1..Len(fields) : ReadAll(bytes, fields, cap)[j] = step[j].vals
    BY <1>2, ReadSteps, ZenonT(30)
  <2> QED BY <1>1, <2>1, <2>2
<1>4. i \in 1..n /\ \A j \in 1..i : fields[j].array => Len(fields[j].vals) <= ArrayCap
  BY <1>1 DEF Readable
<1> DEFINE Arrived(j) == /\ step[j].stream = At(bytes, end[j])
                         /\ j # 0 => step[j].vals = fields[j].vals
           B == {j \in 0..i : Arrived(j)}
<1>5. 0 \in B
  <2>1. step[0].stream = At(bytes, end[0])
    BY <1>2, <1>3, NewReadStreamAt DEF LaidOut
  <2> QED BY <1>4, <2>1
<1>6. ASSUME NEW j \in 0..(i - 1), j \in B PROVE j + 1 \in B
  <2>1. PICK next \in 1..n : next = j + 1 /\ next - 1 = j /\ next \in 1..i /\ next \in 0..i /\ next # 0
    <3>1. j + 1 \in 1..n /\ j + 1 - 1 = j /\ j + 1 \in 1..i /\ j + 1 \in 0..i /\ j + 1 # 0
      BY <1>4
    <3> QED BY <3>1
  <2>2. PICK f \in Field : f = fields[next] /\ (f.array => Len(f.vals) <= ArrayCap)
    BY <1>1, <1>4, <2>1
  <2>3. PICK p \in Nat : p = end[j]
    <3>1. j \in 0..n
      BY <1>4
    <3> QED BY <1>1, <3>1 DEF LaidOut
  <2>4. /\ end[next] = p + FieldBytes(f) /\ end[next] <= Len(bytes)
        /\ \A k \in 1..FieldBytes(f) : bytes[p + k] = Image(f)[k]
    BY <1>1, <2>1, <2>2, <2>3 DEF LaidOut
  <2>5. /\ ReadField(At(bytes, p), f, ArrayCap).stream = At(bytes, p + FieldBytes(f))
        /\ ReadField(At(bytes, p), f, ArrayCap).vals = f.vals
    BY <1>2, <2>2, <2>4, FieldReadBack
  <2>6. step[next] = ReadField(At(bytes, p), f, ArrayCap)
    BY <1>3, <1>6, <2>1, <2>2, <2>3
  <2> QED BY <2>1, <2>2, <2>4, <2>5, <2>6
<1>7. i \in B
  <2> HIDE DEF B
  <2>1. i \in Nat /\ i \in 0..i
    BY <1>4
  <2>2. 0..i \subseteq B
    BY <1>5, <1>6, <2>1, Steps
  <2> QED BY <2>1, <2>2
<1> QED BY <1>3, <1>4, <1>7

\* What CellReadStream reads from the bytes of CellWriteStream is what was
\* written.
THEOREM RoundTrip ==
  ASSUME NEW fields \in Contents, NEW cmd \in Nat, AllWritten(StreamSize, fields),
         NEW i \in Readable(fields)
  PROVE  ReadAll(Written(StreamSize, cmd, fields).bytes, fields, ArrayCap)[i] = fields[i].vals
<1>1. fields \in Seq(Field) /\ StreamSize \in Nat /\ StreamSize >= HeaderLen
  BY ContentsAreFields, ReaderSizes, StreamHoldsHeader
<1>2. PICK end : LaidOut(end, Written(StreamSize, cmd, fields).bytes, fields)
  BY <1>1, WrittenLaidOut
<1> QED BY <1>1, <1>2, ReadLaidOut
-----------------------------------------------------------------------------
(* What was sent, and what was read.                                       *)

SentInv ==
  /\ contents \in Seq(Contents) /\ Len(contents) = calls
  /\ streams \in Seq(Seq(StreamByte)) /\ Len(streams) = calls
  /\ \A m \in 1..calls : streams[m] = Written(StreamSize, m, contents[m]).bytes
  /\ \A k \in 1..Len(accepted) : /\ accepted[k].msg \in 1..calls
                                 /\ accepted[k].len = Len(streams[accepted[k].msg])

ReadInv ==
  /\ \E S : got \in Seq(S)
  /\ Len(got) = Len(delivered)
  /\ \A k \in 1..Len(delivered) :
       /\ delivered[k].msg \in 1..calls
       /\ got[k] = ReadAll(streams[delivered[k].msg], contents[delivered[k].msg], ArrayCap)

StreamInv == ConnInv /\ SentInv /\ ReadInv

LEMMA StreamInitial == StreamInit => StreamInv
<1> SUFFICES ASSUME StreamInit PROVE StreamInv
  OBVIOUS
<1>1. ConnInv
  BY ConnInitial DEF StreamInit
<1>2. Len(<<>>) = 0 /\ <<>> \in Seq(Contents) /\ <<>> \in Seq(Seq(StreamByte)) /\ <<>> \in Seq({})
  OBVIOUS
<1>3. SentInv
  BY <1>2 DEF StreamInit, Init, SentInv
<1>4. ReadInv
  BY <1>2 DEF StreamInit, Init, ReadInv
<1> QED BY <1>1, <1>3, <1>4 DEF StreamInv

LEMMA SendWriteStreamKeeps ==
  ASSUME StreamInv, NEW fields \in Contents, SendWriteStream(fields)
  PROVE  SentInv' /\ ReadInv'
<1>1. PICK n \in Nat : n = calls /\ calls' = n + 1 /\ n + 1 \in Nat
  BY DEF StreamInv, ConnInv, ConnTypeOK, SendWriteStream, SendData
<1>2. PICK new \in Seq(StreamByte) :
        /\ new = Written(StreamSize, n + 1, fields).bytes
        /\ streams' = Append(streams, new) /\ SendData(Len(new), Len(new))
  <2>1. /\ Written(StreamSize, n + 1, fields).bytes \in Seq(StreamByte)
        /\ Decode(Front(Written(StreamSize, n + 1, fields).bytes, LenSize))
             = Len(Written(StreamSize, n + 1, fields).bytes)
    BY <1>1, HeaderTellsLength
  <2> QED BY <1>1, <2>1 DEF SendWriteStream
<1>3. /\ contents' \in Seq(Contents) /\ Len(contents') = n + 1 /\ contents'[n + 1] = fields
      /\ \A m \in 1..n : contents'[m] = contents[m]
  BY <1>1, AppendProperties DEF StreamInv, SentInv, SendWriteStream
<1>4. /\ streams' \in Seq(Seq(StreamByte)) /\ Len(streams') = n + 1 /\ streams'[n + 1] = new
      /\ \A m \in 1..n : streams'[m] = streams[m]
  <2>1. PICK old \in Seq(Seq(StreamByte)) : old = streams /\ Len(old) = n
    BY <1>1 DEF StreamInv, SentInv
  <2>2. /\ Append(old, new) \in Seq(Seq(StreamByte)) /\ Len(Append(old, new)) = Len(old) + 1
        /\ Append(old, new)[Len(old) + 1] = new
        /\ \A m \in 1..Len(old) : Append(old, new)[m] = old[m]
    BY AppendProperties
  <2> QED BY <1>2, <2>1, <2>2
<1>5. \A m \in 1..(n + 1) : streams'[m] = Written(StreamSize, m, contents'[m]).bytes
  <2> SUFFICES ASSUME NEW m \in 1..(n + 1)
               PROVE  streams'[m] = Written(StreamSize, m, contents'[m]).bytes
    OBVIOUS
  <2>1. CASE m = n + 1
    BY <1>2, <1>3, <1>4, <2>1
  <2>2. CASE m # n + 1
    <3>1. m \in 1..n
      BY <2>2
    <3>2. streams[m] = Written(StreamSize, m, contents[m]).bytes
      BY <1>1, <3>1 DEF StreamInv, SentInv
    <3> QED BY <1>3, <1>4, <3>1, <3>2
  <2> QED BY <2>1, <2>2
<1>6. ASSUME NEW k \in 1..Len(accepted')
      PROVE  accepted'[k].msg \in 1..(n + 1) /\ accepted'[k].len = Len(streams'[accepted'[k].msg])
  <2>1. accepted \in Seq(Msg) /\ [msg |-> n + 1, len |-> Len(new)] \in Msg
    <3>1. n + 1 \in 1..MaxMsgs
      BY <1>1, <1>2, LengthsPos DEF SendData
    <3>2. Len(new) \in Lengths
      BY <1>2, <3>1, LengthsCover
    <3> QED BY <3>1, <3>2 DEF Msg, StreamInv, ConnInv, ConnTypeOK
  <2>2. CASE k \in 1..Len(accepted) /\ accepted'[k] = accepted[k]
    <3>1. accepted[k].msg \in 1..n /\ accepted[k].len = Len(streams[accepted[k].msg])
      BY <1>1, <2>2 DEF StreamInv, SentInv
    <3> QED BY <1>4, <2>2, <3>1
  <2>3. CASE accepted'[k] = [msg |-> n + 1, len |-> Len(new)]
    BY <1>4, <2>3
  <2>4. CASE accepted' = accepted
    BY <2>2, <2>4
  <2>5. CASE accepted' = Append(accepted, [msg |-> n + 1, len |-> Len(new)])
    <3>1. /\ Len(accepted') = Len(accepted) + 1 /\ Len(accepted) \in Nat
          /\ accepted'[Len(accepted) + 1] = [msg |-> n + 1, len |-> Len(new)]
          /\ \A j \in 1..Len(accepted) : accepted'[j] = accepted[j]
      BY <2>1, <2>5, AppendProperties, LenProperties
    <3>2. k = Len(accepted) + 1 \/ k \in 1..Len(accepted)
      BY <3>1
    <3> QED BY <2>2, <2>3, <3>1, <3>2
  <2> QED BY <1>1, <1>2, <2>4, <2>5 DEF SendData
<1>7. SentInv'
  BY <1>1, <1>3, <1>4, <1>5, <1>6 DEF SentInv
<1>8. ReadInv'
  <2>1. delivered' = delivered /\ got' = got
    BY <1>2 DEF SendWriteStream, SendData
  <2>2. ASSUME NEW k \in 1..Len(delivered)
        PROVE  /\ delivered[k].msg \in 1..(n + 1)
               /\ got[k] = ReadAll(streams'[delivered[k].msg], contents'[delivered[k].msg], ArrayCap)
    <3>1. /\ delivered[k].msg \in 1..n
          /\ got[k] = ReadAll(streams[delivered[k].msg], contents[delivered[k].msg], ArrayCap)
      BY <1>1 DEF StreamInv, ReadInv
    <3> QED BY <1>3, <1>4, <3>1
  <2> QED BY <1>1, <2>1, <2>2 DEF StreamInv, ReadInv
<1> QED BY <1>7, <1>8

\* The bytes that are read are those of the message that is delivered.
LEMMA ReadMsgKeeps ==
  ASSUME StreamInv, ReadMsg
  PROVE  SentInv' /\ ReadInv'
<1>1. PICK d \in Nat : d = Len(delivered) /\ d + 1 \in 1..Len(accepted)
  BY HandleMsgTakesNext, LenProperties DEF StreamInv, ConnInv, ConnTypeOK, ReadMsg
<1>2. PICK m \in 1..calls, len \in Nat :
        /\ m = accepted[d + 1].msg /\ len = accepted[d + 1].len /\ len = Len(streams[m])
        /\ streams[m] \in Seq(StreamByte)
  <2>1. /\ accepted[d + 1].msg \in 1..calls
        /\ accepted[d + 1].len = Len(streams[accepted[d + 1].msg])
    BY <1>1 DEF StreamInv, SentInv
  <2>2. streams[accepted[d + 1].msg] \in Seq(StreamByte)
    BY <2>1, ElementOfSeq DEF StreamInv, SentInv
  <2> QED BY <2>1, <2>2, LenProperties
<1>3. /\ delivered' = Append(delivered, accepted[d + 1])
      /\ DataLength(recvBuff) = len /\ recvBuff[1].msg = m
      /\ \A k \in 1..len : recvBuff[k].msg = m /\ recvBuff[k].pos = k
  <2>1. HandleMsg /\ ConnInv
    BY DEF StreamInv, ReadMsg
  <2> QED BY <1>1, <1>2, <2>1, HandleMsgTakesNext
<1> DEFINE bytes == [k \in 1..DataLength(recvBuff) |-> streams[recvBuff[k].msg][recvBuff[k].pos]]
<1>4. bytes = streams[m]
  <2>1. streams[m] = [k \in 1..len |-> streams[m][k]]
    BY <1>2, LenProperties
  <2>2. bytes = [k \in 1..len |-> streams[m][k]]
    BY <1>3
  <2> QED BY <2>1, <2>2
<1>5. PICK new : new = ReadAll(streams[m], contents[m], ArrayCap) /\ got' = Append(got, new)
  BY <1>3, <1>4 DEF ReadMsg
<1>6. PICK S : got \in Seq(S) /\ new \in S
  <2>1. PICK S : got \in Seq(S)
    BY DEF StreamInv, ReadInv
  <2>2. got \in Seq(S \cup {new})
    BY <2>1, SeqMonotonic
  <2> QED BY <2>2
<1>7. /\ got' \in Seq(S) /\ Len(got') = d + 1 /\ got'[d + 1] = new
      /\ \A k \in 1..d : got'[k] = got[k]
  <2>1. Len(got) = d
    BY <1>1 DEF StreamInv, ReadInv
  <2> QED BY <1>5, <1>6, <2>1, AppendProperties
<1>8. /\ Len(delivered') = d + 1 /\ delivered'[d + 1] = accepted[d + 1]
      /\ \A k \in 1..d : delivered'[k] = delivered[k]
  <2>1. delivered \in Seq(Msg) /\ accepted[d + 1] \in Msg
    BY <1>1, ElementOfSeq DEF StreamInv, ConnInv, ConnTypeOK
  <2> QED BY <1>1, <1>3, <2>1, AppendProperties
<1>9. calls' = calls /\ accepted' = accepted /\ contents' = contents /\ streams' = streams
  BY DEF ReadMsg, HandleMsg
<1>10. SentInv'
  BY <1>9 DEF StreamInv, SentInv
<1>11. ASSUME NEW k \in 1..(d + 1)
       PROVE  /\ delivered'[k].msg \in 1..calls
              /\ got'[k] = ReadAll(streams[delivered'[k].msg], contents[delivered'[k].msg], ArrayCap)
  <2>1. CASE k = d + 1
    BY <1>2, <1>5, <1>7, <1>8, <2>1
  <2>2. CASE k # d + 1
    <3>1. k \in 1..d
      BY <2>2
    <3>2. /\ delivered[k].msg \in 1..calls
          /\ got[k] = ReadAll(streams[delivered[k].msg], contents[delivered[k].msg], ArrayCap)
      BY <1>1, <3>1 DEF StreamInv, ReadInv
    <3> QED BY <1>7, <1>8, <3>1, <3>2
  <2> QED BY <2>1, <2>2
<1>12. ReadInv'
  BY <1>7, <1>8, <1>9, <1>11 DEF ReadInv
<1> QED BY <1>10, <1>12

LEMMA StreamInductive == StreamInv /\ [StreamNext]_allVars => StreamInv'
<1> SUFFICES ASSUME StreamInv, [StreamNext]_allVars PROVE StreamInv'
  OBVIOUS
<1>1. ConnInv'
  BY StreamStepIsConnStep, ConnInductive DEF StreamInv, ConnInv
<1>2. CASE \E fields \in Contents : SendWriteStream(fields)
  BY <1>1, <1>2, SendWriteStreamKeeps DEF StreamInv
<1>3. CASE ReadMsg
  BY <1>1, <1>3, ReadMsgKeeps DEF StreamInv
<1>4. CASE (Transfer \/ RecvFull \/ DoMsgDone \/ Reset) /\ UNCHANGED streamVars
  <2>1. UNCHANGED <<calls, accepted, delivered, contents, streams, got>>
    BY <1>4 DEF Transfer, SendDataReal, RecvData, RecvFull, DoMsgDone, Reset, streamVars
  <2> QED BY <1>1, <2>1 DEF StreamInv, SentInv, ReadInv
<1>5. CASE UNCHANGED allVars
  <2>1. UNCHANGED <<calls, accepted, delivered, contents, streams, got>>
    BY <1>5 DEF allVars, vars, streamVars
  <2> QED BY <1>1, <2>1 DEF StreamInv, SentInv, ReadInv
<1> QED BY <1>2, <1>3, <1>4, <1>5 DEF StreamNext

\* Whatever pieces the network makes of the bytes, CellReadStream gets from
\* every message the fields that CellWriteStream put in, up to the first
\* array that the reader has no room for; only a field that did not fit the
\* writer's stream is missed.
THEOREM FieldsAreRead == StreamSpec => []FieldsRead
<1>1. StreamInv => FieldsRead
  <2> SUFFICES ASSUME StreamInv, NEW k \in DOMAIN delivered,
                      AllWritten(StreamSize, contents[delivered[k].msg]),
                      NEW i \in Readable(contents[delivered[k].msg])
               PROVE  got[k][i] = contents[delivered[k].msg][i].vals
    BY DEF FieldsRead
  <2>1. k \in 1..Len(delivered) /\ calls \in Nat
    BY LenProperties DEF StreamInv, ConnInv, ConnTypeOK
  <2>2. PICK m \in 1..calls : m = delivered[k].msg /\ got[k] = ReadAll(streams[m], contents[m], ArrayCap)
    BY <2>1 DEF StreamInv, ReadInv
  <2>3. /\ contents[m] \in Contents /\ m \in Nat
        /\ streams[m] = Written(StreamSize, m, contents[m]).bytes
    BY <2>1, ElementOfSeq DEF StreamInv, SentInv
  <2>4. ReadAll(Written(StreamSize, m, contents[m]).bytes, contents[m], ArrayCap)[i] = contents[m][i].vals
    BY <2>2, <2>3, RoundTrip
  <2> QED BY <2>2, <2>3, <2>4
<1>2. StreamSpec => []StreamInv
  BY StreamInitial, StreamInductive, PTL DEF StreamSpec
<1> QED BY <1>1, <1>2, PTL
=============================================================================
