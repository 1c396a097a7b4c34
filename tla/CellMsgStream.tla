---------------------------- MODULE CellMsgStream ----------------------------
(***************************************************************************)
(* depends/include/CellStream.hpp and CellMsgStream.hpp, with the exported *)
(* functions of CppNet100/main.cpp that call them: a message written field *)
(* by field into a buffer, and read back the same way.  A byte is known by *)
(* the value it is a part of and its place in it, so a read that does not  *)
(* fall on the bytes of one value is seen.  A field is [size, vals, array]:*)
(* the bytes of one element, the elements, and whether it is an array,     *)
(* which writes its count first.                                           *)
(***************************************************************************)
EXTENDS Integers, Sequences

CONSTANTS
  LenSize,     \* sizeof(uint16_t), of the length at the front of a message
  CmdSize,     \* sizeof(uint16_t), of the command after it
  CountSize,   \* sizeof(uint32_t), of the count of an array
  LengthMod    \* what the length at the front is kept modulo, 2^16

ASSUME StreamSizesPos == {LenSize, CmdSize, CountSize, LengthMod} \subseteq Nat \ {0}

Garbage == -1   \* what is read from bytes of different values, or not read

Encode(v, n) == [k \in 1..n |-> [val |-> v, part |-> k]]
Decode(bytes) ==
  IF \A k \in DOMAIN bytes : bytes[k] = [val |-> bytes[1].val, part |-> k]
  THEN bytes[1].val ELSE Garbage

\* A CellStream: the size of its buffer, the bytes up to _nWritePos, and
\* _nReadPos.
CanRead(s, n) == Len(s.bytes) - s.readPos >= n
CanWrite(s, n) == s.size - Len(s.bytes) >= n

\* The n bytes after the first skip unread ones.
Peek(s, skip, n) == SubSeq(s.bytes, s.readPos + skip + 1, s.readPos + skip + n)
-----------------------------------------------------------------------------
(* Writing.  A write that finds no room changes nothing and returns false. *)

Write(s, v, n) ==
  IF CanWrite(s, n) THEN [s EXCEPT !.bytes = @ \o Encode(v, n)] ELSE s

Elements(vals, n) == [k \in 1..(Len(vals) * n) |->
                        [val |-> vals[((k - 1) \div n) + 1], part |-> ((k - 1) % n) + 1]]

WriteArray(s, vals, n) ==
  IF CanWrite(s, Len(vals) * n + CountSize)
  THEN [s EXCEPT !.bytes = @ \o Encode(Len(vals), CountSize) \o Elements(vals, n)]
  ELSE s

\* CellWriteStream_WriteInt8 ... WriteDouble, and WriteString
WriteField(s, f) == IF f.array THEN WriteArray(s, f.vals, f.size) ELSE Write(s, f.vals[1], f.size)

\* The constructor of CellWriteStream leaves room for the length.
NewWriteStream(nSize) == Write([size |-> nSize, bytes |-> <<>>, readPos |-> 0], 0, LenSize)

SetNetCmd(s, cmd) == Write(s, cmd, CmdSize)

\* finish: the length, cut to the width of its field, goes to the front.
Finish(s) ==
  [s EXCEPT !.bytes = [k \in DOMAIN @ |->
                         IF k <= LenSize THEN Encode(Len(@) % LengthMod, LenSize)[k] ELSE @[k]]]

\* A command and its fields, written one after the other.
Written(nSize, cmd, fields) ==
  LET s[i \in 0..Len(fields)] ==
        IF i = 0 THEN SetNetCmd(NewWriteStream(nSize), cmd) ELSE WriteField(s[i - 1], fields[i])
  IN  Finish(s[Len(fields)])

FieldBytes(f) == Len(f.vals) * f.size + IF f.array THEN CountSize ELSE 0

\* Every write found room.
AllWritten(nSize, fields) ==
  LET n[i \in 0..Len(fields)] == IF i = 0 THEN LenSize + CmdSize ELSE n[i - 1] + FieldBytes(fields[i])
  IN  n[Len(fields)] <= nSize
-----------------------------------------------------------------------------
(* Reading.  A read that finds too few bytes, or an array too long for the *)
(* reader's memory, moves nothing.                                         *)

Pop(s, n) == [s EXCEPT !.readPos = @ + n]

Read(s, n) ==
  IF CanRead(s, n) THEN [stream |-> Pop(s, n), vals |-> <<Decode(Peek(s, 0, n))>>]
  ELSE [stream |-> s, vals |-> <<Garbage>>]

OnlyRead(s, n) == Read(s, n).vals[1]

\* Mutant of ReadArray: the count is not skipped.
ReadArrayWithCount(s, n, cap) ==
  LET count == OnlyRead(s, CountSize) IN
  IF count \in 0..cap /\ CanRead(s, count * n + CountSize)
  THEN [stream |-> Pop(s, count * n), vals |-> [i \in 1..count |-> Decode(Peek(s, (i - 1) * n, n))]]
  ELSE [stream |-> s, vals |-> <<>>]

\* readArray: the count is looked at before anything is moved.
ReadArray(s, n, cap) ==
  LET count == OnlyRead(s, CountSize) IN
  IF count \in 0..cap /\ CanRead(s, count * n + CountSize)
  THEN [stream |-> Pop(Pop(s, CountSize), count * n),
        vals |-> [i \in 1..count |-> Decode(Peek(s, CountSize + (i - 1) * n, n))]]
  ELSE [stream |-> s, vals |-> <<>>]

\* CellReadStream_ReadInt8 ... ReadDouble, and ReadString; only the kind of
\* the field is looked at
ReadField(s, f, cap) == IF f.array THEN ReadArray(s, f.size, cap) ELSE Read(s, f.size)

GetNetCmd(s) == Read(s, CmdSize)

\* The constructor of CellReadStream takes the whole message and reads its
\* length and command.
NewReadStream(bytes) ==
  LET whole == [size |-> Len(bytes), bytes |-> bytes, readPos |-> 0]
  IN  GetNetCmd(Read(whole, LenSize).stream).stream

\* What a reader that knows the kinds of the fields gets.
ReadAll(bytes, fields, cap) ==
  LET step[i \in 0..Len(fields)] ==
        IF i = 0 THEN [stream |-> NewReadStream(bytes), vals |-> <<>>]
        ELSE ReadField(step[i - 1].stream, fields[i], cap)
  IN  [i \in 1..Len(fields) |-> step[i].vals]
=============================================================================
