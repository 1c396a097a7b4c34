----------------------------- MODULE CellBuffer -----------------------------
(***************************************************************************)
(* depends/include/CellBuffer.hpp: a byte buffer of fixed size.  A buffer  *)
(* is the sequence of the bytes it holds; a message of length len is the   *)
(* bytes 1..len, its header the first HeaderLen of them.  A byte is known  *)
(* by its message, the dataLength that the header of the message holds, and*)
(* its position, so a byte lost, repeated or moved is seen.  How long a    *)
(* message really is stands nowhere: the receiver has the header only.     *)
(* _fullCount, which nothing reads, is left out.                           *)
(***************************************************************************)
EXTENDS Naturals, Sequences

CONSTANT HeaderLen   \* sizeof(netmsg_DataHeader)

ASSUME HeaderLenPos == HeaderLen \in Nat \ {0}

\* len bytes, whose header says that they are dataLength
MsgBytes(m, len, dataLength) ==
  [k \in 1..len |-> [msg |-> m, dataLength |-> dataLength, pos |-> k]]

\* push: all of the bytes, or none
Fits(buff, size, bytes) == Len(buff) + Len(bytes) <= size
Push(buff, bytes) == buff \o bytes

\* Mutant of DropFront: one byte too many stays.
DropShort(buff, n) == SubSeq(buff, n, Len(buff))

\* pop, and the tail of a partial write2socket: the rest moves to the front
DropFront(buff, n) == SubSeq(buff, n + 1, Len(buff))
Front(buff, n) == SubSeq(buff, 1, n)

\* header->dataLength of the bytes at the front
DataLength(buff) == buff[1].dataLength

\* Mutant of HasMsg: the length is tested with >.
HasMore(buff) == Len(buff) >= HeaderLen /\ Len(buff) > DataLength(buff)

HasMsg(buff) == Len(buff) >= HeaderLen /\ Len(buff) >= DataLength(buff)
=============================================================================
