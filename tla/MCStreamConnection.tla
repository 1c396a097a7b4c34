------------------------- MODULE MCStreamConnection -------------------------
EXTENDS StreamConnection

Small(v) == [size |-> 1, vals |-> <<v>>, array |-> FALSE]
Wide(v) == [size |-> 2, vals |-> <<v>>, array |-> FALSE]
Bytes(vals) == [size |-> 1, vals |-> vals, array |-> TRUE]

\* Messages of two, four, five, six and seven bytes.  The receive buffer has
\* room for six, the reader for an array of one, so that an array of two is
\* refused by the reader and the last message by its buffer.
MCContents == {<<>>, <<Wide(7)>>, <<Bytes(<<5>>), Small(6)>>, <<Bytes(<<1, 2>>), Small(3)>>,
               <<Wide(4), Bytes(<<8, 9>>)>>}

MCLengths == {Len(Written(StreamSize, 0, fields).bytes) : fields \in MCContents}
=============================================================================
