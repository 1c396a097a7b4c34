\* Three sends of messages of two to seven bytes with a header of two, a
\* receive buffer too small for the longest, partial sends and receives of
\* every size, and resets.  The server or the client receives.  A broken
\* connection stops, and so does a client with a full buffer.
CONSTANTS
  HeaderLen = 2
  LenSize = 1
  CmdSize = 1
  CountSize = 1
  LengthMod = 8
  StreamSize = 7
  ArrayCap = 1
  SendSize = 7
  RecvSize = 6
  WireSize = 5
  Contents <- MCContents
  Lengths <- MCLengths
  MaxMsgs = 3
  CanReset = TRUE
SPECIFICATION StreamSpec
INVARIANTS OnlyOversizeStops FieldsRead
PROPERTIES IsChannel DeliversAll
CHECK_DEADLOCK FALSE
