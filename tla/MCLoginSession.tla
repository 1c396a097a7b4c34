--------------------------- MODULE MCLoginSession ---------------------------
EXTENDS LoginSession

Started(client, check, back) == [client |-> client, checkSendBack |-> check, sendBack |-> back]

MCOptions == {Started("epoll", TRUE, TRUE), Started("select", TRUE, TRUE),
              Started("epoll", FALSE, TRUE)}
MCBroken == {<<1, 1>>}
=============================================================================
